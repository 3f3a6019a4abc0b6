------------------------- MODULE VersionIndexProofs -------------------------
(***************************************************************************)
(* Proofs about VersionIndex for every set of callers and runs, every      *)
(* number of releases and either kind of registry.                         *)
(***************************************************************************)
EXTENDS VersionIndex, FiniteSetTheorems, TLAPS

Building(c) == pc[c] \in {"published", "walk", "built"}

\* The releases byKey names.
Named == {byKey[i] : i \in DOMAIN byKey}

\* What a finished build may leave in byKey.
Warranted ==
  \/ byKey \in {<<>>, ShipList}
  \/ /\ Named = Ships \cap walk.loaded
     /\ 2 * Cardinality(walk.failed) < Cardinality(walk.loaded \cup walk.failed)

\* The mutex is held from Lock to Answer, and nobody builds a ready index.
MutexHeld ==
  \A c \in Callers :
    /\ mu = c <=> Building(c) \/ pc[c] = "locked"
    /\ Building(c) => ~ready

\* A build knows what it has: a cancelled run is the only thing that aborts
\* a release, a walk has recorded what it loaded, and a finished build is
\* warranted.
BuildIsTrue ==
  \A c \in Callers :
    /\ Building(c) /\ Live(c) => aborted = {}
    /\ pc[c] = "published" => byKey = <<>>
    /\ pc[c] = "walk" => Named = Ships \cap walk.loaded
    /\ pc[c] = "built" => Warranted

\* What a caller was told stands, unless its run has been cancelled.
AnswerStands ==
  \A c \in Callers :
    /\ pc[c] = "checked" /\ Live(c) => ready /\ hint[c] = byKey
    /\ result[c] # "pending" => pc[c] = "checked"

IndexIsTrue == ready => aborted = {} /\ Warranted

IInv ==
  /\ TypeOK /\ MutexHeld /\ BuildIsTrue /\ AnswerStands /\ IndexIsTrue
  /\ ReportedHintIsSettled

-----------------------------------------------------------------------------

LEMMA InitIInv == Init => IInv
<1> SUFFICES ASSUME Init PROVE IInv
  OBVIOUS
<1>1. TypeOK
  <2>1. <<>> \in Seq(Releases)
    OBVIOUS
  <2>2. NoWalk \in [left : Seq(Releases), loaded : SUBSET Releases, failed : SUBSET Releases]
    BY <2>1 DEF NoWalk
  <2> QED
    BY <2>1, <2>2 DEF Init, TypeOK
<1>2. MutexHeld /\ BuildIsTrue /\ AnswerStands /\ IndexIsTrue /\ ReportedHintIsSettled
  BY IndexAssumption DEF Init, MutexHeld, BuildIsTrue, AnswerStands, IndexIsTrue,
    ReportedHintIsSettled, Building
<1>3. QED
  BY <1>1, <1>2 DEF IInv

\* Appending a release adds it to the ones named.
LEMMA AppendNames ==
  ASSUME NEW s \in Seq(Releases), NEW r \in Releases
  PROVE  {Append(s, r)[i] : i \in DOMAIN Append(s, r)} = {s[i] : i \in DOMAIN s} \cup {r}
<1>1. DOMAIN Append(s, r) = DOMAIN s \cup {Len(s) + 1} /\ Len(s) \in Nat /\ DOMAIN s = 1..Len(s)
  OBVIOUS
<1>2. Append(s, r)[Len(s) + 1] = r
  OBVIOUS
<1>3. \A i \in DOMAIN s : Append(s, r)[i] = s[i]
  OBVIOUS
<1> QED
  BY <1>1, <1>2, <1>3

LEMMA WindowIsFinite ==
  ASSUME NEW S \in SUBSET Releases, NEW T \in SUBSET Releases
  PROVE  IsFiniteSet(S) /\ IsFiniteSet(S \cup T)
<1>1. IsFiniteSet(Releases)
  BY IndexAssumption, FS_Interval DEF Releases
<1> QED
  BY <1>1, FS_Subset

\* Steps of a caller outside the build.
LEMMA OutsideStep ==
  ASSUME IInv, NEW c \in Callers,
         Ask(c) \/ BreakOff(c) \/ Lock(c) \/ AnswerNothing(c) \/ AnswerReady(c)
           \/ BeginBuild(c) \/ FinishBuild(c) \/ Report(c)
  PROVE  IInv'
<1> USE IndexAssumption DEF IInv, Goto, Live
<1>1. CASE Ask(c)
  <2> USE <1>1 DEF Ask
  <2>1. TypeOK' BY DEF TypeOK
  <2>2. MutexHeld' BY DEF MutexHeld, TypeOK, Building
  <2>3. BuildIsTrue' BY DEF TypeOK, BuildIsTrue, Building, Warranted, Named
  <2>4. AnswerStands' /\ IndexIsTrue' /\ ReportedHintIsSettled'
    BY DEF TypeOK, AnswerStands, IndexIsTrue, ReportedHintIsSettled, Warranted, Named
  <2> QED BY <2>1, <2>2, <2>3, <2>4
<1>2. CASE BreakOff(c)
  <2> USE <1>2 DEF BreakOff
  <2>1. TypeOK' BY DEF TypeOK
  <2>2. MutexHeld' BY DEF MutexHeld, TypeOK, Building
  <2>3. BuildIsTrue' BY DEF TypeOK, BuildIsTrue, Building, Warranted, Named
  <2>4. AnswerStands' /\ IndexIsTrue' /\ ReportedHintIsSettled'
    BY DEF TypeOK, AnswerStands, IndexIsTrue, ReportedHintIsSettled, Warranted, Named
  <2> QED BY <2>1, <2>2, <2>3, <2>4
<1>3. CASE Lock(c)
  <2> USE <1>3 DEF Lock
  <2>1. TypeOK' BY DEF TypeOK
  <2>2. MutexHeld' BY DEF MutexHeld, TypeOK, Building
  <2>3. BuildIsTrue' /\ AnswerStands' /\ IndexIsTrue' /\ ReportedHintIsSettled'
    BY DEF TypeOK, BuildIsTrue, AnswerStands, IndexIsTrue,
      ReportedHintIsSettled, Building, Warranted, Named
  <2> QED BY <2>1, <2>2, <2>3
<1>4. CASE AnswerNothing(c)
  <2> USE <1>4 DEF AnswerNothing, Answer
  <2>1. TypeOK' BY DEF TypeOK
  <2>2. MutexHeld' BY DEF MutexHeld, TypeOK, Building
  <2>3. BuildIsTrue' /\ AnswerStands' /\ IndexIsTrue' /\ ReportedHintIsSettled'
    BY DEF TypeOK, BuildIsTrue, AnswerStands, IndexIsTrue,
      ReportedHintIsSettled, Building, Warranted, Named
  <2> QED BY <2>1, <2>2, <2>3
<1>5. CASE AnswerReady(c)
  <2> USE <1>5 DEF AnswerReady, Answer
  <2>1. TypeOK' BY DEF TypeOK
  <2>2. MutexHeld' BY DEF MutexHeld, TypeOK, Building
  <2>3. BuildIsTrue' /\ AnswerStands' /\ IndexIsTrue' /\ ReportedHintIsSettled'
    BY DEF TypeOK, BuildIsTrue, AnswerStands, IndexIsTrue,
      ReportedHintIsSettled, Building, Warranted, Named
  <2> QED BY <2>1, <2>2, <2>3
<1>6. CASE BeginBuild(c)
  <2> USE <1>6 DEF BeginBuild
  <2>1. TypeOK' BY DEF TypeOK, NoWalk
  <2>2. MutexHeld' BY DEF MutexHeld, TypeOK, Building
  <2>3. BuildIsTrue'
    <3>1. \A d \in Callers : Building(d)' => d = c
      BY <2>2 DEF MutexHeld, TypeOK
    <3> QED BY <3>1 DEF BuildIsTrue, Building, TypeOK
  <2>4. AnswerStands' /\ IndexIsTrue' /\ ReportedHintIsSettled'
    BY DEF TypeOK, AnswerStands, IndexIsTrue, ReportedHintIsSettled
  <2> QED BY <2>1, <2>2, <2>3, <2>4
<1>7. CASE FinishBuild(c)
  <2> USE <1>7 DEF FinishBuild, Answer
  <2>1. TypeOK' BY DEF TypeOK
  <2>2. MutexHeld' BY DEF MutexHeld, TypeOK, Building
  <2>3. ~ready /\ (Live(c) => aborted = {}) /\ Warranted
    BY DEF MutexHeld, BuildIsTrue, Building
  <2>4. \A d \in Callers : ~Building(d)'
    BY <2>2, IndexAssumption DEF MutexHeld
  <2>5. BuildIsTrue'
    BY <2>4 DEF BuildIsTrue, Building
  <2>6. AnswerStands' /\ ReportedHintIsSettled'
    BY <2>3 DEF TypeOK, AnswerStands, ReportedHintIsSettled
  <2>7. IndexIsTrue'
    BY <2>3 DEF IndexIsTrue, Warranted, Named
  <2> QED BY <2>1, <2>2, <2>5, <2>6, <2>7
<1>8. CASE Report(c)
  <2> USE <1>8 DEF Report
  <2>1. TypeOK' BY DEF TypeOK
  <2>2. MutexHeld' BY DEF MutexHeld, TypeOK, Building
  <2>3. BuildIsTrue' BY DEF BuildIsTrue, Building, Warranted, Named
  <2>4. AnswerStands' BY DEF TypeOK, AnswerStands
  <2>5. IndexIsTrue' /\ ReportedHintIsSettled'
    BY DEF TypeOK, AnswerStands, IndexIsTrue, ReportedHintIsSettled, Warranted, Named
  <2> QED BY <2>1, <2>2, <2>3, <2>4, <2>5
<1>9. QED
  BY <1>1, <1>2, <1>3, <1>4, <1>5, <1>6, <1>7, <1>8

\* Steps of the build, all under the mutex.
LEMMA BuildStep ==
  ASSUME IInv, NEW c \in Callers,
         ReadPublished(c) \/ ListReleases(c) \/ LoadRelease(c) \/ FailRelease(c) \/ EndWalk(c)
  PROVE  IInv'
<1> USE IndexAssumption DEF IInv
<1>0. /\ mu = c /\ ~ready
      /\ \A d \in Callers : d # c => ~Building(d) /\ pc[d] # "locked"
  BY DEF MutexHeld, Building, ReadPublished, ListReleases, LoadRelease, FailRelease, EndWalk
<1>1. /\ UNCHANGED <<cancelled, mu, ready, hint, result>>
      /\ \E l \in {"walk", "built"} : pc' = [pc EXCEPT ![c] = l]
  BY DEF ReadPublished, ListReleases, LoadRelease, FailRelease, EndWalk, Goto, TypeOK
<1>2. MutexHeld' /\ AnswerStands' /\ IndexIsTrue' /\ ReportedHintIsSettled'
  BY <1>0, <1>1 DEF MutexHeld, AnswerStands, IndexIsTrue, ReportedHintIsSettled, TypeOK,
    Building, Live, ReadPublished, ListReleases, LoadRelease, FailRelease, EndWalk
<1>3. \A d \in Callers : Building(d)' => d = c
  BY <1>0, <1>1 DEF Building, TypeOK
<1>4. Live(c) => aborted = {}
  BY DEF BuildIsTrue, Building, ReadPublished, ListReleases, LoadRelease, FailRelease, EndWalk
<1>5. CASE ReadPublished(c)
  <2> USE <1>5 DEF ReadPublished, Goto
  <2>0. byKey' \in Seq(Releases) /\ aborted' \subseteq Releases
    <3>1. <<>> \in Seq(Releases)
      OBVIOUS
    <3> QED BY <3>1 DEF TypeOK
  <2>1. TypeOK' BY <2>0 DEF TypeOK
  <2>2. BuildIsTrue'
    BY <1>3, <1>4 DEF BuildIsTrue, Building, TypeOK, Live, Warranted
  <2> QED BY <1>2, <2>1, <2>2
<1>6. CASE ListReleases(c)
  <2> USE <1>6 DEF ListReleases, Goto
  <2>1. PICK n \in {0, NumReleases} :
          LET kept == IF Remote /\ n > WalkLimit THEN WalkLimit ELSE n
          IN  /\ walk' = [left |-> [i \in 1..kept |-> NumReleases - kept + i],
                          loaded |-> {}, failed |-> {}]
              /\ aborted' = IF n = 0 /\ ~Live(c) THEN Releases ELSE {}
    OBVIOUS
  <2> DEFINE kept == IF Remote /\ n > WalkLimit THEN WalkLimit ELSE n
  <2>2. kept \in 0..NumReleases
    OBVIOUS
  <2>3. [i \in 1..kept |-> NumReleases - kept + i] \in Seq(Releases)
    <3>1. \A i \in 1..kept : NumReleases - kept + i \in Releases
      BY <2>2 DEF Releases
    <3> HIDE DEF kept
    <3> QED BY <2>2, <3>1
  <2>4. TypeOK'
    BY <2>1, <2>3 DEF TypeOK
  <2>5. BuildIsTrue'
    <3>1. byKey = <<>>
      BY DEF BuildIsTrue
    <3>2. byKey' = <<>> /\ walk'.loaded = {} /\ pc'[c] = "walk" /\ (Live(c) => aborted' = {})
      BY <2>1, <3>1 DEF TypeOK
    <3>3. Live(c)' <=> Live(c)
      BY DEF Live
    <3> QED BY <1>3, <3>2, <3>3 DEF BuildIsTrue, Building, Named
  <2> QED BY <1>2, <2>4, <2>5
<1>7. CASE LoadRelease(c)
  <2> USE <1>7 DEF LoadRelease
  <2> DEFINE r == Head(walk.left)
  <2>1. r \in Releases /\ Tail(walk.left) \in Seq(Releases) /\ byKey' \in Seq(Releases)
    BY DEF TypeOK
  <2>2. TypeOK'
    BY <2>1 DEF TypeOK
  <2>3. Named' = Ships \cap walk'.loaded
    <3>1. Named = Ships \cap walk.loaded
      BY DEF BuildIsTrue
    <3>2. walk'.loaded = walk.loaded \cup {r}
      OBVIOUS
    <3>3. CASE r \in Ships
      <4>1. byKey' = Append(byKey, r)
        BY <3>3
      <4>2. Named' = {Append(byKey, r)[i] : i \in DOMAIN Append(byKey, r)}
        BY <4>1, Zenon DEF Named
      <4>3. Named' = Named \cup {r}
        <5>1. byKey \in Seq(Releases)
          BY DEF TypeOK
        <5> HIDE DEF r
        <5> QED BY <5>1, <4>2, <2>1, AppendNames, Zenon DEF Named
      <4> QED BY <3>1, <3>2, <3>3, <4>3
    <3>4. CASE r \notin Ships
      BY <3>1, <3>2, <3>4 DEF Named
    <3> QED BY <3>3, <3>4
  <2>4. BuildIsTrue'
    BY <1>3, <1>4, <2>3 DEF BuildIsTrue, Building, Live, TypeOK
  <2> QED BY <1>2, <2>2, <2>4
<1>8. CASE FailRelease(c)
  <2> USE <1>8 DEF FailRelease
  <2>1. Head(walk.left) \in Releases /\ Tail(walk.left) \in Seq(Releases)
    BY DEF TypeOK
  <2>2. TypeOK'
    BY <2>1 DEF TypeOK
  <2>3. Named' = Ships \cap walk'.loaded
    BY DEF BuildIsTrue, Named
  <2>4. BuildIsTrue'
    BY <1>3, <1>4, <2>3 DEF BuildIsTrue, Building, Live, TypeOK
  <2> QED BY <1>2, <2>2, <2>4
<1>9. CASE EndWalk(c)
  <2> USE <1>9 DEF EndWalk, Goto
  <2>1. TypeOK' BY DEF TypeOK
  <2>2. Named = Ships \cap walk.loaded
    BY DEF BuildIsTrue
  <2>3. /\ Cardinality(walk.failed) \in Nat
        /\ Cardinality(walk.loaded \cup walk.failed) \in Nat
    BY WindowIsFinite, FS_CardinalityType DEF TypeOK
  <2>4. Warranted'
    <3>1. CASE byKey' = <<>>
      BY <3>1 DEF Warranted
    <3>2. CASE byKey' # <<>>
      <4>1. byKey' = byKey /\ walk' = walk
        BY <3>2
      <4>2. ~ (Cardinality(walk.failed) * 2 >= Cardinality(walk.loaded \cup walk.failed))
        BY <3>2
      <4>3. 2 * Cardinality(walk.failed) < Cardinality(walk.loaded \cup walk.failed)
        BY <4>2, <2>3
      <4>4. Named' = Named
        BY <4>1 DEF Named
      <4> QED BY <4>1, <4>3, <4>4, <2>2 DEF Warranted
    <3> QED BY <3>1, <3>2
  <2>5. BuildIsTrue'
    BY <1>3, <1>4, <2>4 DEF BuildIsTrue, Building, Live, TypeOK
  <2> QED BY <1>2, <2>1, <2>5
<1>10. QED
  BY <1>5, <1>6, <1>7, <1>8, <1>9

LEMMA NextIInv == IInv /\ [Next]_vars => IInv'
<1> SUFFICES ASSUME IInv, [Next]_vars PROVE IInv'
  OBVIOUS
<1>1. ASSUME NEW r \in Runs, Cancel(r) PROVE IInv'
  <2> USE <1>1 DEF Cancel, IInv
  <2>1. TypeOK' /\ MutexHeld'
    BY DEF TypeOK, MutexHeld, Building
  <2>2. BuildIsTrue'
    BY DEF BuildIsTrue, Building, Live, Warranted, Named
  <2>3. AnswerStands' /\ IndexIsTrue' /\ ReportedHintIsSettled'
    BY DEF AnswerStands, IndexIsTrue, ReportedHintIsSettled, Live, Warranted, Named
  <2> QED BY <2>1, <2>2, <2>3
<1>2. CASE Terminated \/ UNCHANGED vars
  <2> USE <1>2 DEF Terminated, vars, IInv
  <2>1. TypeOK' /\ MutexHeld'
    BY DEF TypeOK, MutexHeld, Building
  <2>2. BuildIsTrue'
    BY DEF BuildIsTrue, Building, Live, Warranted, Named
  <2>3. AnswerStands' BY DEF AnswerStands, Live
  <2>4. IndexIsTrue' BY DEF IndexIsTrue, Warranted, Named
  <2>5. ReportedHintIsSettled' BY DEF ReportedHintIsSettled
  <2> QED BY <2>1, <2>2, <2>3, <2>4, <2>5
<1>3. QED
  BY <1>1, <1>2, OutsideStep, BuildStep DEF Next, Caller

THEOREM Invariance == Spec => []IInv
  BY InitIInv, NextIInv, PTL DEF Spec

-----------------------------------------------------------------------------
(* The order of a hint: an invariant of its own, on top of IInv. *)

Increasing(s) == \A i, j \in DOMAIN s : i < j => s[i] < s[j]

\* Every hint, the index they are copied from and what a walk has left are in
\* order, and a walk is past everything it has put into the index.
OldestFirst ==
  /\ Increasing(byKey)
  /\ \A c \in Callers : Increasing(hint[c])
  /\ \A c \in Callers : pc[c] = "walk" =>
       /\ Increasing(walk.left)
       /\ \A i \in DOMAIN byKey, j \in DOMAIN walk.left : byKey[i] < walk.left[j]

\* What a walk has left stays in order when its head is taken, and all of it
\* is past that head.
LEMMA TailInOrder ==
  ASSUME NEW s \in Seq(Releases), s # <<>>, Increasing(s)
  PROVE  /\ Increasing(Tail(s))
         /\ \A j \in DOMAIN Tail(s) : Head(s) < Tail(s)[j] /\ \E k \in DOMAIN s : Tail(s)[j] = s[k]
<1>1. /\ Len(s) \in Nat \ {0} /\ DOMAIN s = 1..Len(s) /\ Head(s) = s[1]
      /\ DOMAIN Tail(s) = 1..(Len(s) - 1)
      /\ \A j \in 1..(Len(s) - 1) : Tail(s)[j] = s[j + 1]
  OBVIOUS
<1>2. \A j \in DOMAIN Tail(s) : 1 \in DOMAIN s /\ j + 1 \in DOMAIN s /\ 1 < j + 1
  BY <1>1
<1>3. \A i, j \in DOMAIN Tail(s) : i < j => i + 1 < j + 1
  BY <1>1
<1> QED
  BY <1>1, <1>2, <1>3 DEF Increasing

\* A release past all of a sequence may follow it.
LEMMA AppendInOrder ==
  ASSUME NEW s \in Seq(Releases), NEW r \in Releases, Increasing(s),
         \A i \in DOMAIN s : s[i] < r
  PROVE  /\ Increasing(Append(s, r))
         /\ \A i \in DOMAIN Append(s, r) : Append(s, r)[i] = r \/ \E k \in DOMAIN s : Append(s, r)[i] = s[k]
<1>1. /\ Len(s) \in Nat /\ DOMAIN s = 1..Len(s)
      /\ DOMAIN Append(s, r) = 1..(Len(s) + 1)
      /\ \A i \in 1..Len(s) : Append(s, r)[i] = s[i]
      /\ Append(s, r)[Len(s) + 1] = r
  OBVIOUS
<1>2. \A i \in DOMAIN Append(s, r) : i \in DOMAIN s \/ i = Len(s) + 1
  BY <1>1
<1>3. \A i, j \in DOMAIN Append(s, r) : i < j => i \in DOMAIN s
  BY <1>1
<1> QED
  BY <1>1, <1>2, <1>3 DEF Increasing

LEMMA InitOldestFirst == Init => OldestFirst
  BY DEF Init, OldestFirst, Increasing

\* Only a build touches the index, and it is the only one.
LEMMA NextOldestFirst == IInv /\ OldestFirst /\ [Next]_vars => OldestFirst'
<1> SUFFICES ASSUME IInv, OldestFirst, [Next]_vars PROVE OldestFirst'
  OBVIOUS
<1> USE DEF Goto
<1>0. TypeOK /\ MutexHeld
  BY DEF IInv
<1>1. ASSUME UNCHANGED <<byKey, walk>>,
             \A c \in Callers : Increasing(hint'[c]),
             \A c \in Callers : pc'[c] = "walk" => pc[c] = "walk"
      PROVE  OldestFirst'
  BY <1>1 DEF OldestFirst, Increasing
<1>2. CASE (\E r \in Runs : Cancel(r)) \/ Terminated \/ UNCHANGED vars
  <2>1. UNCHANGED <<byKey, walk, pc, hint>>
    BY <1>2 DEF Cancel, Terminated, vars
  <2> QED
    BY <1>1, <2>1 DEF OldestFirst
<1>3. ASSUME NEW c \in Callers,
             Ask(c) \/ BreakOff(c) \/ Lock(c) \/ Report(c)
      PROVE  OldestFirst'
  <2>1. UNCHANGED <<byKey, walk, hint>> /\ \A d \in Callers : pc'[d] = "walk" => pc[d] = "walk"
    BY <1>0, <1>3 DEF Ask, BreakOff, Lock, Report, TypeOK
  <2> QED
    BY <1>1, <2>1 DEF OldestFirst
<1>4. ASSUME NEW c \in Callers, AnswerNothing(c) \/ AnswerReady(c) \/ FinishBuild(c)
      PROVE  OldestFirst'
  <2>1. UNCHANGED <<byKey, walk>> /\ \A d \in Callers : pc'[d] = "walk" => pc[d] = "walk"
    BY <1>0, <1>4 DEF AnswerNothing, AnswerReady, FinishBuild, Answer, TypeOK
  <2>2. \E a \in {<<>>, byKey} : hint' = [hint EXCEPT ![c] = a]
    BY <1>4 DEF AnswerNothing, AnswerReady, FinishBuild, Answer
  <2>3. \A d \in Callers : hint'[d] \in {<<>>, byKey, hint[d]}
    BY <1>0, <2>2 DEF TypeOK
  <2>4. Increasing(<<>>)
    BY DEF Increasing
  <2>5. \A d \in Callers : Increasing(hint'[d])
    BY <2>3, <2>4 DEF OldestFirst
  <2> QED
    BY <1>1, <2>1, <2>5
<1>5. ASSUME NEW c \in Callers,
             BeginBuild(c) \/ ReadPublished(c) \/ EndWalk(c)
      PROVE  OldestFirst'
  <2>1. UNCHANGED hint /\ byKey' \in {<<>>, ShipList, byKey}
    BY <1>5 DEF BeginBuild, ReadPublished, EndWalk
  <2>2. Increasing(byKey')
    BY <2>1, ShipListAssumption DEF OldestFirst, Increasing
  <2>3. \A d \in Callers : pc'[d] # "walk"
    BY <1>0, <1>5, IndexAssumption DEF BeginBuild, ReadPublished, EndWalk, TypeOK, MutexHeld, Building
  <2> QED
    BY <2>1, <2>2, <2>3 DEF OldestFirst
<1>6. ASSUME NEW c \in Callers, ListReleases(c)
      PROVE  OldestFirst'
  <2>1. PICK n \in {0, NumReleases} :
          LET kept == IF Remote /\ n > WalkLimit THEN WalkLimit ELSE n
          IN  walk' = [left |-> [i \in 1..kept |-> NumReleases - kept + i],
                       loaded |-> {}, failed |-> {}]
    BY <1>6 DEF ListReleases
  <2> DEFINE kept == IF Remote /\ n > WalkLimit THEN WalkLimit ELSE n
  <2>2. kept \in Nat /\ NumReleases \in Nat
    BY IndexAssumption
  <2>3. walk'.left = [i \in 1..kept |-> NumReleases - kept + i]
    BY <2>1
  <2>4. Increasing(walk'.left)
    <3> HIDE DEF kept
    <3> QED BY <2>2, <2>3 DEF Increasing
  <2>5. byKey = <<>> /\ UNCHANGED <<byKey, hint>>
    BY <1>6 DEF IInv, BuildIsTrue, ListReleases
  <2> HIDE DEF kept
  <2> QED
    BY <2>4, <2>5 DEF OldestFirst
<1>7. ASSUME NEW c \in Callers, LoadRelease(c) \/ FailRelease(c)
      PROVE  OldestFirst'
  <2> DEFINE r == Head(walk.left)
  <2>1. /\ walk.left \in Seq(Releases) /\ walk.left # <<>> /\ Increasing(walk.left)
        /\ walk'.left = Tail(walk.left) /\ pc[c] = "walk" /\ UNCHANGED <<pc, hint>>
        /\ byKey \in Seq(Releases) /\ Increasing(byKey)
        /\ \A i \in DOMAIN byKey, j \in DOMAIN walk.left : byKey[i] < walk.left[j]
    BY <1>0, <1>7 DEF LoadRelease, FailRelease, OldestFirst, TypeOK
  <2>2. r \in Releases /\ \A i \in DOMAIN byKey : byKey[i] < r
    BY <2>1
  <2>3. /\ Increasing(walk'.left)
        /\ \A j \in DOMAIN walk'.left : r < walk'.left[j]
        /\ \A i \in DOMAIN byKey, j \in DOMAIN walk'.left : byKey[i] < walk'.left[j]
    BY <2>1, TailInOrder
  <2>4. byKey' = byKey \/ byKey' = Append(byKey, r)
    BY <1>7 DEF LoadRelease, FailRelease
  <2>5. /\ Increasing(byKey')
        /\ \A i \in DOMAIN byKey', j \in DOMAIN walk'.left : byKey'[i] < walk'.left[j]
    <3>1. CASE byKey' = byKey
      BY <2>1, <2>3, <3>1
    <3>2. CASE byKey' = Append(byKey, r)
      <4> HIDE DEF r
      <4> QED BY <2>1, <2>2, <2>3, <3>2, AppendInOrder
    <3> QED BY <2>4, <3>1, <3>2
  <2> HIDE DEF r
  <2> QED
    BY <2>1, <2>3, <2>5 DEF OldestFirst
<1>8. QED
  BY <1>2, <1>3, <1>4, <1>5, <1>6, <1>7 DEF Next, Caller

-----------------------------------------------------------------------------
(* What follows from it. *)

\* Every variable has its type (TypeOK).
THEOREM TypeCorrect == Spec => []TypeOK
<1>1. IInv => TypeOK
  BY DEF IInv
<1>2. QED
  BY <1>1, Invariance, PTL

\* The index never settles on what a cancelled build left behind, and names
\* nothing it has not read (AnswerIsWarranted).
THEOREM SettledIndexIsWarranted == Spec => []AnswerIsWarranted
<1>1. IInv => AnswerIsWarranted
  BY DEF IInv, IndexIsTrue, AnswerIsWarranted, Warranted, Named
<1>2. QED
  BY <1>1, Invariance, PTL

\* No reported file was told anything but what the index settled on
\* (ReportedHintIsSettled).
THEOREM ReportsAgree == Spec => []ReportedHintIsSettled
<1>1. IInv => ReportedHintIsSettled
  BY DEF IInv
<1>2. QED
  BY <1>1, Invariance, PTL

\* A ready index is never emptied, rebuilt or changed (IndexNeverRebuilt).
THEOREM ReadyIsForever == Spec => IndexNeverRebuilt
<1>1. IInv /\ [Next]_vars => [ready => ready' /\ byKey' = byKey]_vars
  <2> SUFFICES ASSUME IInv, Next, ready PROVE ready' /\ byKey' = byKey
    OBVIOUS
  <2>1. CASE \E r \in Runs : Cancel(r)
    BY <2>1 DEF Cancel
  <2>2. CASE Terminated
    BY <2>2 DEF Terminated, vars
  <2>3. ASSUME NEW c \in Callers, Caller(c) PROVE ready' /\ byKey' = byKey
    <3>1. ~Building(c)
      BY DEF IInv, MutexHeld
    <3> QED
      BY <2>3, <3>1 DEF Caller, Building, Ask, BreakOff, Lock, AnswerNothing, AnswerReady,
        BeginBuild, ReadPublished, ListReleases, LoadRelease, FailRelease, EndWalk,
        FinishBuild, Report
  <2> QED BY <2>1, <2>2, <2>3 DEF Next
<1>2. QED
  BY <1>1, Invariance, PTL DEF Spec, IndexNeverRebuilt

\* A hint names the releases oldest first, whichever build filled the index
\* and however many releases a walk passed over (HintsOldestFirst).
THEOREM HintsAreOrdered == Spec => []HintsOldestFirst
<1>1. OldestFirst => HintsOldestFirst
  BY DEF OldestFirst, Increasing, HintsOldestFirst
<1>2. QED
  BY <1>1, Invariance, InitOldestFirst, NextOldestFirst, PTL DEF Spec
=============================================================================
