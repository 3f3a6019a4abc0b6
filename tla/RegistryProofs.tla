--------------------------- MODULE RegistryProofs ---------------------------
(***************************************************************************)
(* Proofs about Registry for any distributions, releases, requests,        *)
(* formats, retention and milestones.                                      *)
(***************************************************************************)
EXTENDS Registry, FiniteSetTheorems, WellFoundedInduction, TLAPS

-----------------------------------------------------------------------------
(* The inductive invariant. *)

\* A file that pruning removes, as doomed names it.
Files == {<<d, -v, k>> : d \in Dists, v \in Releases, k \in DOMAIN Extensions}

\* Releases none of whose files is doomed.
Spared(d) == {v \in Held(d) : \A k \in DOMAIN Extensions : <<d, -v, k>> \notin doomed}

\* A manifest waits its turn, or its schema is this run's in every form.
Waits(m) == \E j \in DOMAIN todo : todo[j] = m
IsMade(m) == \A k \in DOMAIN formats : file[m[1]][m[2]][formats[k]] = run

\* Pruning will have removed it, in every form there is.
IsLeaving(m) ==
  /\ Retain > 0
  /\ \A k \in DOMAIN Extensions :
       file[m[1]][m[2]][Extensions[k]] = Absent \/ <<m[1], -m[2], k>> \in doomed
IsSpared(m) == \A k \in DOMAIN Extensions : <<m[1], -m[2], k>> \notin doomed

\* A manifest under way has a format to be written in, and pruning its files.
StepsAreReady ==
  /\ pc \in {"generate", "encode"} =>
       /\ run > 0 /\ doomed = {} /\ formats # <<>> /\ form \in DOMAIN formats
  /\ pc = "encode" => todo # <<>>
  /\ pc \in {"index", "components", "spans"} => doomed = {}
  /\ doomed \subseteq Files

\* The formats written before this one are there; the one being written again
\* is torn.
FormsAreWritten ==
  /\ pc = "generate" /\ todo # <<>> =>
       \A k \in 1..(form - 1) : file[Head(todo)[1]][Head(todo)[2]][formats[k]] = run
  /\ pc = "encode" =>
       \A k \in 1..(form - 1) :
         \/ formats[k] = formats[form]
         \/ file[Head(todo)[1]][Head(todo)[2]][formats[k]] = run

\* The run has left the manifests behind and not failed since.
IsPublishing ==
  \/ pc \in {"prune", "index", "components", "spans"}
  \/ pc = "idle" /\ outcome = "ok"

\* Unless one was skipped, every manifest waits, or is made; and once pruning
\* has begun it is made and stays, or leaves whole.
ManifestsAreMade ==
  ~skipped =>
    /\ pc \in {"generate", "encode"} =>
         \A i \in DOMAIN asked : Waits(asked[i]) \/ IsMade(asked[i])
    /\ IsPublishing =>
         \A i \in DOMAIN asked :
           (IsMade(asked[i]) /\ IsSpared(asked[i])) \/ IsLeaving(asked[i])

\* A run that ended well skipped nothing, and pruned all it had to.
OkIsComplete == pc = "idle" /\ outcome = "ok" => ~skipped /\ doomed = {}

\* What pruning has still to remove is no milestone, and enough newer releases
\* are spared.
WindowIsLeft ==
  pc = "prune" =>
    \A x \in doomed :
      /\ -x[2] \notin Milestones
      /\ Cardinality({w \in Spared(x[1]) : w > -x[2]}) >= Retain

\* The indexes are of the directory as it stands.
IndexesAreOfDirectory ==
  /\ (pc \in {"components", "spans"} \/ Published) => index = Listing
  /\ Published => /\ comps.state = "whole"
                  /\ \A d \in Dists : comps.said[d] \in Described(d)

IInv ==
  /\ TypeOK /\ StepsAreReady /\ FormsAreWritten /\ ManifestsAreMade /\ OkIsComplete
  /\ WindowIsLeft /\ IndexesAreOfDirectory

-----------------------------------------------------------------------------
(* Finite sets of numbers, and what is held. *)

\* A finite set of integers has a largest element: of the sets of elements
\* larger than one of them, one contains no other.
LEMMA Largest ==
  ASSUME NEW S, IsFiniteSet(S), S \subseteq Int, S # {}
  PROVE  \E x \in S : \A y \in S : y <= x
<1>. DEFINE Above(x) == {y \in S : y > x}
            T == {Above(x) : x \in S}
<1>1. T \subseteq FiniteSubsetsOf(S) /\ T # {}
  <2>1. \A x \in S : IsFiniteSet(Above(x))
    BY FS_Subset
  <2> QED BY <2>1 DEF FiniteSubsetsOf
<1>2. PICK m \in T : \A U \in T : ~ (<<U, m>> \in StrictSubsetOrdering(S))
  <2>. HIDE DEF T
  <2> QED BY <1>1, FS_StrictSubsetOrderingWellFounded, WFMin
<1>3. PICK x \in S : m = Above(x)
  OBVIOUS
<1>4. ASSUME NEW y \in S, y > x
      PROVE  FALSE
  <2>1. y \in Above(x) /\ y \notin Above(y)
    BY <1>4
  <2>2. \A z \in S : z > y => z > x
    <3>1. \A z \in Int : z > y => z > x
      BY <1>4
    <3> QED BY <3>1
  <2>3. Above(y) \in SUBSET S /\ Above(x) \in SUBSET S /\ Above(y) \subseteq Above(x)
    BY <2>2
  <2>4. Above(y) \in T
    OBVIOUS
  <2> QED BY <1>2, <1>3, <2>1, <2>3, <2>4 DEF StrictSubsetOrdering
<1> QED BY <1>4

\* The opposites of finitely many numbers are finitely many.
LEMMA OppositesAreFinite ==
  ASSUME NEW S, IsFiniteSet(S)
  PROVE  IsFiniteSet({-x : x \in S})
<1>. DEFINE N == {-x : x \in S}
            f == [x \in S |-> -x]
<1>1. f \in Surjection(S, N)
  BY DEF Surjection
<1> QED BY <1>1, FS_Surjection

\* Releases are finitely many numbers.
LEMMA ReleasesAreFinite ==
  ASSUME NEW S, S \subseteq Releases
  PROVE  IsFiniteSet(S) /\ S \subseteq Int
<1>1. IsFiniteSet(Releases) /\ Releases \subseteq Int
  BY FS_Interval, RegistryAssumption DEF Releases
<1> QED BY <1>1, FS_Subset

\* Of two sets of releases the larger has more.
LEMMA LargerHasMore ==
  ASSUME NEW S, S \subseteq Releases, NEW T, T \subseteq S
  PROVE  Cardinality(T) <= Cardinality(S) /\ Cardinality(S) \in Nat /\ Cardinality(T) \in Nat
  BY ReleasesAreFinite, FS_Subset, FS_CardinalityType

\* The newest release that is dropped has only spared ones above it.
LEMMA DropLeavesNewer ==
  ASSUME NEW d \in Dists, NEW v \in Drop(d)
  PROVE  Cardinality({w \in Held(d) \ Drop(d) : w > v}) >= Retain
<1>1. Drop(d) \subseteq Held(d) /\ Held(d) \subseteq Releases
  BY DEF Drop, Held
<1>2. PICK m \in Drop(d) : \A w \in Drop(d) : w <= m
  BY <1>1, Largest, ReleasesAreFinite
<1>. DEFINE A == {w \in Held(d) : w > m}
            B == {w \in Held(d) \ Drop(d) : w > v}
<1>3. A \subseteq B /\ B \subseteq Releases
  BY <1>1, <1>2 DEF Releases
<1>4. Cardinality(A) >= Retain
  BY <1>2 DEF Drop
<1> QED BY <1>3, <1>4, LargerHasMore, RegistryAssumption

\* And a smallest one: its opposite is the largest of their opposites.
LEMMA Lowest ==
  ASSUME NEW S, IsFiniteSet(S), S \subseteq Int, S # {}
  PROVE  \E x \in S : \A y \in S : x <= y
<1>. DEFINE N == {-x : x \in S}
<1>0. N \subseteq Int /\ N # {}
  <2>1. \A x \in S : -x \in Int
    OBVIOUS
  <2>2. \A y \in N : \E x \in S : y = -x
    OBVIOUS
  <2>3. \A x \in S : -x \in N
    OBVIOUS
  <2>. HIDE DEF N
  <2> QED BY <2>1, <2>2, <2>3
<1>1. IsFiniteSet(N)
  BY OppositesAreFinite
<1>2. \E x \in N : \A y \in N : y <= x
  <2>. HIDE DEF N
  <2> QED BY <1>0, <1>1, Largest
<1>3. PICK x \in S : \A y \in N : y <= -x
  BY <1>2
<1>4. \A y \in S : -y <= -x
  BY <1>3
<1> QED BY <1>4

\* There is a first file to remove.
LEMMA FirstIsDoomed ==
  ASSUME doomed \subseteq Files, doomed # {}
  PROVE  \E x \in doomed : \A y \in doomed : Before(x, y)
<1>. DEFINE Opposites == {-v : v \in Releases}
            Forms == DOMAIN Extensions
<1>1. \A x \in doomed : x[1] \in Dists /\ x[2] \in Opposites /\ x[3] \in Forms
  BY DEF Files
<1>2. IsFiniteSet(Dists) /\ Dists \subseteq Int
  BY FS_Interval, RegistryAssumption DEF Dists
<1>3. IsFiniteSet(Opposites) /\ Opposites \subseteq Int
  <2>1. IsFiniteSet(Releases) /\ Releases \subseteq Int
    BY ReleasesAreFinite
  <2>2. IsFiniteSet(Opposites)
    BY <2>1, OppositesAreFinite
  <2> QED BY <2>1, <2>2
<1>4. IsFiniteSet(Forms) /\ Forms \subseteq Int
  <2>1. DOMAIN Extensions = {1} \cup {2}
    BY DEF Extensions
  <2>2. IsFiniteSet({1} \cup {2})
    BY FS_Singleton, FS_AddElement
  <2> QED BY <2>1, <2>2
<1>. HIDE DEF Opposites, Forms
<1>5. PICK a \in doomed : \A y \in doomed : a[1] <= y[1]
  <2>. DEFINE S == {x[1] : x \in doomed}
  <2>1. S \subseteq Dists /\ S # {}
    BY <1>1
  <2>2. \E s \in S : \A t \in S : s <= t
    <3>. HIDE DEF S
    <3>1. IsFiniteSet(S) /\ S \subseteq Int
      BY <1>2, <2>1, FS_Subset
    <3> QED BY <2>1, <3>1, Lowest
  <2> QED BY <2>2
<1>6. PICK b \in doomed : b[1] = a[1] /\ \A y \in doomed : y[1] = a[1] => b[2] <= y[2]
  <2>. DEFINE D == {x \in doomed : x[1] = a[1]}
              S == {x[2] : x \in D}
  <2>1. S \subseteq Opposites /\ S # {}
    BY <1>1
  <2>2. \E s \in S : \A t \in S : s <= t
    <3>. HIDE DEF S
    <3>1. IsFiniteSet(S) /\ S \subseteq Int
      BY <1>3, <2>1, FS_Subset
    <3> QED BY <2>1, <3>1, Lowest
  <2> QED BY <2>2
<1>7. PICK c \in doomed : /\ c[1] = a[1] /\ c[2] = b[2]
                          /\ \A y \in doomed : y[1] = a[1] /\ y[2] = b[2] => c[3] <= y[3]
  <2>. DEFINE D == {x \in doomed : x[1] = a[1] /\ x[2] = b[2]}
              S == {x[3] : x \in D}
  <2>1. S \subseteq Forms /\ S # {}
    BY <1>1, <1>6
  <2>2. \E s \in S : \A t \in S : s <= t
    <3>. HIDE DEF S
    <3>1. IsFiniteSet(S) /\ S \subseteq Int
      BY <1>4, <2>1, FS_Subset
    <3> QED BY <2>1, <3>1, Lowest
  <2> QED BY <2>2
<1>8. ASSUME NEW y \in doomed
      PROVE  Before(c, y)
  <2>1. c[1] \in Int /\ y[1] \in Int /\ c[2] \in Int /\ y[2] \in Int
    BY <1>1, <1>2, <1>3
  <2>2. c[1] <= y[1]
    BY <1>5, <1>7
  <2>3. y[1] = c[1] => c[2] <= y[2]
    BY <1>6, <1>7
  <2>4. y[1] = c[1] /\ y[2] = c[2] => c[3] <= y[3]
    BY <1>7
  <2> QED BY <2>1, <2>2, <2>3, <2>4 DEF Before
<1> QED BY <1>8

-----------------------------------------------------------------------------
(* What the steps rest on. *)

\* The manifest being generated names a file of the registry.
LEMMA Facts ==
  ASSUME TypeOK, StepsAreReady
  PROVE  /\ todo # <<>> => /\ Head(todo) \in Dists \X Releases /\ Tail(todo) \in Seq(Dists \X Releases)
                           /\ Head(todo)[1] \in Dists /\ Head(todo)[2] \in Releases
         /\ pc \in {"generate", "encode"} => formats[form] \in Form /\ form \in 1..Len(formats)
         /\ DOMAIN Extensions = {1, 2} /\ {Extensions[k] : k \in {1, 2}} = Form
         /\ run \in Nat
  BY RegistryAssumption DEF TypeOK, StepsAreReady, Extensions, Form

\* A manifest that waits behind the first still waits when that one is done.
LEMMA OthersWait ==
  ASSUME TypeOK, todo # <<>>, todo' = Tail(todo), NEW m, Waits(m), m # Head(todo)
  PROVE  Waits(m)'
<1>1. PICK j \in DOMAIN todo : todo[j] = m
  BY DEF Waits
<1>2. j # 1 /\ j \in 1..Len(todo) /\ Len(todo) \in Nat
  BY <1>1 DEF TypeOK
<1>3. j - 1 \in DOMAIN todo' /\ todo'[j - 1] = m
  BY <1>1, <1>2 DEF TypeOK
<1> QED BY <1>3 DEF Waits

\* Two manifests differ in their distribution or in their release.
LEMMA OtherManifest ==
  ASSUME NEW m \in Dists \X Releases, NEW n \in Dists \X Releases, m # n
  PROVE  m[1] # n[1] \/ m[2] # n[2]
  OBVIOUS

\* What writeIndex lists is an index.
LEMMA ListingIsIndex ==
  ASSUME TypeOK
  PROVE  IsIndex(Listing)
<1>1. \A d \in Dists : Held(d) \in SUBSET Releases
  BY DEF Held
<1>2. ASSUME NEW d \in Dists
      PROVE  ExtensionIn(d) \in Form \cup {"none"}
  <2>. DEFINE forms == {FirstForm(d, v) : v \in Held(d)}
  <2>1. forms \subseteq Form
    BY DEF FirstForm, Form
  <2>2. Cardinality(forms) = 1 => forms # {}
    BY FS_EmptySet
  <2> QED BY <2>1, <2>2 DEF ExtensionIn
<1>3. Listing.state = "whole" /\ Listing.lists \in [Dists -> SUBSET Releases]
  BY <1>1 DEF Listing
<1>4. Listing.ext \in [Dists -> Form \cup {"none"}]
  BY <1>2 DEF Listing
<1> QED BY <1>3, <1>4 DEF IsIndex

\* Nothing has been written and nothing runs.
LEMMA InitIInv == Init => IInv
<1>. SUFFICES ASSUME Init PROVE IInv
  OBVIOUS
<1>1. TypeOK
  <2>1. file \in [Dists -> [Releases -> [Form -> Schema]]]
    BY DEF Init, Schema
  <2>2. IsIndex(index) /\ comps.state = "absent"
    BY DEF Init, IsIndex, NoDoc
  <2>3. asked \in Seq(Dists \X Releases) /\ todo \in Seq(Dists \X Releases) /\ formats \in Seq(Form)
    BY DEF Init
  <2>4. run \in 0..MaxRuns /\ doomed = {}
    BY RegistryAssumption DEF Init
  <2> QED BY <2>1, <2>2, <2>3, <2>4 DEF Init, TypeOK
<1> QED BY <1>1 DEF Init, IInv, StepsAreReady, FormsAreWritten, ManifestsAreMade, IsPublishing,
           OkIsComplete, WindowIsLeft, IndexesAreOfDirectory, Published

-----------------------------------------------------------------------------
(* One lemma for each action. *)

\* Every manifest waits.
LEMMA StartKeeps ==
  ASSUME IInv, Start
  PROVE  IInv'
<1>1. PICK ms \in Requests : asked' = ms /\ todo' = ms
  BY DEF Start
<1>2. TypeOK'
  <2>1. asked' \in Seq(Dists \X Releases) /\ todo' \in Seq(Dists \X Releases) /\ formats' \in Seq(Form)
    BY <1>1, RegistryAssumption DEF Start
  <2>2. run' \in 0..MaxRuns
    BY RegistryAssumption DEF IInv, TypeOK, Start
  <2> QED BY <2>1, <2>2 DEF IInv, TypeOK, Start, disk
<1>3. StepsAreReady'
  BY <1>1, RegistryAssumption DEF IInv, TypeOK, StepsAreReady, Start
<1>4. FormsAreWritten'
  BY DEF FormsAreWritten, Start
<1>5. ManifestsAreMade'
  BY <1>1 DEF ManifestsAreMade, IsPublishing, Waits, Start
<1>6. OkIsComplete' /\ WindowIsLeft' /\ IndexesAreOfDirectory'
  BY DEF OkIsComplete, WindowIsLeft, IndexesAreOfDirectory, Published, Start
<1> QED BY <1>2, <1>3, <1>4, <1>5, <1>6 DEF IInv

\* A manifest is skipped.
LEMMA SkipKeeps ==
  ASSUME IInv, Skip, todo # <<>>, pc \in {"generate", "encode"}, UNCHANGED disk
  PROVE  IInv'
<1>1. TypeOK'
  BY Facts DEF IInv, TypeOK, StepsAreReady, Skip, Goto, disk, flags
<1>2. StepsAreReady'
  BY DEF IInv, TypeOK, StepsAreReady, Skip, Goto, flags
<1>3. FormsAreWritten' /\ ManifestsAreMade' /\ OkIsComplete' /\ WindowIsLeft'
  BY DEF FormsAreWritten, ManifestsAreMade, OkIsComplete, WindowIsLeft, Skip, Goto
<1>4. IndexesAreOfDirectory'
  BY DEF IndexesAreOfDirectory, Published, Skip, Goto
<1> QED BY <1>1, <1>2, <1>3, <1>4 DEF IInv

\* A manifest that cannot be built is skipped.
LEMMA BuildFailsKeeps ==
  ASSUME IInv, BuildFails
  PROVE  IInv'
  BY SkipKeeps DEF BuildFails, IInv, TypeOK

\* The file of the next form is created empty.
LEMMA CreateSchemaKeeps ==
  ASSUME IInv, CreateSchema
  PROVE  IInv'
<1>1. CASE Skip /\ UNCHANGED file
  BY <1>1, SkipKeeps DEF CreateSchema, disk, IInv, TypeOK
<1>2. CASE /\ file' = [file EXCEPT ![Head(todo)[1]][Head(todo)[2]][formats[form]] = Torn]
           /\ Goto("encode")
           /\ UNCHANGED work
  <2>1. TypeOK'
    BY <1>2, Facts DEF CreateSchema, IInv, TypeOK, Goto, work, flags, Schema
  <2>2. StepsAreReady'
    BY <1>2 DEF CreateSchema, IInv, StepsAreReady, Goto, work, flags
  <2>3. FormsAreWritten'
    BY <1>2, Facts DEF CreateSchema, IInv, TypeOK, FormsAreWritten, Goto, work, flags
  <2>4. ManifestsAreMade'
    <3>1. ASSUME NEW i \in DOMAIN asked, ~skipped
          PROVE  Waits(asked[i])' \/ IsMade(asked[i])'
      <4>1. CASE asked[i] = Head(todo)
        BY <1>2, <4>1 DEF CreateSchema, IInv, TypeOK, Waits, work, flags
      <4>2. CASE asked[i] # Head(todo)
        <5>1. asked[i] \in Dists \X Releases
          BY DEF IInv, TypeOK
        <5>2. IsMade(asked[i]) => IsMade(asked[i])'
          <6>1. asked[i][1] # Head(todo)[1] \/ asked[i][2] # Head(todo)[2]
            BY <4>2, <5>1, OtherManifest, Facts DEF CreateSchema, IInv
          <6> QED BY <1>2, <5>1, <6>1, Facts DEF CreateSchema, IInv, TypeOK, IsMade, work, flags
        <5>3. Waits(asked[i]) => Waits(asked[i])'
          BY <1>2 DEF Waits, work, flags
        <5> QED BY <3>1, <5>2, <5>3 DEF CreateSchema, IInv, ManifestsAreMade
      <4> QED BY <4>1, <4>2
    <3> QED BY <1>2, <3>1 DEF ManifestsAreMade, IsPublishing, Goto, work, flags
  <2>5. OkIsComplete' /\ WindowIsLeft' /\ IndexesAreOfDirectory'
    BY <1>2 DEF OkIsComplete, WindowIsLeft, IndexesAreOfDirectory, Published, Goto
  <2> QED BY <2>1, <2>2, <2>3, <2>4, <2>5 DEF IInv
<1> QED BY <1>1, <1>2 DEF CreateSchema

\* The schema is written in this form.
LEMMA EncodeSchemaKeeps ==
  ASSUME IInv, EncodeSchema
  PROVE  IInv'
<1>1. todo # <<>> /\ pc = "encode" /\ run \in 1..MaxRuns
  BY RegistryAssumption DEF EncodeSchema, IInv, StepsAreReady, TypeOK
<1>2. CASE Skip /\ UNCHANGED file
  BY <1>1, <1>2, SkipKeeps DEF EncodeSchema, disk, IInv, TypeOK
<1>3. CASE /\ file' = [file EXCEPT ![Head(todo)[1]][Head(todo)[2]][formats[form]] = run]
           /\ IF form < Len(formats)
              THEN form' = form + 1 /\ UNCHANGED <<todo, made>>
              ELSE form' = 1 /\ todo' = Tail(todo) /\ made' = TRUE
           /\ Goto("generate")
           /\ UNCHANGED <<flags, skipped, doomed>>
  <2>1. file' = [file EXCEPT ![Head(todo)[1]][Head(todo)[2]][formats[form]] = run]
    BY <1>3
  <2>2. UNCHANGED <<flags, skipped, doomed, index, comps, outcome>> /\ pc' = "generate"
    BY <1>3 DEF EncodeSchema, Goto
  <2>3. \/ form < Len(formats) /\ form' = form + 1 /\ UNCHANGED <<todo, made>>
        \/ form = Len(formats) /\ form' = 1 /\ todo' = Tail(todo) /\ made' = TRUE
    BY <1>1, <1>3, Facts DEF IInv, TypeOK
  <2>4. TypeOK'
    <3>1. file' \in [Dists -> [Releases -> [Form -> Schema]]]
      BY <1>1, <2>1, Facts DEF IInv, TypeOK, Schema
    <3>2. todo' \in Seq(Dists \X Releases) /\ made' \in BOOLEAN
      BY <1>1, <2>3, Facts DEF IInv, TypeOK
    <3>3. form' = 1 \/ form' \in DOMAIN formats'
      BY <1>1, <2>2, <2>3, Facts DEF IInv, TypeOK, flags
    <3> QED BY <2>2, <3>1, <3>2, <3>3 DEF IInv, TypeOK, flags
  <2>5. StepsAreReady'
    BY <1>1, <2>2, <2>3, Facts DEF IInv, TypeOK, StepsAreReady, flags
  <2>9. ASSUME NEW k \in 1..form
        PROVE  file'[Head(todo)[1]][Head(todo)[2]][formats[k]] = run
    <3>1. k \in 1..Len(formats) /\ formats[k] \in Form /\ formats[form] \in Form
      BY <1>1, Facts DEF IInv, TypeOK
    <3>2. CASE formats[k] = formats[form]
      BY <1>1, <2>1, <3>1, <3>2, Facts DEF IInv, TypeOK
    <3>3. CASE formats[k] # formats[form]
      <4>1. k \in 1..(form - 1)
        BY <1>1, <3>3, Facts DEF IInv
      <4> QED BY <1>1, <2>1, <3>1, <3>3, <4>1, Facts DEF IInv, TypeOK, FormsAreWritten
    <3> QED BY <3>2, <3>3
  <2>6. FormsAreWritten'
    <3>1. CASE form' = 1
      BY <2>2, <3>1 DEF FormsAreWritten
    <3>2. CASE form' = form + 1 /\ UNCHANGED todo
      <4>1. (form + 1) - 1 = form
        BY <1>1, Facts DEF IInv
      <4> QED BY <2>2, <2>9, <3>2, <4>1 DEF FormsAreWritten, flags
    <3> QED BY <2>3, <3>1, <3>2
  <2>7. ManifestsAreMade'
    <3>1. ASSUME NEW i \in DOMAIN asked, ~skipped
          PROVE  Waits(asked[i])' \/ IsMade(asked[i])'
      <4>. DEFINE m == asked[i]
      <4>1. m \in Dists \X Releases
        BY DEF IInv, TypeOK
      <4>2. Waits(m) \/ IsMade(m)
        BY <1>1, <3>1 DEF IInv, ManifestsAreMade
      <4>3. IsMade(m) => IsMade(m)'
        <5>1. CASE m = Head(todo)
          BY <1>1, <2>1, <2>2, <4>1, <5>1, Facts DEF IInv, TypeOK, IsMade, flags
        <5>2. CASE m # Head(todo)
          <6>1. m[1] # Head(todo)[1] \/ m[2] # Head(todo)[2]
            BY <1>1, <4>1, <5>2, OtherManifest, Facts DEF IInv
          <6> QED BY <1>1, <2>1, <2>2, <4>1, <6>1, Facts DEF IInv, TypeOK, IsMade, flags
        <5> QED BY <5>1, <5>2
      <4>4. CASE UNCHANGED todo
        BY <2>2, <4>2, <4>3, <4>4 DEF Waits, flags
      <4>5. CASE form = Len(formats) /\ todo' = Tail(todo)
        <5>1. CASE m = Head(todo)
          <6>1. ASSUME NEW k \in DOMAIN formats
                PROVE  file'[Head(todo)[1]][Head(todo)[2]][formats[k]] = run
            BY <2>9, <4>5, <6>1, Facts DEF IInv, TypeOK
          <6> QED BY <2>2, <5>1, <6>1 DEF IsMade, flags
        <5>2. CASE m # Head(todo)
          <6>1. Waits(m) => Waits(m)'
            BY <1>1, <2>2, <4>5, <5>2, OthersWait DEF IInv, Waits, flags
          <6> QED BY <2>2, <4>2, <4>3, <6>1 DEF flags
        <5> QED BY <5>1, <5>2
      <4> QED BY <2>3, <4>4, <4>5
    <3> QED BY <2>2, <3>1 DEF ManifestsAreMade, IsPublishing, flags
  <2>8. OkIsComplete' /\ WindowIsLeft' /\ IndexesAreOfDirectory'
    BY <2>2 DEF OkIsComplete, WindowIsLeft, IndexesAreOfDirectory, Published
  <2> QED BY <2>4, <2>5, <2>6, <2>7, <2>8 DEF IInv
<1> QED BY <1>2, <1>3 DEF EncodeSchema

\* The manifests are done: pruning begins, or the run is rejected.
LEMMA GeneratedKeeps ==
  ASSUME IInv, Generated
  PROVE  IInv'
<1>1. pc = "generate" /\ todo = <<>> /\ UNCHANGED <<disk, flags, todo, form, skipped, made>>
  BY DEF Generated
<1>2. CASE made /\ Retain > 0
  <2>1. doomed' = UNION {{<<d, -v, k>> : v \in Drop(d), k \in DOMAIN Extensions} : d \in Dists}
    BY <1>2 DEF Generated
  <2>2. \A d \in Dists : Drop(d) \subseteq Releases /\ Drop(d) \cap Milestones = {}
    BY DEF Drop, Held
  <2>3. \A x \in doomed' : \E d \in Dists : \E v \in Drop(d) : \E k \in DOMAIN Extensions : x = <<d, -v, k>>
    BY <2>1
  <2>4. \A d \in Dists : \A v \in Drop(d) : \A k \in DOMAIN Extensions : <<d, -v, k>> \in doomed'
    BY <2>1
  <2>5. ASSUME NEW d \in Dists, NEW v \in Releases, NEW k \in DOMAIN Extensions, <<d, -v, k>> \in doomed'
        PROVE  v \in Drop(d)
    <3>1. PICK e \in Dists : \E w \in Drop(e) : \E l \in DOMAIN Extensions :
                              <<d, -v, k>> = <<e, -w, l>>
      BY <2>3, <2>5
    <3>2. PICK w \in Drop(e) : \E l \in DOMAIN Extensions : <<d, -v, k>> = <<e, -w, l>>
      BY <3>1
    <3>3. d = e /\ -v = -w
      BY <3>2
    <3>4. v \in Int /\ w \in Int
      BY <2>2, ReleasesAreFinite
    <3> QED BY <3>3, <3>4
  <2>6. pc' = "prune" /\ UNCHANGED outcome
    BY <1>2 DEF Generated, Goto
  <2>7. doomed' \subseteq Files
    BY <2>2, <2>3 DEF Files
  <2>8. TypeOK'
    <3>1. \A x \in doomed' : x[1] \in Dists /\ -x[2] \in Releases /\ x[3] \in DOMAIN Extensions
      BY <2>7, RegistryAssumption DEF Files, Releases
    <3> QED BY <1>1, <2>6, <3>1 DEF IInv, TypeOK, disk, flags
  <2>9. StepsAreReady' /\ FormsAreWritten' /\ OkIsComplete' /\ IndexesAreOfDirectory'
    BY <2>6, <2>7 DEF StepsAreReady, FormsAreWritten, OkIsComplete, IndexesAreOfDirectory, Published
  <2>10. ManifestsAreMade'
    <3>1. ASSUME NEW i \in DOMAIN asked, ~skipped
          PROVE  (IsMade(asked[i]) /\ IsSpared(asked[i]))' \/ IsLeaving(asked[i])'
      <4>1. asked[i][1] \in Dists /\ asked[i][2] \in Releases
        BY DEF IInv, TypeOK
      <4>2. IsMade(asked[i])'
        BY <1>1, <3>1 DEF IInv, ManifestsAreMade, Waits, IsMade, disk, flags
      <4>3. CASE asked[i][2] \in Drop(asked[i][1])
        BY <1>1, <1>2, <2>4, <4>1, <4>3 DEF IsLeaving, flags
      <4>4. CASE asked[i][2] \notin Drop(asked[i][1])
        BY <1>1, <2>5, <4>1, <4>2, <4>4 DEF IsSpared, flags
      <4> QED BY <4>3, <4>4
    <3> QED BY <1>1, <2>6, <3>1 DEF ManifestsAreMade, flags
  <2>11. WindowIsLeft'
    <3>1. ASSUME NEW x \in doomed'
          PROVE  /\ -x[2] \notin Milestones
                 /\ Cardinality({w \in Spared(x[1])' : w > -x[2]}) >= Retain
      <4>1. PICK d \in Dists : \E v \in Drop(d) : \E k \in DOMAIN Extensions : x = <<d, -v, k>>
        BY <2>3
      <4>2. PICK v \in Drop(d) : \E k \in DOMAIN Extensions : x = <<d, -v, k>>
        BY <4>1
      <4>4. v \in Int
        BY <2>2, ReleasesAreFinite
      <4>5. x[1] = d /\ -x[2] = v
        BY <4>2, <4>4
      <4>3. Spared(d)' = Held(d) \ Drop(d)
        <5>1. Held(d)' = Held(d) /\ Held(d) \subseteq Releases
          BY <1>1 DEF Held, disk
        <5>2. \A w \in Releases : (\E k2 \in DOMAIN Extensions : <<d, -w, k2>> \in doomed') <=> w \in Drop(d)
          <6>1. DOMAIN Extensions # {}
            BY DEF Extensions
          <6> QED BY <2>4, <2>5, <6>1
        <5> QED BY <5>1, <5>2 DEF Spared
      <4> QED BY <2>2, <4>3, <4>5, DropLeavesNewer
    <3> QED BY <3>1 DEF WindowIsLeft
  <2> QED BY <2>8, <2>9, <2>10, <2>11 DEF IInv
<1>3. CASE ~(made /\ Retain > 0)
  <2>1. doomed' = {} /\ pc' \in {"prune", "idle"} /\ (pc' = "idle" => outcome' = "rejected")
    BY <1>3 DEF Generated, Goto, End
  <2>2. outcome' \in {outcome, "rejected"}
    BY DEF Generated, Goto, End
  <2>3. TypeOK' /\ StepsAreReady'
    BY <1>1, <2>1, <2>2 DEF IInv, TypeOK, StepsAreReady, disk, flags
  <2>4. ManifestsAreMade'
    <3>1. ASSUME NEW i \in DOMAIN asked, ~skipped
          PROVE  IsMade(asked[i])' /\ IsSpared(asked[i])'
      BY <1>1, <2>1, <3>1 DEF IInv, ManifestsAreMade, Waits, IsMade, IsSpared, disk, flags
    <3> QED BY <1>1, <2>1, <3>1 DEF ManifestsAreMade, flags
  <2>5. FormsAreWritten' /\ OkIsComplete' /\ WindowIsLeft' /\ IndexesAreOfDirectory'
    BY <1>1, <2>1 DEF FormsAreWritten, OkIsComplete, WindowIsLeft, IndexesAreOfDirectory, Published
  <2> QED BY <2>3, <2>4, <2>5 DEF IInv
<1> QED BY <1>2, <1>3

\* What removing one file changes: the first doomed, of a release that is not
\* spared.
LEMMA RemoveRemoves ==
  ASSUME IInv, pc = "prune", doomed # {}, NEW x \in doomed,
         file' = [file EXCEPT ![x[1]][-x[2]][Extensions[x[3]]] = Absent],
         doomed' = doomed \ {x}
  PROVE  /\ x[1] \in Dists /\ -x[2] \in Releases /\ x[3] \in DOMAIN Extensions
         /\ x = <<x[1], -(-x[2]), x[3]>>
         /\ \A d \in Dists : Spared(d) \subseteq Spared(d)' /\ Held(d)' \subseteq Held(d)
         /\ \A d \in Dists : \A v \in Held(d) \ Held(d)' : d = x[1] /\ v = -x[2]
<1>1. PICK d \in Dists, v \in Releases, k \in DOMAIN Extensions : x = <<d, -v, k>>
  BY DEF IInv, StepsAreReady, Files
<1>2. v \in Int
  BY ReleasesAreFinite
<1>3. x[1] = d /\ -x[2] = v /\ x[3] = k /\ x[2] = -v
  BY <1>1, <1>2
<1>4. Extensions[k] \in Form
  BY Facts DEF IInv
<1>5. file' = [file EXCEPT ![d][v][Extensions[k]] = Absent]
  BY <1>3
<1>6. ASSUME NEW e \in Dists, NEW w \in Releases, e # d \/ w # v
      PROVE  file'[e][w] = file[e][w]
  <2>1. file \in [Dists -> [Releases -> [Form -> Schema]]]
    BY DEF IInv, TypeOK
  <2>2. CASE e # d
    BY <1>5, <2>1, <2>2
  <2>3. CASE e = d /\ w # v
    <3>1. file'[d] = [file[d] EXCEPT ![v][Extensions[k]] = Absent] /\ file[d] \in [Releases -> [Form -> Schema]]
      BY <1>5, <2>1
    <3>2. file'[d][w] = file[d][w]
      BY <2>3, <3>1
    <3> QED BY <2>3, <3>2
  <2> QED BY <1>6, <2>2, <2>3
<1>7. \A f \in Form : file'[d][v][f] \in {file[d][v][f], Absent}
  BY <1>4, <1>5 DEF IInv, TypeOK
<1>8. \A e \in Dists : Held(e)' \subseteq Held(e)
  BY <1>6, <1>7 DEF Held
<1>9. \A e \in Dists : \A w \in Held(e) \ Held(e)' : e = d /\ w = v
  BY <1>6 DEF Held
<1>10. \A e \in Dists : Spared(e) \subseteq Spared(e)'
  <2>1. v \notin Spared(d)
    BY <1>1 DEF Spared
  <2> QED BY <1>9, <2>1 DEF Spared
<1> QED BY <1>1, <1>3, <1>8, <1>9, <1>10

\* A file is removed, or cannot be.
LEMMA RemoveKeeps ==
  ASSUME IInv, Remove
  PROVE  IInv'
<1>. DEFINE first == CHOOSE y \in doomed : \A z \in doomed : Before(y, z)
<1>1. first \in doomed
  BY FirstIsDoomed DEF Remove, IInv, StepsAreReady
<1>2. pc = "prune" /\ UNCHANGED <<index, comps, flags, todo, form, skipped, made>>
  BY DEF Remove
<1>. HIDE DEF first
<1>3. CASE /\ file' = [file EXCEPT ![first[1]][-first[2]][Extensions[first[3]]] = Absent]
           /\ doomed' = doomed \ {first}
           /\ UNCHANGED <<pc, outcome>>
  <2>1. /\ first[1] \in Dists /\ -first[2] \in Releases /\ first[3] \in DOMAIN Extensions
        /\ first = <<first[1], -(-first[2]), first[3]>>
        /\ \A d \in Dists : Spared(d) \subseteq Spared(d)'
    BY <1>1, <1>2, <1>3, RemoveRemoves
  <2>2. Extensions[first[3]] \in Form
    BY <2>1, Facts DEF IInv
  <2>3. TypeOK'
    <3>1. file' \in [Dists -> [Releases -> [Form -> Schema]]]
      BY <1>3, <2>1, <2>2 DEF IInv, TypeOK, Schema
    <3> QED BY <1>2, <1>3, <3>1 DEF IInv, TypeOK, flags
  <2>4. StepsAreReady' /\ FormsAreWritten' /\ OkIsComplete' /\ IndexesAreOfDirectory'
    BY <1>2, <1>3 DEF IInv, StepsAreReady, FormsAreWritten, OkIsComplete, IndexesAreOfDirectory, Published
  <2>5. ManifestsAreMade'
    <3>1. ASSUME NEW i \in DOMAIN asked, ~skipped
          PROVE  (IsMade(asked[i]) /\ IsSpared(asked[i]))' \/ IsLeaving(asked[i])'
      <4>1. asked[i] \in Dists \X Releases /\ asked[i][1] \in Dists /\ asked[i][2] \in Releases
        BY DEF IInv, TypeOK
      <4>2. (IsMade(asked[i]) /\ IsSpared(asked[i])) \/ IsLeaving(asked[i])
        BY <1>2, <3>1 DEF IInv, ManifestsAreMade, IsPublishing
      <4>3. CASE IsMade(asked[i]) /\ IsSpared(asked[i])
        <5>1. asked[i][1] # first[1] \/ asked[i][2] # -first[2]
          BY <1>1, <2>1, <4>3 DEF IsSpared
        <5>2. file'[asked[i][1]][asked[i][2]] = file[asked[i][1]][asked[i][2]]
          BY <1>3, <2>1, <4>1, <5>1 DEF IInv, TypeOK
        <5> QED BY <1>2, <1>3, <4>3, <5>2 DEF IsMade, IsSpared, flags
      <4>4. CASE IsLeaving(asked[i])
        <5>1. ASSUME NEW k \in DOMAIN Extensions
              PROVE  \/ file'[asked[i][1]][asked[i][2]][Extensions[k]] = Absent
                     \/ <<asked[i][1], -asked[i][2], k>> \in doomed'
          <6>1. Extensions[k] \in Form
            BY Facts DEF IInv
          <6>2. \A f \in Form : file'[asked[i][1]][asked[i][2]][f] \in {file[asked[i][1]][asked[i][2]][f], Absent}
            BY <1>3, <2>1, <2>2, <4>1 DEF IInv, TypeOK
          <6>3. CASE <<asked[i][1], -asked[i][2], k>> = first
            <7>1. first[1] = asked[i][1] /\ first[2] = -asked[i][2] /\ first[3] = k
              BY <6>3
            <7>2. -first[2] = asked[i][2]
              BY <4>1, <7>1, ReleasesAreFinite
            <7> QED BY <1>3, <2>1, <2>2, <4>1, <7>1, <7>2 DEF IInv, TypeOK
          <6>4. CASE <<asked[i][1], -asked[i][2], k>> # first
            BY <1>3, <4>4, <6>1, <6>2, <6>4 DEF IsLeaving
          <6> QED BY <6>3, <6>4
        <5> QED BY <1>2, <4>4, <5>1 DEF IsLeaving, flags
      <4> QED BY <4>2, <4>3, <4>4
    <3> QED BY <1>2, <1>3, <3>1 DEF ManifestsAreMade, flags
  <2>6. WindowIsLeft'
    <3>1. ASSUME NEW x \in doomed'
          PROVE  /\ -x[2] \notin Milestones
                 /\ Cardinality({w \in Spared(x[1])' : w > -x[2]}) >= Retain
      <4>. DEFINE A == {w \in Spared(x[1]) : w > -x[2]}
                  B == {w \in Spared(x[1])' : w > -x[2]}
      <4>1. x \in doomed /\ x[1] \in Dists
        BY <1>3 DEF IInv, TypeOK
      <4>2. -x[2] \notin Milestones /\ Cardinality(A) >= Retain
        BY <1>2, <4>1 DEF IInv, WindowIsLeft
      <4>3. A \subseteq B /\ B \subseteq Releases
        BY <2>1, <4>1 DEF Spared, Held
      <4> QED BY <4>2, <4>3, LargerHasMore, RegistryAssumption
    <3> QED BY <3>1 DEF WindowIsLeft
  <2> QED BY <2>3, <2>4, <2>5, <2>6 DEF IInv
<1>4. CASE End("failed") /\ UNCHANGED <<file, doomed>>
  <2>1. TypeOK' /\ StepsAreReady'
    BY <1>2, <1>4 DEF IInv, TypeOK, StepsAreReady, End, flags
  <2>2. FormsAreWritten' /\ ManifestsAreMade' /\ OkIsComplete' /\ WindowIsLeft' /\ IndexesAreOfDirectory'
    BY <1>2, <1>4 DEF FormsAreWritten, ManifestsAreMade, IsPublishing, OkIsComplete, WindowIsLeft,
       IndexesAreOfDirectory, Published, End
  <2> QED BY <2>1, <2>2 DEF IInv
<1>5. \/ /\ file' = [file EXCEPT ![first[1]][-first[2]][Extensions[first[3]]] = Absent]
         /\ doomed' = doomed \ {first}
         /\ UNCHANGED <<pc, outcome>>
      \/ End("failed") /\ UNCHANGED <<file, doomed>>
  BY DEF Remove, first
<1> QED BY <1>3, <1>4, <1>5


\* The index document is created, or cannot be.
LEMMA CreateIndexKeeps ==
  ASSUME IInv, CreateIndex
  PROVE  IInv'
<1>1. pc = "prune" /\ doomed = {} /\ UNCHANGED <<file, comps, work>>
  BY DEF CreateIndex
<1>2. \/ index' = TornDoc /\ pc' = "index" /\ UNCHANGED outcome
      \/ pc' = "idle" /\ outcome' = "failed" /\ UNCHANGED index
  BY DEF CreateIndex, Goto, End
<1>3. TypeOK'
  <2>1. IsIndex(TornDoc)
    BY DEF IsIndex
  <2> QED BY <1>1, <1>2, <2>1 DEF IInv, TypeOK, work, flags
<1>4. StepsAreReady' /\ FormsAreWritten' /\ OkIsComplete' /\ WindowIsLeft' /\ IndexesAreOfDirectory'
  BY <1>1, <1>2 DEF IInv, StepsAreReady, FormsAreWritten, OkIsComplete, WindowIsLeft, IndexesAreOfDirectory,
     Published, work, flags
<1>5. ManifestsAreMade'
  BY <1>1, <1>2 DEF IInv, ManifestsAreMade, IsPublishing, IsMade, IsSpared, IsLeaving, work, flags
<1> QED BY <1>3, <1>4, <1>5 DEF IInv

\* The index lists the directory as it stands.
LEMMA EncodeIndexKeeps ==
  ASSUME IInv, EncodeIndex
  PROVE  IInv'
<1>1. pc = "index" /\ UNCHANGED <<file, comps, work>>
  BY DEF EncodeIndex
<1>2. \/ index' = Listing /\ pc' = "components" /\ UNCHANGED outcome
      \/ pc' = "idle" /\ outcome' = "failed" /\ UNCHANGED index
  BY DEF EncodeIndex, Goto, End
<1>3. TypeOK'
  BY <1>1, <1>2, ListingIsIndex DEF IInv, TypeOK, work, flags
<1>4. StepsAreReady' /\ FormsAreWritten' /\ OkIsComplete' /\ WindowIsLeft'
  BY <1>1, <1>2 DEF IInv, StepsAreReady, FormsAreWritten, OkIsComplete, WindowIsLeft, work, flags
<1>5. ManifestsAreMade'
  BY <1>1, <1>2 DEF IInv, ManifestsAreMade, IsPublishing, IsMade, IsSpared, IsLeaving, work, flags
<1>6. IndexesAreOfDirectory'
  <2>1. Listing' = Listing
    BY <1>1 DEF Listing, Held, ExtensionIn, FirstForm
  <2> QED BY <1>2, <2>1 DEF IndexesAreOfDirectory, Published
<1> QED BY <1>3, <1>4, <1>5, <1>6 DEF IInv

\* The component index is created, or cannot be.
LEMMA CreateComponentsKeeps ==
  ASSUME IInv, CreateComponents
  PROVE  IInv'
<1>1. pc = "components" /\ UNCHANGED <<file, index, work>>
  BY DEF CreateComponents
<1>2. \/ comps' = TornDoc /\ pc' = "spans" /\ UNCHANGED outcome
      \/ pc' = "idle" /\ outcome' = "failed" /\ UNCHANGED comps
  BY DEF CreateComponents, Goto, End
<1>3. TypeOK'
  <2>1. TornDoc.state = "torn"
    BY DEF TornDoc
  <2> QED BY <1>1, <1>2, <2>1 DEF IInv, TypeOK, work, flags
<1>4. StepsAreReady' /\ FormsAreWritten' /\ OkIsComplete' /\ WindowIsLeft'
  BY <1>1, <1>2 DEF IInv, StepsAreReady, FormsAreWritten, OkIsComplete, WindowIsLeft, work, flags
<1>5. ManifestsAreMade'
  BY <1>1, <1>2 DEF IInv, ManifestsAreMade, IsPublishing, IsMade, IsSpared, IsLeaving, work, flags
<1>6. IndexesAreOfDirectory'
  <2>1. Listing' = Listing
    BY <1>1 DEF Listing, Held, ExtensionIn, FirstForm
  <2> QED BY <1>1, <1>2, <2>1 DEF IInv, IndexesAreOfDirectory, Published
<1> QED BY <1>3, <1>4, <1>5, <1>6 DEF IInv

\* The component index describes what the index lists.
LEMMA EncodeComponentsKeeps ==
  ASSUME IInv, EncodeComponents
  PROVE  IInv'
<1>1. pc = "spans" /\ UNCHANGED <<file, index, work>>
  BY DEF EncodeComponents
<1>2. CASE pc' = "idle" /\ outcome' = "failed" /\ UNCHANGED comps
  <2>1. TypeOK' /\ StepsAreReady' /\ FormsAreWritten' /\ OkIsComplete' /\ WindowIsLeft'
    BY <1>1, <1>2 DEF IInv, TypeOK, StepsAreReady, FormsAreWritten, OkIsComplete, WindowIsLeft, work, flags
  <2>2. ManifestsAreMade' /\ IndexesAreOfDirectory'
    BY <1>2 DEF ManifestsAreMade, IsPublishing, IndexesAreOfDirectory, Published
  <2> QED BY <2>1, <2>2 DEF IInv
<1>3. ASSUME NEW said, \A d \in Dists : said[d] \in Described(d),
             comps' = [state |-> "whole", said |-> said], pc' = "idle",
             outcome' \in {IF skipped THEN "short" ELSE "ok", "failed"}
      PROVE  IInv'
  <2>1. TypeOK' /\ StepsAreReady' /\ FormsAreWritten' /\ OkIsComplete' /\ WindowIsLeft'
    BY <1>1, <1>3 DEF IInv, TypeOK, StepsAreReady, FormsAreWritten, OkIsComplete, WindowIsLeft, work, flags
  <2>2. ManifestsAreMade'
    BY <1>1, <1>3 DEF IInv, ManifestsAreMade, IsPublishing, IsMade, IsSpared, IsLeaving, work, flags
  <2>3. IndexesAreOfDirectory'
    <3>1. Listing' = Listing /\ \A d \in Dists : Described(d)' = Described(d)
      BY <1>1 DEF Listing, Held, ExtensionIn, FirstForm, Described, Readings, Read
    <3> QED BY <1>1, <1>3, <3>1 DEF IInv, IndexesAreOfDirectory, Published
  <2> QED BY <2>1, <2>2, <2>3 DEF IInv
<1> QED BY <1>2, <1>3 DEF EncodeComponents, End

\* A run that is killed has not ended well.
LEMMA KillKeeps ==
  ASSUME IInv, Kill
  PROVE  IInv'
<1>1. pc' = "idle" /\ outcome' = "killed" /\ UNCHANGED <<disk, work>>
  BY DEF Kill, End
<1>2. TypeOK' /\ StepsAreReady'
  BY <1>1 DEF IInv, TypeOK, StepsAreReady, disk, work, flags
<1>3. FormsAreWritten' /\ ManifestsAreMade' /\ OkIsComplete' /\ WindowIsLeft' /\ IndexesAreOfDirectory'
  BY <1>1 DEF FormsAreWritten, ManifestsAreMade, IsPublishing, OkIsComplete, WindowIsLeft,
     IndexesAreOfDirectory, Published
<1> QED BY <1>2, <1>3 DEF IInv

\* Nothing happens.
LEMMA StutterKeeps ==
  ASSUME IInv, UNCHANGED vars
  PROVE  IInv'
<1>1. UNCHANGED <<disk, flags, todo, form, skipped, made, doomed, pc, outcome>>
  BY DEF vars, work
<1>2. TypeOK' /\ StepsAreReady' /\ FormsAreWritten' /\ OkIsComplete'
  BY <1>1 DEF IInv, TypeOK, StepsAreReady, FormsAreWritten, OkIsComplete, disk, flags
<1>3. ManifestsAreMade'
  BY <1>1 DEF IInv, ManifestsAreMade, IsPublishing, Waits, IsMade, IsSpared, IsLeaving, disk, flags
<1>4. WindowIsLeft'
  BY <1>1 DEF IInv, WindowIsLeft, Spared, Held, disk
<1>5. IndexesAreOfDirectory'
  <2>1. Listing' = Listing /\ \A d \in Dists : Described(d)' = Described(d)
    BY <1>1 DEF Listing, Held, ExtensionIn, FirstForm, Described, Readings, Read, disk
  <2> QED BY <1>1, <2>1 DEF IInv, IndexesAreOfDirectory, Published, disk
<1> QED BY <1>2, <1>3, <1>4, <1>5 DEF IInv

-----------------------------------------------------------------------------

\* The invariant is inductive.
LEMMA StepKeepsIInv == IInv /\ [Next]_vars => IInv'
  BY StartKeeps, BuildFailsKeeps, CreateSchemaKeeps, EncodeSchemaKeeps, GeneratedKeeps, RemoveKeeps,
     CreateIndexKeeps, EncodeIndexKeeps, CreateComponentsKeeps, EncodeComponentsKeeps, KillKeeps,
     StutterKeeps DEF Next, Generate, Publish, Terminated

\* It holds throughout.
LEMMA IInvHolds == Spec => []IInv
  BY InitIInv, StepKeepsIInv, PTL DEF Spec

\* Every variable keeps its type, in whatever state the last run left the
\* directory.
THEOREM TypeCorrect == Spec => []TypeOK
<1>1. IInv => TypeOK
  BY DEF IInv
<1> QED BY <1>1, IInvHolds, PTL

\* An index names an extension only when every release is there under it.
LEMMA ExtensionIsThere ==
  ASSUME TypeOK, NEW d \in Dists, NEW v \in Held(d), ExtensionIn(d) # "none"
  PROVE  file[d][v][ExtensionIn(d)] # Absent
<1>. DEFINE forms == {FirstForm(d, w) : w \in Held(d)}
<1>1. Cardinality(forms) = 1
  BY DEF ExtensionIn
<1>2. IsFiniteSet(forms)
  <2>1. forms \subseteq Form
    BY DEF FirstForm, Form
  <2>2. IsFiniteSet(Form)
    <3>1. Form = {"yaml"} \cup {"json"}
      BY DEF Form
    <3>2. IsFiniteSet({"yaml"} \cup {"json"})
      BY FS_Singleton, FS_AddElement
    <3> QED BY <3>1, <3>2
  <2>. HIDE DEF forms
  <2> QED BY <2>1, <2>2, FS_Subset
<1>3. PICK f : forms = {f}
  <2>. HIDE DEF forms
  <2> QED BY <1>1, <1>2, FS_Singleton
<1>4. ExtensionIn(d) = FirstForm(d, v)
  <2>1. FirstForm(d, v) \in forms
    OBVIOUS
  <2>2. ExtensionIn(d) = CHOOSE g \in forms : TRUE
    BY <1>1 DEF ExtensionIn
  <2>. HIDE DEF forms
  <2> QED BY <1>3, <2>1, <2>2
<1>5. file[d][v][FirstForm(d, v)] # Absent
  BY DEF FirstForm, Held, Form
<1> QED BY <1>4, <1>5

\* What a reading of a release says, when it could be read, is one of its
\* files.
LEMMA ReadingIsAFile ==
  ASSUME TypeOK, NEW d \in Dists, NEW v \in Releases, NEW s \in Read(d, v), s # Unreadable
  PROVE  \E f \in Form : s = file[d][v][f]
  BY DEF TypeOK, Read, Schema, Absent, Torn, Unreadable, Form

\* A run that publishes leaves an index of the directory it leaves, and a
\* component index of the same releases or of none (write.go, writeIndex and
\* writeComponents).
THEOREM IndexesStayTrue == Spec => []IndexesAreTheDirectory
<1>1. ASSUME IInv, Published
      PROVE  IndexIsTheDirectory
  <2>1. index = Listing
    BY <1>1 DEF IInv, IndexesAreOfDirectory
  <2>2. index.state = "whole" /\ \A d \in Dists : index.lists[d] = Held(d)
    BY <2>1 DEF Listing
  <2>3. \A d \in Dists : index.ext[d] = IF Held(d) = {} THEN "none" ELSE ExtensionIn(d)
    BY <2>1 DEF Listing
  <2>4. \A d \in Dists : index.ext[d] # "none" => \A v \in Held(d) : file[d][v][index.ext[d]] # Absent
    BY <1>1, <2>3, ExtensionIsThere DEF IInv
  <2> QED BY <2>2, <2>4 DEF IndexIsTheDirectory
<1>2. ASSUME IInv, Published
      PROVE  ComponentsFollowIndex
  <2>1. comps.state = "whole" /\ index = Listing
    BY <1>2 DEF IInv, IndexesAreOfDirectory
  <2>2. ASSUME NEW d \in Dists, comps.said[d] # <<>>
        PROVE  /\ DOMAIN comps.said[d] = index.lists[d]
               /\ \A v \in index.lists[d] : \E f \in Form : comps.said[d][v] = file[d][v][f]
    <3>1. index.lists[d] \subseteq Releases
      BY <2>1 DEF Listing, Held
    <3>2. PICK r \in Readings(d) : comps.said[d] = IF \E v \in index.lists[d] : r[v] = Unreadable THEN <<>> ELSE r
      BY <1>2 DEF IInv, IndexesAreOfDirectory, Described
    <3>3. comps.said[d] = r /\ \A v \in index.lists[d] : r[v] # Unreadable
      BY <2>2, <3>2
    <3>4. DOMAIN r = index.lists[d] /\ \A v \in index.lists[d] : r[v] \in Read(d, v)
      BY DEF Readings
    <3> QED BY <1>2, <3>1, <3>3, <3>4, ReadingIsAFile DEF IInv
  <2> QED BY <2>1, <2>2 DEF ComponentsFollowIndex
<1>3. IInv => IndexesAreTheDirectory
  BY <1>1, <1>2 DEF IndexesAreTheDirectory, IndexIsTheDirectory, ComponentsFollowIndex
<1> QED BY <1>3, IInvHolds, PTL

\* A run that ends well has left every schema it was asked for, whole and its
\* own in every form, unless retention dropped the release (schemagen.go, run).
THEOREM NeverShort == Spec => []NeverQuietlyShort
<1>1. ASSUME IInv, pc = "idle", outcome = "ok", NEW i \in DOMAIN asked
      PROVE  \/ \A k \in DOMAIN formats : file[asked[i][1]][asked[i][2]][formats[k]] = run
             \/ Retain > 0 /\ asked[i][2] \notin Held(asked[i][1])
  <2>1. ~skipped /\ doomed = {}
    BY <1>1 DEF IInv, OkIsComplete
  <2>2. IsMade(asked[i]) \/ IsLeaving(asked[i])
    BY <1>1, <2>1 DEF IInv, ManifestsAreMade, IsPublishing
  <2>3. CASE IsMade(asked[i])
    BY <2>3 DEF IsMade
  <2>4. CASE IsLeaving(asked[i])
    <3>1. \A k \in DOMAIN Extensions : file[asked[i][1]][asked[i][2]][Extensions[k]] = Absent
      BY <2>1, <2>4 DEF IsLeaving
    <3>2. \A f \in Form : \E k \in DOMAIN Extensions : f = Extensions[k]
      BY DEF Extensions, Form
    <3> QED BY <2>4, <3>1, <3>2 DEF IsLeaving, Held
  <2> QED BY <2>2, <2>3, <2>4
<1>2. IInv => NeverQuietlyShort
  BY <1>1 DEF NeverQuietlyShort
<1> QED BY <1>2, IInvHolds, PTL

\* However often pruning fails, is killed and starts again, a release is lost
\* only when it is no milestone and as many newer ones as are kept are still
\* there (retain.go, drop and prune).
THEOREM RetentionHolds == Spec => RetentionIsKept
<1>. DEFINE Kept == \A d \in Dists : \A v \in Held(d) \ Held(d)' :
                      v \notin Milestones /\ Cardinality({w \in Held(d)' : w > v}) >= Retain
<1>1. ASSUME IInv, Remove
      PROVE  Kept
  <2>. DEFINE first == CHOOSE y \in doomed : \A z \in doomed : Before(y, z)
  <2>1. first \in doomed /\ pc = "prune"
    BY <1>1, FirstIsDoomed DEF Remove, IInv, StepsAreReady
  <2>2. \/ /\ file' = [file EXCEPT ![first[1]][-first[2]][Extensions[first[3]]] = Absent]
           /\ doomed' = doomed \ {first}
        \/ UNCHANGED file
    BY <1>1 DEF Remove
  <2>. HIDE DEF first
  <2>3. CASE UNCHANGED file
    BY <2>3 DEF Held
  <2>4. CASE /\ file' = [file EXCEPT ![first[1]][-first[2]][Extensions[first[3]]] = Absent]
             /\ doomed' = doomed \ {first}
    <3>1. ASSUME NEW d \in Dists, NEW v \in Held(d) \ Held(d)'
          PROVE  v \notin Milestones /\ Cardinality({w \in Held(d)' : w > v}) >= Retain
      <4>. DEFINE A == {w \in Spared(d) : w > v}
                  B == {w \in Held(d)' : w > v}
      <4>1. d = first[1] /\ v = -first[2] /\ Spared(d) \subseteq Spared(d)'
        BY <1>1, <2>1, <2>4, RemoveRemoves
      <4>2. v \notin Milestones /\ Cardinality(A) >= Retain
        BY <1>1, <2>1, <4>1 DEF IInv, WindowIsLeft
      <4>3. A \subseteq B /\ B \subseteq Releases
        BY <4>1 DEF Spared, Held
      <4> QED BY <4>2, <4>3, LargerHasMore, RegistryAssumption
    <3> QED BY <3>1
  <2> QED BY <2>2, <2>3, <2>4
<1>2. ASSUME IInv, CreateSchema \/ EncodeSchema
      PROVE  Kept
  <2>1. todo # <<>> /\ Head(todo)[1] \in Dists /\ Head(todo)[2] \in Releases /\ formats[form] \in Form
    BY <1>2, Facts DEF IInv, StepsAreReady, CreateSchema, EncodeSchema
  <2>2. \/ UNCHANGED file
        \/ file' = [file EXCEPT ![Head(todo)[1]][Head(todo)[2]][formats[form]] = Torn]
        \/ file' = [file EXCEPT ![Head(todo)[1]][Head(todo)[2]][formats[form]] = run]
    BY <1>2 DEF CreateSchema, EncodeSchema
  <2>3. Torn # Absent /\ run # Absent
    BY <1>2, RegistryAssumption DEF IInv, TypeOK, StepsAreReady, CreateSchema, EncodeSchema, Absent, Torn
  <2>4. ASSUME NEW d \in Dists, NEW v \in Releases, NEW f \in Form
        PROVE  file'[d][v][f] \in {file[d][v][f], Torn, run}
    <3>. DEFINE e == Head(todo)[1]
                w == Head(todo)[2]
                k == formats[form]
    <3>1. file \in [Dists -> [Releases -> [Form -> Schema]]]
      BY <1>2 DEF IInv, TypeOK
    <3>2. ASSUME NEW s, file' = [file EXCEPT ![e][w][k] = s]
          PROVE  file'[d][v][f] \in {file[d][v][f], s}
      BY <2>1, <3>1, <3>2
    <3> QED BY <2>2, <3>2
  <2>5. \A d \in Dists : Held(d) \subseteq Held(d)'
    BY <2>3, <2>4 DEF Held
  <2> QED BY <2>5
<1>3. ASSUME IInv, Next, file' # file
      PROVE  Kept
  <2>1. Remove \/ CreateSchema \/ EncodeSchema
    BY <1>3 DEF Next, Start, Generate, Publish, BuildFails, Generated, CreateIndex, EncodeIndex,
       CreateComponents, EncodeComponents, Kill, Terminated, vars, disk
  <2> QED BY <1>1, <1>2, <1>3, <2>1
<1>4. IInv /\ [Next]_vars => [Kept]_file
  BY <1>3 DEF vars, disk
<1>. HIDE DEF Kept
<1> QED BY <1>4, IInvHolds, PTL DEF Spec, RetentionIsKept, Kept
=============================================================================
