-------------------------- MODULE SchemaStoreProofs --------------------------
(***************************************************************************)
(* For any locations, whatever they hold, answer and come to hold while a  *)
(* run asks them: the schema a run is checked against is the one asked     *)
(* for, earlier locations come first, latest is the newest listed, and a   *)
(* fallback is only ever from a release nobody has.                        *)
(***************************************************************************)
EXTENDS SchemaStore, TLAPS

\* What the locations have.
WorldInv ==
  /\ case \in Cases
  /\ DOMAIN index = Locations /\ DOMAIN held = Locations /\ DOMAIN memo = Locations
  /\ \A i \in Locations :
       /\ IsIndex(index[i]) /\ IsIndex(memo[i])
       /\ DOMAIN held[i] = Names
       /\ \A n \in Names : IsAnswer(held[i][n])
       /\ i \notin changed => index[i] = case.locations[i].index
  /\ changed \subseteq Locations

\* Where the run is.
StepInv ==
  /\ pc \in {"begin", "list", "try", "loaded", "done"}
  /\ got \in {"nothing", "refused", "none", "unknown", "error", "schema", "empty", "cancelled"}
  /\ wanted \in Names \cup {Latest}
  /\ wanted \in Names => NormalOf[wanted] = wanted
  /\ at \in 1..(Len(case.locations) + 1)
  /\ names \subseteq Names
  /\ cancelled \in BOOLEAN
  /\ target.version \in Names \cup {Latest} /\ target.fallback \in BOOLEAN
  /\ pc = "begin" => wanted = Latest /\ ~target.fallback /\ got = "nothing"
  /\ pc = "try" => wanted # Latest
  /\ pc \in {"list", "try"} => got \in {"nothing", "unknown"}
  /\ got = "empty" => pc = "done"
  /\ got = "unknown" => wanted # Latest

\* The locations before the i-th have not held a release all along.
NotBefore(i, n) == \A j \in 1..(i - 1) : j \notin changed => Unchanging(j, n) = Missing
NotAnywhere(n) == \A j \in Locations \ changed : Unchanging(j, n) = Missing

\* What the locations asked have answered.
AskedInv ==
  /\ pc = "try" => NotBefore(at, wanted)
  /\ pc = "list" /\ wanted # Latest => NotAnywhere(wanted)
  /\ pc = "loaded" /\ got = "unknown" => NotAnywhere(wanted)
  /\ got \in {"schema", "empty"} =>
       /\ schema.is = "schema" /\ schema.version \in Names
       /\ wanted \in Names /\ IsWanted(schema)
       /\ from \in Locations /\ NotBefore(from, wanted)
  /\ got = "schema" /\ pc = "done" => ~schema.empty

\* Which release is loaded: the one asked for, or the one fallen back to.
WantedInv ==
  /\ case.asked # Latest =>
       /\ pc # "begin" /\ got \notin {"refused", "cancelled"} /\ ~target.fallback
            => wanted = NormalOf[case.asked]
       /\ target.fallback =>
            /\ wanted \in Names /\ AgeOf[wanted] <= AgeOf[case.asked]
            /\ NotAnywhere(NormalOf[case.asked])
  /\ target.fallback => case.allowFallback

\* Latest is chosen among everything listed.
LatestInv ==
  case.asked = Latest /\ ~target.fallback =>
    /\ pc = "list" /\ wanted = Latest => \A i \in 1..(at - 1) : ListsAllAlong(i) \subseteq names
    /\ wanted # Latest => \A i \in Locations : \A n \in ListsAllAlong(i) : AgeOf[n] <= AgeOf[wanted]

IInv == WorldInv /\ StepInv /\ AskedInv /\ WantedInv /\ LatestInv

-----------------------------------------------------------------------------

LEMMA Facts ==
  ASSUME WorldInv
  PROVE  /\ Len(case.locations) \in Nat /\ Locations = 1..Len(case.locations)
         /\ case.asked \in Names \cup {Latest}
         /\ Latest \notin Names
         /\ NormalOf \in [Names -> Names] /\ AgeOf \in [Names -> Nat]
         /\ \A n \in Names : AgeOf[NormalOf[n]] = AgeOf[n] /\ NormalOf[NormalOf[n]] = NormalOf[n]
  BY CaseAssumption, NamesAssumption DEF WorldInv, Locations

\* A location that answers missing does not hold the release.
LEMMA MissingIsNotHeld ==
  ASSUME WorldInv, NEW i \in Locations, NEW n \in Names, NEW answer \in Answers(i, n)
  PROVE  IsAnswer(answer) /\ (answer.is = "missing" => Unchanging(i, n) = Missing)
<1>1. IsAnswer(held[i][n]) /\ IsAnswer(case.locations[i].flat[n])
  BY CaseAssumption DEF WorldInv, Locations
<1>2. IsAnswer(Unread) /\ Unread.is # "missing"
  BY DEF IsAnswer, Unread
<1>3. CASE Kind(i) = "dir" /\ index[i].is = "missing"
  <2>1. answer = case.locations[i].flat[n] /\ Unchanging(i, n) = answer
    BY <1>3 DEF Answers, Unchanging
  <2> QED BY <1>1, <2>1 DEF IsAnswer
<1>4. CASE ~ (Kind(i) = "dir" /\ index[i].is = "missing")
  <2>1. answer \in {held[i][n], Unread} /\ Unchanging(i, n) = held[i][n]
    BY <1>4 DEF Answers, Unchanging
  <2> QED BY <1>1, <1>2, <2>1 DEF IsAnswer
<1> QED BY <1>3, <1>4

LEMMA ListedAreNames ==
  ASSUME WorldInv, NEW i \in Locations, NEW read, IsIndex(read)
  PROVE  Listed(i, read) \subseteq Names
  BY DEF Listed, FlatFiles, IsIndex

\* Validate, and the first step of a load.
LEMMA StartLoadStarts ==
  ASSUME IInv, NEW n \in Names \cup {Latest}, StartLoad(n),
         UNCHANGED <<case, world, memo, cancelled>>
  PROVE  /\ WorldInv'
         /\ \/ pc' = "loaded" /\ got' = "refused" /\ UNCHANGED <<wanted, at, names>>
            \/ /\ pc' = "list" /\ n = Latest /\ wanted' = Latest
               /\ at' = 1 /\ names' = {} /\ UNCHANGED got
            \/ /\ pc' = "try" /\ n \in Names /\ wanted' = NormalOf[n] /\ wanted' \in Names
               /\ NormalOf[wanted'] = wanted' /\ AgeOf[wanted'] = AgeOf[n]
               /\ at' = 1 /\ names' = {} /\ UNCHANGED got
<1>1. WorldInv'
  BY DEF IInv, WorldInv, world, Locations
<1> QED BY <1>1, Facts DEF StartLoad, IInv

-----------------------------------------------------------------------------
(* One lemma for each action. *)

LEMMA BeginKeeps ==
  ASSUME IInv, Begin
  PROVE  IInv'
<1>0. WorldInv /\ StepInv /\ pc = "begin"
  BY DEF IInv, Begin
<1>1. UNCHANGED <<case, world, memo, cancelled, schema, from, target>>
  BY DEF Begin
<1>2. CASE cancelled
  BY <1>0, <1>1, <1>2 DEF Begin, IInv, WorldInv, StepInv, AskedInv, WantedInv, LatestInv, world,
                          Locations, IsWanted
<1>3. CASE ~cancelled
  <2>1. StartLoad(case.asked) /\ case.asked \in Names \cup {Latest}
    BY <1>0, <1>3, Facts DEF Begin
  <2>2. 1..(1 - 1) = {}
    OBVIOUS
  <2>3. WorldInv'
    BY <1>1, <2>1, StartLoadStarts
  <2>4. StepInv'
    BY <1>0, <1>1, <2>1, StartLoadStarts, Facts DEF StepInv
  <2>5. AskedInv' /\ WantedInv' /\ LatestInv'
    BY <1>0, <1>1, <2>1, <2>2, StartLoadStarts, Facts DEF StepInv, AskedInv, WantedInv, LatestInv, NotBefore
  <2> QED BY <2>3, <2>4, <2>5 DEF IInv
<1> QED BY <1>2, <1>3

LEMMA ListLocationKeeps ==
  ASSUME IInv, ListLocation
  PROVE  IInv'
<1>0. WorldInv /\ StepInv /\ LatestInv /\ pc = "list" /\ at \in Locations
  BY DEF IInv, ListLocation
<1>1. /\ UNCHANGED <<case, world, cancelled, pc, wanted, got, schema, from, target>>
      /\ at' = at + 1
  BY DEF ListLocation
<1>2. PICK read \in {index[at], memo[at], BadIndex} :
        /\ names' = names \cup Listed(at, read)
        /\ memo' \in {memo, [memo EXCEPT ![at] = read]}
        /\ Kind(at) = "dir" => read = index[at]
  <2>1. PICK read \in CASE Kind(at) # "remote" -> {index[at]}
                        [] Kind(at) = "remote" /\ memo[at].is = "index" -> {memo[at]}
                        [] OTHER -> {index[at], BadIndex} :
          /\ names' = names \cup Listed(at, read)
          /\ memo' = IF Kind(at) = "remote" /\ case.memoize /\ read.is = "index"
                     THEN [memo EXCEPT ![at] = read] ELSE memo
    BY DEF ListLocation
  <2> QED BY <2>1
<1>3. IsIndex(read)
  BY <1>0 DEF WorldInv, IsIndex, BadIndex, Index
<1>4. Listed(at, read) \subseteq Names
  BY <1>0, <1>3, ListedAreNames
<1>5. WorldInv'
  BY <1>0, <1>1, <1>2, <1>3 DEF WorldInv, world, Locations
<1>6. StepInv'
  BY <1>0, <1>1, <1>2, <1>4, Facts DEF StepInv
<1>7. AskedInv' /\ WantedInv'
  BY <1>0, <1>1 DEF IInv, AskedInv, WantedInv, StepInv, NotBefore, NotAnywhere, Unchanging, Kind, Locations,
                    world, IsWanted
<1>8. LatestInv'
  <2>1. \A i : ListsAllAlong(i)' = ListsAllAlong(i)
    BY <1>1 DEF ListsAllAlong, Listed, FlatFiles, Kind, world
  <2>2. ListsAllAlong(at) \subseteq names'
    BY <1>2 DEF ListsAllAlong
  <2>3. \A i \in 1..((at + 1) - 1) : i \in 1..(at - 1) \/ i = at
    BY <1>0, Facts
  <2> QED BY <1>0, <1>1, <1>2, <2>1, <2>2, <2>3 DEF LatestInv, Locations
<1> QED BY <1>5, <1>6, <1>7, <1>8 DEF IInv

\* What has been said of the locations stays true while they do not change.
LEMMA SameWorld ==
  ASSUME WorldInv, UNCHANGED <<case, world, memo>>
  PROVE  /\ WorldInv'
         /\ Locations' = Locations
         /\ \A i, n : NotBefore(i, n)' = NotBefore(i, n)
         /\ \A n : NotAnywhere(n)' = NotAnywhere(n)
         /\ \A i : ListsAllAlong(i)' = ListsAllAlong(i)
  BY DEF WorldInv, world, Locations, NotBefore, NotAnywhere, Unchanging, Kind, ListsAllAlong, Listed, FlatFiles

LEMMA ChooseLatestKeeps ==
  ASSUME IInv, ChooseLatest
  PROVE  IInv'
<1>0. /\ WorldInv /\ StepInv /\ AskedInv /\ WantedInv /\ LatestInv
      /\ pc = "list" /\ at \notin Locations /\ wanted = Latest
  BY DEF IInv, ChooseLatest
<1>1. UNCHANGED <<case, world, memo, cancelled, names, schema, from, target>>
  BY DEF ChooseLatest
<1>2. /\ WorldInv' /\ Locations' = Locations
      /\ \A i, n : NotBefore(i, n)' = NotBefore(i, n)
      /\ \A n : NotAnywhere(n)' = NotAnywhere(n)
      /\ \A i : ListsAllAlong(i)' = ListsAllAlong(i)
  BY <1>0, <1>1, SameWorld
<1>3. case.asked # Latest => target.fallback
  BY <1>0, Facts DEF WantedInv, StepInv
<1>4. case.asked = Latest \/ FALSE
  BY <1>0, <1>3, Facts DEF WantedInv
<1>5. ~target.fallback \/ wanted = Latest
  BY <1>0
<1>6. CASE names = {}
  <2>1. pc' = "loaded" /\ got' = "none" /\ UNCHANGED <<wanted, at>>
    BY <1>6 DEF ChooseLatest
  <2>2. StepInv'
    BY <1>0, <1>1, <1>2, <2>1 DEF StepInv
  <2>3. AskedInv' /\ WantedInv' /\ LatestInv'
    BY <1>0, <1>1, <1>2, <1>4, <2>1 DEF AskedInv, WantedInv, LatestInv
  <2> QED BY <1>2, <2>2, <2>3 DEF IInv
<1>7. CASE names # {}
  <2>1. PICK n \in Newest(names) : wanted' = NormalOf[n] /\ pc' = "try" /\ at' = 1 /\ UNCHANGED got
    BY <1>7 DEF ChooseLatest
  <2>2. /\ n \in Names /\ wanted' \in Names /\ NormalOf[wanted'] = wanted'
        /\ AgeOf[wanted'] = AgeOf[n] /\ \A x \in names : AgeOf[x] <= AgeOf[wanted']
    BY <1>0, <2>1, Facts DEF Newest, StepInv
  <2>3. StepInv'
    BY <1>0, <1>1, <1>2, <2>1, <2>2, Facts DEF StepInv
  <2>4. 1..(1 - 1) = {}
    OBVIOUS
  <2>5. AskedInv' /\ WantedInv'
    BY <1>0, <1>1, <1>2, <1>4, <2>1, <2>4 DEF AskedInv, WantedInv, StepInv, NotBefore
  <2>6. LatestInv'
    <3>1. at = Len(case.locations) + 1 /\ 1..(at - 1) = Locations
      BY <1>0, Facts DEF StepInv
    <3>2. ~target.fallback => \A i \in Locations : ListsAllAlong(i) \subseteq names
      BY <1>0, <1>4, <3>1 DEF LatestInv
    <3> QED BY <1>1, <1>2, <2>1, <2>2, <3>2 DEF LatestInv
  <2> QED BY <1>2, <2>3, <2>5, <2>6 DEF IInv
<1> QED BY <1>6, <1>7

LEMMA TryLocationKeeps ==
  ASSUME IInv, TryLocation
  PROVE  IInv'
<1>0. /\ WorldInv /\ StepInv /\ AskedInv /\ WantedInv /\ LatestInv
      /\ pc = "try" /\ at \in Locations /\ wanted \in Names /\ wanted # Latest
  BY Facts DEF IInv, TryLocation, StepInv
<1>1. UNCHANGED <<case, world, memo, cancelled, wanted, names, target>>
  BY DEF TryLocation
<1>2. /\ WorldInv' /\ Locations' = Locations
      /\ \A i, n : NotBefore(i, n)' = NotBefore(i, n)
      /\ \A n : NotAnywhere(n)' = NotAnywhere(n)
      /\ \A i : ListsAllAlong(i)' = ListsAllAlong(i)
  BY <1>0, <1>1, SameWorld
<1>3. PICK answer \in Answers(at, wanted) :
        \/ /\ Verdict(answer) = "next"
           /\ at' = at + 1
           /\ UNCHANGED <<pc, got, schema, from>>
        \/ /\ Verdict(answer) = "schema"
           /\ pc' = "loaded" /\ got' = "schema" /\ schema' = answer /\ from' = at
           /\ UNCHANGED at
        \/ /\ Verdict(answer) = "error"
           /\ pc' = "loaded" /\ got' = "error"
           /\ UNCHANGED <<at, schema, from>>
  BY DEF TryLocation
<1>4. IsAnswer(answer) /\ (answer.is = "missing" => Unchanging(at, wanted) = Missing)
  BY <1>0, MissingIsNotHeld
<1>5. LatestInv'
  BY <1>0, <1>1, <1>2, <1>3 DEF LatestInv
<1>6. CASE Verdict(answer) = "next"
  <2>1. at' = at + 1 /\ UNCHANGED <<pc, got, schema, from>> /\ Unchanging(at, wanted) = Missing
    BY <1>3, <1>4, <1>6 DEF Verdict
  <2>2. NotBefore(at + 1, wanted)
    <3>1. \A j \in 1..((at + 1) - 1) : j \in 1..(at - 1) \/ j = at
      BY <1>0, Facts
    <3> QED BY <1>0, <2>1, <3>1 DEF AskedInv, NotBefore
  <2>3. StepInv'
    BY <1>0, <1>1, <1>2, <2>1, Facts DEF StepInv
  <2>4. AskedInv' /\ WantedInv'
    BY <1>0, <1>1, <1>2, <2>1, <2>2 DEF AskedInv, WantedInv, StepInv, IsWanted
  <2> QED BY <1>2, <1>5, <2>3, <2>4 DEF IInv
<1>7. CASE Verdict(answer) = "schema"
  <2>1. /\ pc' = "loaded" /\ got' = "schema" /\ schema' = answer /\ from' = at /\ at' = at
        /\ answer.is = "schema" /\ IsWanted(answer) /\ answer.version \in Names
    BY <1>3, <1>4, <1>7 DEF Verdict, IsAnswer
  <2>2. StepInv'
    BY <1>0, <1>1, <1>2, <2>1 DEF StepInv
  <2>3. NotBefore(at, wanted)
    BY <1>0 DEF AskedInv
  <2>4. AskedInv'
    BY <1>0, <1>1, <1>2, <2>1, <2>3 DEF AskedInv, IsWanted
  <2>5. WantedInv'
    BY <1>0, <1>1, <1>2, <2>1 DEF WantedInv, StepInv
  <2> QED BY <1>2, <1>5, <2>2, <2>4, <2>5 DEF IInv
<1>8. CASE Verdict(answer) = "error"
  <2>1. pc' = "loaded" /\ got' = "error" /\ UNCHANGED <<at, schema, from>>
    BY <1>3, <1>8
  <2>2. StepInv' /\ AskedInv' /\ WantedInv'
    BY <1>0, <1>1, <1>2, <2>1 DEF StepInv, AskedInv, WantedInv
  <2> QED BY <1>2, <1>5, <2>2 DEF IInv
<1> QED BY <1>3, <1>6, <1>7, <1>8

LEMMA NowhereHeldKeeps ==
  ASSUME IInv, NowhereHeld
  PROVE  IInv'
<1>0. /\ WorldInv /\ StepInv /\ AskedInv /\ WantedInv /\ LatestInv
      /\ pc = "try" /\ at \notin Locations /\ wanted # Latest
  BY DEF IInv, NowhereHeld, StepInv
<1>1. /\ UNCHANGED <<case, world, memo, cancelled, wanted, got, schema, from, target>>
      /\ pc' = "list" /\ at' = 1 /\ names' = {}
  BY DEF NowhereHeld
<1>2. /\ WorldInv' /\ Locations' = Locations
      /\ \A i, n : NotBefore(i, n)' = NotBefore(i, n)
      /\ \A n : NotAnywhere(n)' = NotAnywhere(n)
      /\ \A i : ListsAllAlong(i)' = ListsAllAlong(i)
  BY <1>0, <1>1, SameWorld
<1>3. NotAnywhere(wanted)
  <2>1. 1..(at - 1) = Locations
    BY <1>0, Facts DEF StepInv
  <2> QED BY <1>0, <2>1 DEF AskedInv, NotBefore, NotAnywhere
<1>4. StepInv'
  BY <1>0, <1>1, <1>2, Facts DEF StepInv
<1>5. AskedInv' /\ WantedInv' /\ LatestInv'
  BY <1>0, <1>1, <1>2, <1>3 DEF AskedInv, WantedInv, LatestInv, StepInv, IsWanted
<1> QED BY <1>2, <1>4, <1>5 DEF IInv

LEMMA UnknownKeeps ==
  ASSUME IInv, Unknown
  PROVE  IInv'
<1>0. /\ WorldInv /\ StepInv /\ AskedInv /\ WantedInv /\ LatestInv
      /\ pc = "list" /\ wanted # Latest
  BY DEF IInv, Unknown
<1>1. /\ UNCHANGED <<case, world, memo, cancelled, wanted, at, names, schema, from, target>>
      /\ pc' = "loaded" /\ got' = "unknown"
  BY DEF Unknown
<1>2. /\ WorldInv' /\ Locations' = Locations
      /\ \A i, n : NotBefore(i, n)' = NotBefore(i, n)
      /\ \A n : NotAnywhere(n)' = NotAnywhere(n)
      /\ \A i : ListsAllAlong(i)' = ListsAllAlong(i)
  BY <1>0, <1>1, SameWorld
<1>3. StepInv' /\ AskedInv' /\ WantedInv' /\ LatestInv'
  BY <1>0, <1>1, <1>2 DEF StepInv, AskedInv, WantedInv, LatestInv
<1> QED BY <1>2, <1>3 DEF IInv

LEMMA FallBackKeeps ==
  ASSUME IInv, FallBack
  PROVE  IInv'
<1>0. /\ WorldInv /\ StepInv /\ AskedInv /\ WantedInv /\ LatestInv
      /\ pc = "loaded" /\ got = "unknown" /\ case.allowFallback /\ ~target.fallback
      /\ wanted \in Names /\ wanted # Latest
  BY Facts DEF IInv, FallBack, MayFallBack, StepInv
<1>1. UNCHANGED <<case, world, memo, cancelled, schema, from>>
  BY DEF FallBack
<1>2. /\ WorldInv' /\ Locations' = Locations
      /\ \A i, n : NotBefore(i, n)' = NotBefore(i, n)
      /\ \A n : NotAnywhere(n)' = NotAnywhere(n)
  BY <1>0, <1>1, SameWorld
<1>3. PICK near \in Nearest : target' = [version |-> near, fallback |-> TRUE] /\ StartLoad(near)
  BY DEF FallBack
<1>4. near \in Names /\ near # Latest /\ AgeOf[near] <= AgeOf[wanted]
  BY <1>0, <1>3, Facts DEF Nearest, Newest, StepInv
<1>5. \/ pc' = "loaded" /\ got' = "refused" /\ UNCHANGED <<wanted, at, names>>
      \/ /\ pc' = "try" /\ wanted' \in Names /\ NormalOf[wanted'] = wanted' /\ AgeOf[wanted'] = AgeOf[near]
         /\ at' = 1 /\ names' = {} /\ UNCHANGED got
  BY <1>1, <1>3, <1>4, StartLoadStarts
<1>6. target'.fallback = TRUE /\ target'.version = near
  BY <1>3
<1>7. case.asked # Latest =>
        /\ wanted = NormalOf[case.asked] /\ AgeOf[wanted] = AgeOf[case.asked]
        /\ AgeOf[case.asked] \in Nat /\ AgeOf[near] \in Nat
        /\ NotAnywhere(NormalOf[case.asked])
  BY <1>0, <1>4, Facts DEF WantedInv, AskedInv
<1>8. StepInv'
  <2>1. Len(case.locations) \in Nat /\ case' = case /\ cancelled' = cancelled
    BY <1>0, <1>1, Facts
  <2>2. target'.version \in Names \cup {Latest} /\ target'.fallback \in BOOLEAN
    BY <1>4, <1>6
  <2>3. at' \in 1..(Len(case.locations) + 1) /\ names' \subseteq Names
    BY <1>0, <1>5, <2>1 DEF StepInv
  <2>4. wanted' \in Names /\ NormalOf[wanted'] = wanted' /\ wanted' # Latest
    BY <1>0, <1>5, Facts DEF StepInv
  <2>5. pc' \in {"loaded", "try"} /\ got' \in {"refused", "unknown"}
        /\ (pc' = "try" => got' = "unknown")
    BY <1>0, <1>5
  <2> QED BY <1>0, <2>1, <2>2, <2>3, <2>4, <2>5 DEF StepInv
<1>9. AskedInv'
  <2>1. 1..(1 - 1) = {}
    OBVIOUS
  <2> QED BY <1>0, <1>5, <2>1 DEF AskedInv, NotBefore
<1>10. WantedInv' /\ LatestInv'
  BY <1>0, <1>1, <1>2, <1>4, <1>5, <1>6, <1>7 DEF WantedInv, LatestInv
<1> QED BY <1>2, <1>8, <1>9, <1>10 DEF IInv

LEMMA ReturnKeeps ==
  ASSUME IInv, Return
  PROVE  IInv'
<1>0. WorldInv /\ StepInv /\ AskedInv /\ WantedInv /\ LatestInv /\ pc = "loaded"
  BY DEF IInv, Return
<1>1. UNCHANGED <<case, world, memo, cancelled, wanted, at, names, schema, from>> /\ pc' = "done"
  BY DEF Return
<1>2. /\ WorldInv' /\ Locations' = Locations
      /\ \A i, n : NotBefore(i, n)' = NotBefore(i, n)
      /\ \A n : NotAnywhere(n)' = NotAnywhere(n)
      /\ \A i : ListsAllAlong(i)' = ListsAllAlong(i)
  BY <1>0, <1>1, SameWorld
<1>3. CASE cancelled
  <2>1. got' = "cancelled" /\ UNCHANGED target
    BY <1>3 DEF Return
  <2> QED BY <1>0, <1>1, <1>2, <2>1 DEF IInv, StepInv, AskedInv, WantedInv, LatestInv
<1>4. CASE ~cancelled /\ got = "schema"
  <2>1. /\ target' = [target EXCEPT !.version = schema.version]
        /\ got' = IF schema.empty THEN "empty" ELSE "schema"
    BY <1>4 DEF Return
  <2>2. target'.fallback = target.fallback /\ target'.version \in Names \cup {Latest}
    <3>1. schema.version \in Names
      BY <1>0, <1>4 DEF AskedInv
    <3>2. target' \in {target, [target EXCEPT !.version = schema.version]}
      BY <2>1
    <3> QED BY <1>0, <2>1, <3>1 DEF StepInv
  <2>3. StepInv' /\ AskedInv'
    BY <1>0, <1>1, <1>2, <1>4, <2>1, <2>2 DEF StepInv, AskedInv, IsWanted
  <2>4. WantedInv' /\ LatestInv'
    BY <1>0, <1>1, <1>2, <1>4, <2>1, <2>2 DEF WantedInv, LatestInv, StepInv
  <2> QED BY <1>2, <2>3, <2>4 DEF IInv
<1>5. CASE ~cancelled /\ got # "schema"
  <2>1. UNCHANGED <<got, target>>
    BY <1>5 DEF Return
  <2> QED BY <1>0, <1>1, <1>2, <1>5, <2>1 DEF IInv, StepInv, AskedInv, WantedInv, LatestInv, IsWanted
<1> QED BY <1>3, <1>4, <1>5

\* A location that changes is no longer spoken of.
LEMMA ChangeKeeps ==
  ASSUME IInv, Change
  PROVE  IInv'
<1>0. WorldInv /\ StepInv /\ AskedInv /\ WantedInv /\ LatestInv
  BY DEF IInv
<1>1. UNCHANGED <<case, memo, cancelled, pc, load, target>>
  BY DEF Change
<1>2. PICK i \in Locations \ changed, n \in Names :
        /\ index[i].is = "index"
        /\ changed' = changed \cup {i}
        /\ held' \in {held, [held EXCEPT ![i][n] = Schema(n, Or(case.distribution), FALSE)],
                      [held EXCEPT ![i][n] = Missing]}
        /\ index' \in {index, [index EXCEPT ![i].names = @ \cup {n}],
                       [index EXCEPT ![i].names = @ \ {n}]}
  BY DEF Change
<1>3. /\ DOMAIN index' = Locations /\ DOMAIN held' = Locations
      /\ \A j \in Locations \ {i} : index'[j] = index[j] /\ held'[j] = held[j]
  BY <1>0, <1>2 DEF WorldInv
<1>4. IsIndex(index'[i])
  <2>1. IsIndex(index[i])
    BY <1>0 DEF WorldInv
  <2>2. index'[i] \in {index[i], [index[i] EXCEPT !.names = @ \cup {n}], [index[i] EXCEPT !.names = @ \ {n}]}
    BY <1>0, <1>2 DEF WorldInv
  <2>3. /\ index[i] = Index(index[i].names) /\ index[i].names \subseteq Names
    BY <1>2, <2>1 DEF IsIndex
  <2>4. /\ [index[i] EXCEPT !.names = @ \cup {n}] = Index(index[i].names \cup {n})
        /\ [index[i] EXCEPT !.names = @ \ {n}] = Index(index[i].names \ {n})
    BY <2>3 DEF Index
  <2>5. \A ns \in SUBSET Names : IsIndex(Index(ns))
    BY DEF IsIndex, Index
  <2> QED BY <2>1, <2>2, <2>3, <2>4, <2>5
<1>5. DOMAIN held'[i] = Names /\ \A m \in Names : IsAnswer(held'[i][m])
  <2>1. DOMAIN held[i] = Names /\ \A m \in Names : IsAnswer(held[i][m])
    BY <1>0 DEF WorldInv
  <2>2. IsAnswer(Missing) /\ IsAnswer(Schema(n, Or(case.distribution), FALSE))
    BY DEF IsAnswer, Missing, Schema
  <2>3. held'[i] \in {held[i], [held[i] EXCEPT ![n] = Schema(n, Or(case.distribution), FALSE)],
                      [held[i] EXCEPT ![n] = Missing]}
    BY <1>0, <1>2 DEF WorldInv
  <2> QED BY <2>1, <2>2, <2>3
<1>6. WorldInv'
  BY <1>0, <1>1, <1>2, <1>3, <1>4, <1>5 DEF WorldInv, Locations
<1>7. /\ Locations' = Locations
      /\ \A j \in Locations \ changed' : \A m : Unchanging(j, m)' = Unchanging(j, m)
      /\ \A j \in Locations \ {i} : ListsAllAlong(j)' = ListsAllAlong(j)
  BY <1>1, <1>2, <1>3 DEF Locations, Unchanging, ListsAllAlong, Listed, FlatFiles, Kind
<1>8. \A m : NotAnywhere(m) => NotAnywhere(m)'
  BY <1>2, <1>7 DEF NotAnywhere
<1>9. \A m : \A k \in 1..(Len(case.locations) + 1) : NotBefore(k, m) => NotBefore(k, m)'
  <2> SUFFICES ASSUME NEW m, NEW k \in 1..(Len(case.locations) + 1), NotBefore(k, m),
                      NEW j \in 1..(k - 1), j \notin changed'
               PROVE  Unchanging(j, m)' = Missing
    BY DEF NotBefore
  <2>1. j \in Locations \ changed'
    BY <1>0, Facts
  <2> QED BY <1>2, <1>7, <2>1 DEF NotBefore
<1>10. StepInv'
  BY <1>0, <1>1, <1>7 DEF StepInv, load
<1>11. AskedInv'
  <2>1. \A k \in Locations : k \in 1..(Len(case.locations) + 1)
    BY <1>0, Facts
  <2> QED BY <1>0, <1>1, <1>7, <1>8, <1>9, <2>1 DEF AskedInv, StepInv, load, IsWanted
<1>12. WantedInv'
  BY <1>0, <1>1, <1>8 DEF WantedInv, load
<1>13. LatestInv'
  <2>1. \A j \in Locations : ListsAllAlong(j)' \subseteq ListsAllAlong(j)
    <3>1. index[i] = case.locations[i].index /\ index[i].is = "index" /\ case' = case
      BY <1>0, <1>1, <1>2 DEF WorldInv
    <3>2. ListsAllAlong(i)' \subseteq ListsAllAlong(i)
      BY <3>1 DEF ListsAllAlong, Listed, Kind
    <3> QED BY <1>7, <3>2
  <2>2. \A j \in 1..(at - 1) : j \in Locations
    BY <1>0, Facts DEF StepInv
  <2> QED BY <1>0, <1>1, <1>7, <2>1, <2>2 DEF LatestInv, load
<1> QED BY <1>6, <1>10, <1>11, <1>12, <1>13 DEF IInv

LEMMA OthersKeep ==
  ASSUME IInv, Cancel \/ Terminated \/ UNCHANGED vars
  PROVE  IInv'
<1>0. WorldInv /\ StepInv /\ AskedInv /\ WantedInv /\ LatestInv
  BY DEF IInv
<1>1. UNCHANGED <<case, world, memo, pc, load, target>> /\ cancelled' \in BOOLEAN
  BY <1>0 DEF Cancel, Terminated, vars, StepInv
<1>2. /\ WorldInv' /\ Locations' = Locations
      /\ \A i, n : NotBefore(i, n)' = NotBefore(i, n)
      /\ \A n : NotAnywhere(n)' = NotAnywhere(n)
      /\ \A i : ListsAllAlong(i)' = ListsAllAlong(i)
  BY <1>0, <1>1, SameWorld
<1>3. StepInv' /\ AskedInv' /\ WantedInv' /\ LatestInv'
  BY <1>0, <1>1, <1>2 DEF StepInv, AskedInv, WantedInv, LatestInv, load, IsWanted
<1> QED BY <1>2, <1>3 DEF IInv

-----------------------------------------------------------------------------

THEOREM Invariance == Spec => []IInv
<1>1. Init => IInv
  <2> SUFFICES ASSUME Init PROVE IInv
    OBVIOUS
  <2>1. /\ Len(case.locations) \in Nat /\ Locations = 1..Len(case.locations)
        /\ case.asked \in Names \cup {Latest} /\ Latest \notin Names
    BY CaseAssumption, NamesAssumption DEF Init, Locations
  <2>2. WorldInv
    BY CaseAssumption DEF Init, WorldInv, Locations, IsIndex, NoIndex, Index
  <2>3. /\ pc = "begin" /\ got = "nothing" /\ wanted = Latest /\ at = 1 /\ names = {} /\ cancelled \in BOOLEAN
        /\ ~target.fallback /\ target.fallback \in BOOLEAN /\ target.version = Latest
    BY DEF Init
  <2>4. StepInv
    <3>1. cancelled \in BOOLEAN
      BY <2>3
    <3>2. 1 \in 1..(Len(case.locations) + 1)
      BY <2>1
    <3> QED BY <2>1, <2>3, <3>1, <3>2 DEF StepInv
  <2>5. AskedInv /\ WantedInv /\ LatestInv
    BY <2>1, <2>3 DEF AskedInv, WantedInv, LatestInv
  <2> QED BY <2>2, <2>4, <2>5 DEF IInv
<1>2. IInv /\ [Next]_vars => IInv'
  BY BeginKeeps, ListLocationKeeps, ChooseLatestKeeps, TryLocationKeeps, NowhereHeldKeeps,
     UnknownKeeps, FallBackKeeps, ReturnKeeps, ChangeKeeps, OthersKeep DEF Next, Step
<1> QED BY <1>1, <1>2, PTL DEF Spec

\* The variables of loadTarget and Load have their types.
THEOREM TypeCorrect == Spec => []TypeOK
<1>1. IInv => TypeOK
  BY DEF IInv, WorldInv, StepInv, AskedInv, TypeOK
<1> QED BY <1>1, Invariance, PTL

\* For any locations and whatever becomes of them: the schema is of the
\* release and distribution asked for (loadTarget, validateIdentity).
THEOREM IdentityHolds == Spec => []SchemaIsTheOneAskedFor
<1>1. ASSUME IInv PROVE SchemaIsTheOneAskedFor
  <2> SUFFICES ASSUME Prepared PROVE SchemaIsTheOneAskedFor!2
    BY DEF SchemaIsTheOneAskedFor
  <2>1. /\ AskedInv /\ WantedInv /\ WorldInv /\ pc = "done" /\ got = "schema"
    BY <1>1 DEF IInv, Prepared
  <2>2. schema.version \in Names /\ IsWanted(schema) /\ ~schema.empty
    BY <2>1 DEF AskedInv
  <2> QED BY <2>1, <2>2, Facts DEF IsWanted, WantedInv
<1> QED BY <1>1, Invariance, PTL

\* No location is asked for what an earlier one has (Load).
THEOREM EarlierFirst == Spec => []EarlierLocationsFirst
<1>1. ASSUME IInv PROVE EarlierLocationsFirst
  <2>1. Prepared => IsWanted(schema) /\ NotBefore(from, wanted)
    BY <1>1 DEF IInv, AskedInv, Prepared
  <2> QED BY <2>1 DEF EarlierLocationsFirst, IsWanted, NotBefore
<1> QED BY <1>1, Invariance, PTL

\* Latest is at least as new as anything a directory lists all along (Versions,
\* Load).
THEOREM LatestHolds == Spec => []LatestIsNewest
<1>1. ASSUME IInv PROVE LatestIsNewest
  <2>1. Prepared => /\ IsWanted(schema) /\ schema.version \in Names /\ wanted \in Names
                    /\ AgeOf[wanted] = AgeOf[schema.version] /\ wanted # Latest
    BY <1>1, Facts DEF IInv, AskedInv, Prepared, IsWanted
  <2> QED BY <1>1, <2>1 DEF IInv, LatestInv, LatestIsNewest, ListsAllAlong
<1> QED BY <1>1, Invariance, PTL

\* A fallback is allowed, and from a release no location has (loadTarget).
THEOREM FallbackHolds == Spec => []FallbackOnlyWhenMissing
<1>1. IInv => FallbackOnlyWhenMissing
  BY DEF IInv, WantedInv, FallbackOnlyWhenMissing, NotAnywhere
<1> QED BY <1>1, Invariance, PTL
=============================================================================
