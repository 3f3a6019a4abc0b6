----------------------------- MODULE SchemaStore -----------------------------
(***************************************************************************)
(* Which schema a run is checked against: loadTarget (pkg/lint/prepare.go) *)
(* and Store.Load (pkg/schema/store.go) over the store's locations, asked  *)
(* one after the other, while registries publish and withdraw releases and *)
(* answer or do not.                                                       *)
(*                                                                         *)
(* A location is a registry behind HTTP ("remote"), a directory ("dir"),   *)
(* which is a registry when it carries an index and the flat layout when   *)
(* it does not, or a template or file that names one schema, local         *)
(* ("path") or not ("url").  The forms a schema may have (.yaml, .yml,     *)
(* .json) are one file here.                                               *)
(***************************************************************************)
EXTENDS Integers, Sequences, FiniteSets

CONSTANTS
  Names,    \* the names of releases and files
  NormalOf, \* NormalOf[n]: Normalize, "v" in front where it is not
  AgeOf,    \* AgeOf[n]: what Compare orders by, equal under NormalOf, and 0
            \* for what is no version
  Latest, DefaultDistribution,
  Cases,    \* what a run may be given, as records [locations, asked, distribution,
            \* allowInsecure, allowFallback, memoize]; a location is a record
            \* [kind, secure, index, held, flat]
  MaxChanged \* bound: the locations that change during a run

ASSUME NamesAssumption ==
  /\ NormalOf \in [Names -> Names]
  /\ AgeOf \in [Names -> Nat]
  /\ \A n \in Names : AgeOf[NormalOf[n]] = AgeOf[n] /\ NormalOf[NormalOf[n]] = NormalOf[n]
  /\ Latest \notin Names

\* What reading a schema file answers.  A local file that cannot be stat'ed,
\* for whatever reason, is missing; one that can be and does not read is unread.
Missing == [is |-> "missing"]
Unread  == [is |-> "unread"]
Schema(n, d, e) == [is |-> "schema", version |-> n, distribution |-> d, empty |-> e]

\* What reading an index answers, a local one that cannot be stat'ed missing too.
NoIndex  == [is |-> "missing"]
BadIndex == [is |-> "unread"]
Index(names) == [is |-> "index", names |-> names]

IsAnswer(a) ==
  /\ a.is \in {"missing", "unread", "schema"}
  /\ a.is = "missing" => a = Missing
  /\ a.is = "schema" => a.version \in Names

IsIndex(x) ==
  /\ x.is \in {"missing", "unread", "index"}
  /\ x.is = "index" => x = Index(x.names) /\ x.names \subseteq Names

ASSUME CaseAssumption == \A c \in Cases :
  /\ Len(c.locations) \in Nat /\ DOMAIN c.locations = 1..Len(c.locations)
  /\ c.asked \in Names \cup {Latest}
  /\ \A i \in DOMAIN c.locations :
       /\ c.locations[i].kind \in {"remote", "dir", "path", "url"}
       /\ IsIndex(c.locations[i].index)
       /\ DOMAIN c.locations[i].held = Names
       /\ \A n \in Names : IsAnswer(c.locations[i].held[n]) /\ IsAnswer(c.locations[i].flat[n])

VARIABLES
  case,      \* the run's input
  index, held, \* what each location has now: its index, and its schemas by release
  changed,   \* the locations whose contents have changed since the run began
  memo,      \* the indexes of remote locations read so far, which the process keeps
  cancelled, \* whether the run's context is done
  pc,        \* where loadTarget is
  wanted,    \* the release being loaded, Latest until one is chosen
  at,        \* the location asked next
  names,     \* the releases listed so far
  got,       \* what Load returned: "schema", "unknown" or another error
  schema, from, \* the schema it returned, and the location it came from
  target     \* loadTarget's Target

world == <<index, held, changed>>
load  == <<wanted, at, names, got, schema, from>>
vars  == <<case, world, memo, cancelled, pc, load, target>>

Locations == DOMAIN case.locations
Kind(i)   == case.locations[i].kind

\* Store.distribution, and a schema's own.
Or(distribution) == IF distribution = "unset" THEN DefaultDistribution ELSE distribution

Init ==
  /\ case \in Cases
  /\ index = [i \in Locations |-> case.locations[i].index]
  /\ held  = [i \in Locations |-> case.locations[i].held]
  /\ changed = {}
  /\ memo = [i \in Locations |-> NoIndex]
  /\ cancelled = FALSE
  /\ pc = "begin"
  /\ wanted = Latest /\ at = 1 /\ names = {} /\ got = "nothing"
  /\ schema = Missing /\ from = 0
  /\ target = [version |-> Latest, fallback |-> FALSE]

-----------------------------------------------------------------------------
(* Store.Load *)

\* Validate, and then the listing for Latest or the load.
StartLoad(n) ==
  IF ~case.allowInsecure /\ \E i \in Locations : ~case.locations[i].secure
  THEN pc' = "loaded" /\ got' = "refused" /\ UNCHANGED <<wanted, at, names>>
  ELSE /\ pc' = IF n = Latest THEN "list" ELSE "try"
       /\ wanted' = IF n = Latest THEN Latest ELSE NormalOf[n]
       /\ at' = 1 /\ names' = {}
       /\ UNCHANGED got

\* loadTarget's first step.
Begin ==
  /\ pc = "begin"
  /\ IF cancelled
     THEN pc' = "done" /\ got' = "cancelled" /\ UNCHANGED <<wanted, at, names>>
     ELSE StartLoad(case.asked)
  /\ UNCHANGED <<case, world, memo, cancelled, schema, from, target>>

\* flatVersions lists every file by its name, an index among them.
FlatFiles(i) ==
  {n \in Names : case.locations[i].flat[n] # Missing}
    \cup (IF index[i].is = "missing" THEN {} ELSE {"index"} \cap Names)

\* versionsAt: what one location lists.  A registry that does not answer, or
\* not with an index, lists nothing, and a directory its files.
Listed(i, read) ==
  IF Kind(i) \in {"path", "url"} THEN {}
  ELSE IF read.is = "index" THEN read.names
  ELSE IF Kind(i) = "dir" THEN FlatFiles(i) ELSE {}

\* A remote index is read once and kept where the store may share it; a read
\* that failed is not kept.
ListLocation ==
  /\ pc = "list" /\ at \in Locations
  /\ \E read \in CASE Kind(at) # "remote" -> {index[at]}
                   [] Kind(at) = "remote" /\ memo[at].is = "index" -> {memo[at]}
                   [] OTHER -> {index[at], BadIndex} :
       /\ names' = names \cup Listed(at, read)
       /\ memo' = IF Kind(at) = "remote" /\ case.memoize /\ read.is = "index"
                  THEN [memo EXCEPT ![at] = read] ELSE memo
  /\ at' = at + 1
  /\ UNCHANGED <<case, world, cancelled, pc, wanted, got, schema, from, target>>

\* The first of what Versions sorted newest first.
FirstListed(ns) == ns
Newest(ns) == {n \in ns : \A m \in ns : AgeOf[m] <= AgeOf[n]}

ChooseLatest ==
  /\ pc = "list" /\ at \notin Locations /\ wanted = Latest
  /\ IF names = {}
     THEN pc' = "loaded" /\ got' = "none" /\ UNCHANGED <<wanted, at>>
     ELSE /\ \E n \in Newest(names) : wanted' = NormalOf[n]
          /\ pc' = "try" /\ at' = 1 /\ UNCHANGED got
  /\ UNCHANGED <<case, world, memo, cancelled, names, schema, from, target>>

\* loadFrom: a directory is a registry when its index can be stat'ed and flat
\* when that fails, whatever the reason; only a registry behind HTTP may fail
\* to answer, for a local file that cannot be stat'ed counts as not there.
Answers(i, n) ==
  CASE Kind(i) = "dir" /\ index[i].is = "missing" -> {case.locations[i].flat[n]}
    [] Kind(i) \in {"remote", "url"} -> {held[i][n], Unread}
    [] OTHER -> {held[i][n]}

\* validateIdentity
IsWanted(s) ==
  NormalOf[s.version] = wanted /\ Or(s.distribution) = Or(case.distribution)

VerdictUnreadIsSchema(answer) ==
  IF answer.is = "missing" THEN "next"
  ELSE IF answer.is = "schema" => IsWanted(answer) THEN "schema" ELSE "error"
VerdictUnreadIsMissing(answer) ==
  IF answer.is # "schema" THEN "next"
  ELSE IF IsWanted(answer) THEN "schema" ELSE "error"
VerdictAnySchema(answer) ==
  IF answer.is = "missing" THEN "next" ELSE IF answer.is = "schema" THEN "schema" ELSE "error"

\* What a location's answer means to the loop in Load.
Verdict(answer) ==
  IF answer.is = "missing" THEN "next"
  ELSE IF answer.is = "schema" /\ IsWanted(answer) THEN "schema" ELSE "error"

TryLocation ==
  /\ pc = "try" /\ at \in Locations
  /\ \E answer \in Answers(at, wanted) :
       \/ /\ Verdict(answer) = "next"
          /\ at' = at + 1
          /\ UNCHANGED <<pc, got, schema, from>>
       \/ /\ Verdict(answer) = "schema"
          /\ pc' = "loaded" /\ got' = "schema" /\ schema' = answer /\ from' = at
          /\ UNCHANGED at
       \/ /\ Verdict(answer) = "error"
          /\ pc' = "loaded" /\ got' = "error"
          /\ UNCHANGED <<at, schema, from>>
  /\ UNCHANGED <<case, world, memo, cancelled, wanted, names, target>>

\* UnknownVersionError says what there is instead.
NowhereHeld ==
  /\ pc = "try" /\ at \notin Locations
  /\ pc' = "list" /\ at' = 1 /\ names' = {}
  /\ UNCHANGED <<case, world, memo, cancelled, wanted, got, schema, from, target>>

Unknown ==
  /\ pc = "list" /\ at \notin Locations /\ wanted # Latest
  /\ pc' = "loaded" /\ got' = "unknown"
  /\ UNCHANGED <<case, world, memo, cancelled, wanted, at, names, schema, from, target>>

-----------------------------------------------------------------------------
(* loadTarget, after Load *)

\* UnknownVersionError.Nearest
Nearest == Newest({n \in names : AgeOf[n] <= AgeOf[wanted]})

MayAlwaysFallBack == got = "unknown" /\ ~target.fallback /\ Nearest # {}
MayFallBack == got = "unknown" /\ case.allowFallback /\ ~target.fallback /\ Nearest # {}

FallBack ==
  /\ pc = "loaded" /\ ~cancelled /\ MayFallBack
  /\ \E near \in Nearest :
       /\ target' = [version |-> near, fallback |-> TRUE]
       /\ StartLoad(near)
  /\ UNCHANGED <<case, world, memo, cancelled, schema, from>>

Return ==
  /\ pc = "loaded" /\ (cancelled \/ ~MayFallBack)
  /\ pc' = "done"
  /\ CASE cancelled -> got' = "cancelled" /\ UNCHANGED target
       [] ~cancelled /\ got = "schema" ->
            /\ target' = [target EXCEPT !.version = schema.version]
            /\ got' = IF schema.empty THEN "empty" ELSE "schema"
       [] OTHER -> UNCHANGED <<got, target>>
  /\ UNCHANGED <<case, world, memo, cancelled, wanted, at, names, schema, from>>

-----------------------------------------------------------------------------
(* The run's surroundings. *)

Cancel ==
  /\ ~cancelled /\ pc # "done"
  /\ cancelled' = TRUE
  /\ UNCHANGED <<case, world, memo, pc, load, target>>

\* A registry gains or loses a release: in its index, its schemas, or both.
Change ==
  /\ pc # "done" /\ Cardinality(changed) < MaxChanged
  /\ \E i \in Locations \ changed :
       /\ index[i].is = "index"
       /\ changed' = changed \cup {i}
       /\ \E n \in Names :
            /\ held' \in {held, [held EXCEPT ![i][n] = Schema(n, Or(case.distribution), FALSE)],
                          [held EXCEPT ![i][n] = Missing]}
            /\ index' \in {index, [index EXCEPT ![i].names = @ \cup {n}],
                           [index EXCEPT ![i].names = @ \ {n}]}
  /\ UNCHANGED <<case, memo, cancelled, pc, load, target>>

Terminated == pc = "done" /\ UNCHANGED vars

Step == \/ Begin \/ ListLocation \/ ChooseLatest \/ TryLocation
        \/ NowhereHeld \/ Unknown \/ FallBack \/ Return

Next == Step \/ Cancel \/ Change \/ Terminated

Spec == Init /\ [][Next]_vars

-----------------------------------------------------------------------------
(* Properties. *)

\* The type of every variable.
TypeOK ==
  /\ DOMAIN index = Locations /\ DOMAIN held = Locations /\ DOMAIN memo = Locations
  /\ changed \subseteq Locations
  /\ cancelled \in BOOLEAN
  /\ pc \in {"begin", "list", "try", "loaded", "done"}
  /\ wanted \in Names \cup {Latest}
  /\ at \in 1..(Len(case.locations) + 1)
  /\ names \subseteq Names
  /\ got \in {"nothing", "refused", "none", "unknown", "error", "schema", "empty", "cancelled"}
  /\ got \in {"schema", "empty"} => schema.is = "schema" /\ from \in Locations
  /\ target.version \in Names \cup {Latest} /\ target.fallback \in BOOLEAN

Prepared == pc = "done" /\ got = "schema"

\* What a location has held all along of a release.
Unchanging(i, n) ==
  IF Kind(i) = "dir" /\ index[i].is = "missing" THEN case.locations[i].flat[n] ELSE held[i][n]

\* A run that starts is checked against a schema of the release and the
\* distribution asked for, or of the one fallen back to, and not an empty one.
SchemaIsTheOneAskedFor ==
  Prepared =>
    /\ Or(schema.distribution) = Or(case.distribution)
    /\ ~schema.empty
    /\ ~target.fallback /\ case.asked # Latest => NormalOf[schema.version] = NormalOf[case.asked]
    /\ target.fallback /\ case.asked # Latest => AgeOf[schema.version] <= AgeOf[case.asked]

\* A location answers only for what the ones before it do not have: nothing
\* that can be stat'ed there (or that a registry does not deny having) is
\* passed over, whether it can be read or not.
EarlierLocationsFirst ==
  Prepared =>
    \A i \in 1..(from - 1) :
      i \notin changed => Unchanging(i, NormalOf[schema.version]) = Missing

\* What a directory listed when the run began and lists now: as a location
\* changes at most once, what it has listed all along.
ListsAllAlong(i) ==
  IF Kind(i) = "dir" THEN Listed(i, case.locations[i].index) \cap Listed(i, index[i]) ELSE {}

\* Where latest is asked for, no release is newer than the one chosen among
\* those a directory has listed all along, whatever was published or withdrawn
\* beside them between the listing and the load.
LatestIsNewest ==
  Prepared /\ case.asked = Latest /\ ~target.fallback =>
    \A i \in Locations : \A n \in ListsAllAlong(i) : AgeOf[n] <= AgeOf[schema.version]

\* An older release stands in for the one asked for only where that is allowed
\* and no location has it: a schema that is there and cannot be read, or a
\* registry that does not answer, is an error and never a fallback.
FallbackOnlyWhenMissing ==
  target.fallback =>
    /\ case.allowFallback
    /\ case.asked # Latest =>
         \A i \in Locations \ changed : Unchanging(i, NormalOf[case.asked]) = Missing

\* A schema that would do for release n, had it been asked for.
Serves(i, n) ==
  LET s == Unchanging(i, NormalOf[n])
  IN  /\ s.is = "schema" /\ ~s.empty
      /\ NormalOf[s.version] = NormalOf[n] /\ Or(s.distribution) = Or(case.distribution)

\* lint/prepare.go:26, docs/schemas.md:26 and docs/library.md:86: the nearest
\* older schema stands in for one that does not exist.  A run that falls back
\* and still finds no schema has left no older one that was listed and is there.
FallbackReachesOlder ==
  pc = "done" /\ got = "unknown" /\ target.fallback /\ case.asked # Latest =>
    \A i \in Locations : \A n \in Listed(i, index[i]) :
      AgeOf[n] < AgeOf[case.asked] => ~Serves(i, n)
=============================================================================
