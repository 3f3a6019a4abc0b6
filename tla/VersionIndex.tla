---------------------------- MODULE VersionIndex ----------------------------
(***************************************************************************)
(* lint.VersionIndex (pkg/lint/availability.go): which releases ship a     *)
(* component, built by the first caller that asks and shared by all.       *)
(*                                                                         *)
(* A caller is one file being checked: its rules ask the index, and        *)
(* lintConfig (pkg/lint/linter.go) then looks at the run's context before  *)
(* it lets the result out.  Callers of one Linter may run under different  *)
(* contexts, and any of them may be cancelled while it waits for the       *)
(* mutex, builds, or holds an answer.  One component is asked about.       *)
(***************************************************************************)
EXTENDS Integers, Sequences, FiniteSets

CONSTANTS
  Callers,     \* the files being checked
  RunOf,       \* RunOf[c]: the run, and so the context, c belongs to
  NumReleases, \* releases the registry serves, 1 the oldest
  ShipList,    \* the releases that ship the component, oldest first: Expand
               \* sorts the releases the registry serves
  Publishes,   \* whether the registry publishes components.json
  Remote,      \* store.Remote()
  WalkLimit,   \* walkLimit, 12 in the code
  NoOne        \* nobody holds the mutex

Releases == 1..NumReleases
Runs     == {RunOf[c] : c \in Callers}
Ships    == {ShipList[i] : i \in DOMAIN ShipList}

ASSUME IndexAssumption ==
  /\ NumReleases \in Nat
  /\ ShipList \in Seq(Releases)
  /\ Publishes \in BOOLEAN /\ Remote \in BOOLEAN
  /\ WalkLimit \in Nat \ {0}
  /\ NoOne \notin Callers
  /\ RunOf \in [Callers -> Runs]

ASSUME ShipListAssumption ==
  \A i, j \in DOMAIN ShipList : i < j => ShipList[i] < ShipList[j]

VARIABLES
  cancelled, \* the runs whose context is done
  mu,        \* who holds the mutex
  ready,     \* v.ready
  byKey,     \* v.byKey of the component: releases, in the order appended
  walk,      \* the builder's walk: releases still to load, loaded, failed
  aborted,   \* history: releases of the last build that failed to load only
             \* because the builder's run was cancelled
  pc,        \* where each caller is
  hint,      \* what each caller was answered
  result     \* what lintConfig returned for each caller

vars == <<cancelled, mu, ready, byKey, walk, aborted, pc, hint, result>>

NoWalk == [left |-> <<>>, loaded |-> {}, failed |-> {}]

Live(c) == RunOf[c] \notin cancelled

Init ==
  /\ cancelled = {}
  /\ mu = NoOne
  /\ ready = FALSE
  /\ byKey = <<>>
  /\ walk = NoWalk
  /\ aborted = {}
  /\ pc = [c \in Callers |-> "rules"]
  /\ hint = [c \in Callers |-> <<>>]
  /\ result = [c \in Callers |-> "pending"]

Goto(c, l) == pc' = [pc EXCEPT ![c] = l]

-----------------------------------------------------------------------------
(* Versions: the mutex, the context, the cache. *)

\* A rule asks, and waits for the mutex whatever its own context says.
Ask(c) ==
  /\ pc[c] = "rules"
  /\ Goto(c, "lock")
  /\ UNCHANGED <<cancelled, mu, ready, byKey, walk, aborted, hint, result>>

\* checkRules stops between two rules of a cancelled run.
BreakOff(c) ==
  /\ pc[c] = "rules"
  /\ ~Live(c)
  /\ Goto(c, "checked")
  /\ UNCHANGED <<cancelled, mu, ready, byKey, walk, aborted, hint, result>>

Lock(c) ==
  /\ pc[c] = "lock"
  /\ mu = NoOne
  /\ mu' = c
  /\ Goto(c, "locked")
  /\ UNCHANGED <<cancelled, ready, byKey, walk, aborted, hint, result>>

\* Return answer a, the deferred Unlock included.
Answer(c, a) ==
  /\ hint' = [hint EXCEPT ![c] = a]
  /\ Goto(c, "checked")
  /\ mu' = NoOne

AnswerNothing(c) ==
  /\ pc[c] = "locked"
  /\ ~Live(c)
  /\ Answer(c, <<>>)
  /\ UNCHANGED <<cancelled, ready, byKey, walk, aborted, result>>

AnswerReady(c) ==
  /\ pc[c] = "locked"
  /\ Live(c)
  /\ ready
  /\ Answer(c, byKey)
  /\ UNCHANGED <<cancelled, ready, byKey, walk, aborted, result>>

BeginBuildAnyway(c) ==
  /\ pc[c] = "locked"
  /\ Live(c)
  /\ byKey' = <<>>
  /\ walk' = NoWalk
  /\ aborted' = {}
  /\ Goto(c, "published")
  /\ UNCHANGED <<cancelled, mu, ready, hint, result>>
BeginBuild(c) ==
  /\ pc[c] = "locked"
  /\ Live(c)
  /\ ~ready
  /\ byKey' = <<>>
  /\ walk' = NoWalk
  /\ aborted' = {}
  /\ Goto(c, "published")
  /\ UNCHANGED <<cancelled, mu, ready, hint, result>>

\* v.ready = ctx.Err() == nil, and nothing is answered from a build that the
\* cancellation of its run may have cut short.
FinishBuildReady(c) ==
  /\ pc[c] = "built"
  /\ ready' = TRUE
  /\ Answer(c, byKey)
  /\ UNCHANGED <<cancelled, byKey, walk, aborted, result>>
FinishBuild(c) ==
  /\ pc[c] = "built"
  /\ ready' = Live(c)
  /\ Answer(c, IF Live(c) THEN byKey ELSE <<>>)
  /\ UNCHANGED <<cancelled, byKey, walk, aborted, result>>

-----------------------------------------------------------------------------
(* build: the published availability index, or the walk over the schemas. *)

\* components.json answers for every release the index lists, which is none
\* when the index cannot be read.
ReadPublished(c) ==
  /\ pc[c] = "published"
  /\ Publishes
  /\ \/ /\ byKey' = ShipList
        /\ UNCHANGED aborted
     \/ /\ byKey' = <<>>
        /\ aborted' = IF Live(c) THEN {} ELSE Releases
  /\ Goto(c, "built")
  /\ UNCHANGED <<cancelled, mu, ready, walk, hint, result>>

\* There is none, or it cannot be read: list the releases, newest first, keep
\* the newest few of a remote registry, and walk them backwards.
ListReleasesPastNewest(c) ==
  /\ pc[c] = "published"
  /\ \E n \in {0, NumReleases} :
       LET kept == IF Remote /\ n > WalkLimit THEN WalkLimit ELSE n
       IN  /\ walk' = [left |-> [i \in 1..kept |-> NumReleases - kept + i + 1],
                       loaded |-> {}, failed |-> {}]
           /\ aborted' = IF n = 0 /\ ~Live(c) THEN Releases ELSE {}
  /\ Goto(c, "walk")
  /\ UNCHANGED <<cancelled, mu, ready, byKey, hint, result>>
ListReleasesForward(c) ==
  /\ pc[c] = "published"
  /\ \E n \in {0, NumReleases} :
       LET kept == IF Remote /\ n > WalkLimit THEN WalkLimit ELSE n
       IN  /\ walk' = [left |-> [i \in 1..kept |-> NumReleases - i + 1],
                       loaded |-> {}, failed |-> {}]
           /\ aborted' = IF n = 0 /\ ~Live(c) THEN Releases ELSE {}
  /\ Goto(c, "walk")
  /\ UNCHANGED <<cancelled, mu, ready, byKey, hint, result>>
ListReleases(c) ==
  /\ pc[c] = "published"
  /\ \E n \in {0, NumReleases} :
       LET kept == IF Remote /\ n > WalkLimit THEN WalkLimit ELSE n
       IN  /\ walk' = [left |-> [i \in 1..kept |-> NumReleases - kept + i],
                       loaded |-> {}, failed |-> {}]
           /\ aborted' = IF n = 0 /\ ~Live(c) THEN Releases ELSE {}
  /\ Goto(c, "walk")
  /\ UNCHANGED <<cancelled, mu, ready, byKey, hint, result>>

LoadRelease(c) ==
  /\ pc[c] = "walk"
  /\ walk.left # <<>>
  /\ LET r == Head(walk.left)
     IN  /\ walk' = [left   |-> Tail(walk.left),
                     loaded |-> walk.loaded \cup {r},
                     failed |-> walk.failed]
         /\ byKey' = IF r \in Ships THEN Append(byKey, r) ELSE byKey
  /\ UNCHANGED <<cancelled, mu, ready, aborted, pc, hint, result>>

\* A release that cannot be read is counted and passed over, whether the
\* registry or the cancelled context is what failed it.
FailRelease(c) ==
  /\ pc[c] = "walk"
  /\ walk.left # <<>>
  /\ LET r == Head(walk.left)
     IN  /\ walk' = [left   |-> Tail(walk.left),
                     loaded |-> walk.loaded,
                     failed |-> walk.failed \cup {r}]
         /\ aborted' = IF Live(c) THEN aborted ELSE aborted \cup {r}
  /\ UNCHANGED <<cancelled, mu, ready, byKey, pc, hint, result>>

\* failed*2 >= len(versions) empties the index.
EndWalkLenient(c) ==
  /\ pc[c] = "walk"
  /\ walk.left = <<>>
  /\ byKey' = IF Cardinality(walk.failed) * 2 > Cardinality(walk.loaded \cup walk.failed)
              THEN <<>> ELSE byKey
  /\ Goto(c, "built")
  /\ UNCHANGED <<cancelled, mu, ready, walk, aborted, hint, result>>
EndWalk(c) ==
  /\ pc[c] = "walk"
  /\ walk.left = <<>>
  /\ byKey' = IF Cardinality(walk.failed) * 2 >= Cardinality(walk.loaded \cup walk.failed)
              THEN <<>> ELSE byKey
  /\ Goto(c, "built")
  /\ UNCHANGED <<cancelled, mu, ready, walk, aborted, hint, result>>

-----------------------------------------------------------------------------
(* lintConfig's last look at the context. *)

ReportUnchecked(c) ==
  /\ pc[c] = "checked"
  /\ result[c] = "pending"
  /\ result' = [result EXCEPT ![c] = "reported"]
  /\ UNCHANGED <<cancelled, mu, ready, byKey, walk, aborted, pc, hint>>
ReportAsksAgain(c) ==
  /\ pc[c] = "checked"
  /\ result[c] = "pending"
  /\ IF Live(c)
     THEN result' = [result EXCEPT ![c] = "reported"] /\ UNCHANGED pc
     ELSE Goto(c, "rules") /\ UNCHANGED result
  /\ UNCHANGED <<cancelled, mu, ready, byKey, walk, aborted, hint>>
Report(c) ==
  /\ pc[c] = "checked"
  /\ result[c] = "pending"
  /\ result' = [result EXCEPT ![c] = IF Live(c) THEN "reported" ELSE "cancelled"]
  /\ UNCHANGED <<cancelled, mu, ready, byKey, walk, aborted, pc, hint>>

-----------------------------------------------------------------------------

Cancel(r) ==
  /\ r \notin cancelled
  /\ cancelled' = cancelled \cup {r}
  /\ UNCHANGED <<mu, ready, byKey, walk, aborted, pc, hint, result>>

Terminated ==
  /\ \A c \in Callers : result[c] # "pending"
  /\ UNCHANGED vars

Caller(c) ==
  \/ Ask(c) \/ BreakOff(c) \/ Lock(c)
  \/ AnswerNothing(c) \/ AnswerReady(c) \/ BeginBuild(c)
  \/ ReadPublished(c) \/ ListReleases(c)
  \/ LoadRelease(c) \/ FailRelease(c) \/ EndWalk(c)
  \/ FinishBuild(c) \/ Report(c)

Next == (\E c \in Callers : Caller(c)) \/ (\E r \in Runs : Cancel(r)) \/ Terminated

\* Every goroutine that can run does, and every fetch and file read ends.  A
\* caller asks once here, so no one is overtaken at the mutex for ever.
Fairness == \A c \in Callers : WF_vars(Caller(c))

Spec == Init /\ [][Next]_vars /\ Fairness

-----------------------------------------------------------------------------
(* Properties. *)

\* The type of every variable.
TypeOK ==
  /\ cancelled \subseteq Runs
  /\ mu \in Callers \cup {NoOne}
  /\ ready \in BOOLEAN
  /\ byKey \in Seq(Releases)
  /\ walk \in [left : Seq(Releases), loaded : SUBSET Releases, failed : SUBSET Releases]
  /\ aborted \subseteq Releases
  /\ pc \in [Callers -> {"rules", "lock", "locked", "published", "walk", "built", "checked"}]
  /\ hint \in [Callers -> Seq(Releases)]
  /\ result \in [Callers -> {"pending", "reported", "cancelled"}]

\* What the index settles on is warranted: it says nothing, or what the
\* registry publishes, or exactly the shipping releases among the schemas of
\* a walk fewer than half of which failed - and none of them for no better
\* reason than that the building run was cancelled.
AnswerIsWarranted ==
  ready =>
    /\ aborted = {}
    /\ \/ byKey \in {<<>>, ShipList}
       \/ /\ {byKey[i] : i \in DOMAIN byKey} = Ships \cap walk.loaded
          /\ 2 * Cardinality(walk.failed) < Cardinality(walk.loaded \cup walk.failed)

\* A result that is let out rests on the settled index: whichever run built
\* it and whoever was cancelled meanwhile, two reported files never quote
\* different answers.
ReportedHintIsSettled ==
  \A c \in Callers : result[c] = "reported" => ready /\ hint[c] = byKey

\* "later questions use the cached map": once answered from, the index is
\* neither emptied nor rebuilt.
IndexNeverRebuilt == [][ready => ready' /\ byKey' = byKey]_vars

\* A hint names releases oldest first, as "added in ..." wants them.
HintsOldestFirst ==
  \A c \in Callers : \A i, j \in DOMAIN hint[c] : i < j => hint[c][i] < hint[c][j]

\* Every file comes to a result: no caller keeps the mutex, and no cancelled
\* build leaves the next caller waiting for it.
EveryFileSettles == \A c \in Callers : <>(result[c] # "pending")
=============================================================================
