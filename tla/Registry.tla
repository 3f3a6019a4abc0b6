------------------------------ MODULE Registry ------------------------------
(***************************************************************************)
(* The schema registry that schemagen fills (pkg/cmd/schemagen): the       *)
(* schemas of each distribution and release, the index that lists them and *)
(* the component index beside it, through a sequence of runs.              *)
(*                                                                         *)
(* A document is created empty and then written, so a failed write or a    *)
(* killed run leaves a torn one, and the next run starts from whatever is  *)
(* in the directory.  A schema is the number of the run that generated it. *)
(***************************************************************************)
EXTENDS Integers, Sequences, FiniteSets

CONSTANTS
  NumDists,    \* distributions, in the order a directory lists them
  NumReleases, \* releases upstream has made, 1 the oldest
  Requests,    \* manifest lists a run may be given, as <<distribution, release>>s
  FormatLists, \* what --formats may say, in the order they are written
  Retain,      \* --retain, 0 to keep every release
  Milestones,  \* the releases isMilestone keeps, however old
  MaxRuns      \* bound: runs

Dists    == 1..NumDists
Releases == 1..NumReleases

\* schema.Extensions, in the order a reader prefers them.
Extensions == <<"yaml", "json">>
Form       == {"yaml", "json"}

ASSUME RegistryAssumption ==
  /\ NumDists \in Nat \ {0} /\ NumReleases \in Nat \ {0} /\ MaxRuns \in Nat
  /\ Requests \subseteq Seq(Dists \X Releases)
  /\ FormatLists \subseteq Seq(Form) \ {<<>>}
  /\ Retain \in Nat /\ Milestones \subseteq Releases

VARIABLES
  file,    \* file[d][v][f]: the schema of that file, Absent or Torn
  index,   \* index.json: what it lists, and the extension it names
  comps,   \* components.json: for each distribution, the schemas described
  pc,      \* where the run is
  run,     \* runs started, and so the number of this one
  asked,   \* the manifests it was given
  formats, \* and its --formats
  todo,    \* those it has still to generate
  form,    \* the format it is writing
  skipped, \* whether it has skipped a manifest
  made,    \* whether it has generated one
  doomed,  \* the files pruning has still to remove
  outcome  \* how the last run ended

flags == <<run, asked, formats>>
work  == <<flags, todo, form, skipped, made, doomed>>
disk  == <<file, index, comps>>
vars  == <<disk, work, pc, outcome>>

Absent == 0
Torn   == -1
Unreadable == -2
Schema == {Absent, Torn} \cup 1..MaxRuns
NoDoc  == [state |-> "absent"]
TornDoc == [state |-> "torn"]

\* versionsIn: a release is held in any format, whatever is in the file.
Held(d) == {v \in Releases : \E f \in Form : file[d][v][f] # Absent}

\* drop: past the newest Retain, and no milestone.
DropOneMore(d) ==
  {v \in Held(d) \ Milestones : Cardinality({w \in Held(d) : w > v}) + 1 >= Retain}
Drop(d) ==
  {v \in Held(d) \ Milestones : Cardinality({w \in Held(d) : w > v}) >= Retain}

\* extensionIn: the first form of a release, when all releases agree on it.
FirstForm(d, v) == IF file[d][v]["yaml"] # Absent THEN "yaml" ELSE "json"
ExtensionOfNewest(d) ==
  FirstForm(d, CHOOSE v \in Held(d) : \A w \in Held(d) : w <= v)
ExtensionIn(d) ==
  LET forms == {FirstForm(d, v) : v \in Held(d)}
  IN  IF Cardinality(forms) = 1 THEN CHOOSE f \in forms : TRUE ELSE "none"

\* readRegistrySchema: the JSON form if there is one, which must parse whole;
\* a torn YAML may still parse.
Read(d, v) ==
  CASE file[d][v]["json"] = Torn -> {Unreadable}
    [] file[d][v]["json"] > 0    -> {file[d][v]["json"]}
    [] file[d][v]["json"] = Absent /\ file[d][v]["yaml"] = Torn -> {Unreadable, Torn}
    [] OTHER -> {file[d][v]["yaml"]}

Init ==
  /\ file = [d \in Dists |-> [v \in Releases |-> [f \in Form |-> Absent]]]
  /\ index = NoDoc /\ comps = NoDoc
  /\ pc = "idle" /\ run = 0
  /\ asked = <<>> /\ formats = <<>> /\ todo = <<>> /\ form = 1
  /\ skipped = FALSE /\ made = FALSE /\ doomed = {}
  /\ outcome = "none"

Goto(l) == pc' = l /\ UNCHANGED outcome
End(o) == pc' = "idle" /\ outcome' = o

-----------------------------------------------------------------------------
(* The manifests, one after the other. *)

\* run, its flags in order, given manifests ms.
Start ==
  /\ pc = "idle" /\ run < MaxRuns
  /\ \E ms \in Requests : asked' = ms /\ todo' = ms
  /\ formats' \in FormatLists
  /\ run' = run + 1
  /\ form' = 1 /\ skipped' = FALSE /\ made' = FALSE /\ doomed' = {}
  /\ outcome' = "none"
  /\ pc' = "generate"
  /\ UNCHANGED disk

\* A manifest that fails anywhere is skipped; what it wrote stays.
SkipSilently ==
  /\ todo' = Tail(todo) /\ form' = 1
  /\ UNCHANGED <<flags, skipped, made, doomed>>
  /\ Goto("generate")
Skip ==
  /\ todo' = Tail(todo) /\ form' = 1 /\ skipped' = TRUE
  /\ UNCHANGED <<flags, made, doomed>>
  /\ Goto("generate")

\* readManifest and build fail, or what they made has a bad destination.
BuildFails ==
  /\ pc = "generate" /\ todo # <<>> /\ form = 1
  /\ Skip
  /\ UNCHANGED disk

\* writeDoc creates the file of the next format, truncating the old one.
CreateSchema ==
  /\ pc = "generate" /\ todo # <<>>
  /\ \/ /\ file' = [file EXCEPT ![Head(todo)[1]][Head(todo)[2]][formats[form]] = Torn]
        /\ Goto("encode")
        /\ UNCHANGED work
     \/ Skip /\ UNCHANGED file
  /\ UNCHANGED <<index, comps>>

\* The schema is written and closed, or the write fails half-way.
EncodeSchemaKeepsForm ==
  /\ pc = "encode"
  /\ \/ /\ file' = [file EXCEPT ![Head(todo)[1]][Head(todo)[2]][formats[form]] = run]
        /\ form' = form + 1
        /\ IF form < Len(formats)
           THEN UNCHANGED <<todo, made>>
           ELSE todo' = Tail(todo) /\ made' = TRUE
        /\ Goto("generate")
        /\ UNCHANGED <<flags, skipped, doomed>>
     \/ Skip /\ UNCHANGED file
  /\ UNCHANGED <<index, comps>>
EncodeSchema ==
  /\ pc = "encode"
  /\ \/ /\ file' = [file EXCEPT ![Head(todo)[1]][Head(todo)[2]][formats[form]] = run]
        /\ IF form < Len(formats)
           THEN form' = form + 1 /\ UNCHANGED <<todo, made>>
           ELSE form' = 1 /\ todo' = Tail(todo) /\ made' = TRUE
        /\ Goto("generate")
        /\ UNCHANGED <<flags, skipped, doomed>>
     \/ Skip /\ UNCHANGED file
  /\ UNCHANGED <<index, comps>>

\* A run that made nothing publishes nothing.
Generated ==
  /\ pc = "generate" /\ todo = <<>>
  /\ IF made THEN Goto("prune") ELSE End("rejected")
  /\ doomed' = IF made /\ Retain > 0
               THEN UNION {{<<d, -v, k>> : v \in Drop(d), k \in DOMAIN Extensions} : d \in Dists}
               ELSE {}
  /\ UNCHANGED <<disk, flags, todo, form, skipped, made>>

-----------------------------------------------------------------------------
(* publishRegistry: prune, then the index, then the component index. *)

Before(x, y) ==
  \/ x[1] < y[1]
  \/ x[1] = y[1] /\ x[2] < y[2]
  \/ x[1] = y[1] /\ x[2] = y[2] /\ x[3] <= y[3]

\* By distribution, newest first, in the order of the formats.  A file that
\* is not there is no failure; one that cannot be removed ends the run.
Remove ==
  /\ pc = "prune" /\ doomed # {}
  /\ LET x == CHOOSE x \in doomed : \A y \in doomed : Before(x, y)
     IN  \/ /\ file' = [file EXCEPT ![x[1]][-x[2]][Extensions[x[3]]] = Absent]
            /\ doomed' = doomed \ {x}
            /\ UNCHANGED <<pc, outcome>>
         \/ /\ file[x[1]][-x[2]][Extensions[x[3]]] # Absent
            /\ End("failed")
            /\ UNCHANGED <<file, doomed>>
  /\ UNCHANGED <<index, comps, flags, todo, form, skipped, made>>

\* writeIndex lists the directory as it stands, then creates the document.
Listing ==
  [state |-> "whole",
   lists |-> [d \in Dists |-> Held(d)],
   ext   |-> [d \in Dists |-> IF Held(d) = {} THEN "none" ELSE ExtensionIn(d)]]

CreateIndex ==
  /\ pc = "prune" /\ doomed = {}
  /\ \/ index' = TornDoc /\ Goto("index")
     \/ End("failed") /\ UNCHANGED index
  /\ UNCHANGED <<file, comps, work>>

EncodeIndex ==
  /\ pc = "index"
  /\ \/ index' = Listing /\ Goto("components")
     \/ End("failed") /\ UNCHANGED index
  /\ UNCHANGED <<file, comps, work>>

\* spansIn reads every release of the index; a distribution one of whose
\* releases cannot be read is left out.
Readings(d) ==
  {r \in [index.lists[d] -> Schema \cup {Unreadable}] :
     \A v \in index.lists[d] : r[v] \in Read(d, v)}
DescribedPartly(d) ==
  {[v \in {v \in index.lists[d] : r[v] # Unreadable} |-> r[v]] : r \in Readings(d)}
Described(d) ==
  {IF \E v \in index.lists[d] : r[v] = Unreadable THEN <<>> ELSE r : r \in Readings(d)}

CreateComponents ==
  /\ pc = "components"
  /\ \/ comps' = TornDoc /\ Goto("spans")
     \/ End("failed") /\ UNCHANGED comps
  /\ UNCHANGED <<file, index, work>>

\* What it says of each distribution; then the summary, which may fail.
EncodeComponents ==
  /\ pc = "spans"
  /\ \/ /\ \E said \in [Dists -> UNION {Described(d) : d \in Dists}] :
             /\ \A d \in Dists : said[d] \in Described(d)
             /\ comps' = [state |-> "whole", said |-> said]
        /\ \/ End(IF skipped THEN "short" ELSE "ok")
           \/ End("failed")
     \/ End("failed") /\ UNCHANGED comps
  /\ UNCHANGED <<file, index, work>>

-----------------------------------------------------------------------------

\* The run is killed where it is.
Kill ==
  /\ pc # "idle"
  /\ End("killed")
  /\ UNCHANGED <<disk, work>>

Terminated == pc = "idle" /\ run = MaxRuns /\ UNCHANGED vars

Generate == BuildFails \/ CreateSchema \/ EncodeSchema \/ Generated
Publish  == Remove \/ CreateIndex \/ EncodeIndex \/ CreateComponents \/ EncodeComponents

Next == Start \/ Generate \/ Publish \/ Kill \/ Terminated

Spec == Init /\ [][Next]_vars

-----------------------------------------------------------------------------
(* Properties. *)

IsIndex(x) ==
  \/ x \in {NoDoc, TornDoc}
  \/ /\ x.state = "whole"
     /\ x.lists \in [Dists -> SUBSET Releases]
     /\ x.ext \in [Dists -> Form \cup {"none"}]

\* The type of every variable.
TypeOK ==
  /\ file \in [Dists -> [Releases -> [Form -> Schema]]]
  /\ IsIndex(index)
  /\ comps.state \in {"absent", "torn", "whole"}
  /\ pc \in {"idle", "generate", "encode", "prune", "index", "components", "spans"}
  /\ run \in 0..MaxRuns /\ (form = 1 \/ form \in DOMAIN formats)
  /\ asked \in Seq(Dists \X Releases) /\ formats \in Seq(Form) /\ todo \in Seq(Dists \X Releases)
  /\ skipped \in BOOLEAN /\ made \in BOOLEAN
  /\ \A x \in doomed : x[1] \in Dists /\ -x[2] \in Releases /\ x[3] \in DOMAIN Extensions
  /\ outcome \in {"none", "ok", "short", "rejected", "failed", "killed"}

\* "keep only the newest n releases", "never drop a milestone": however often
\* pruning is killed, fails and starts again, a release is lost only when it
\* is no milestone and n newer ones are still there.
RetentionIsKept ==
  [][\A d \in Dists : \A v \in Held(d) \ Held(d)' :
       v \notin Milestones /\ Cardinality({w \in Held(d)' : w > v}) >= Retain]_file

Published == pc = "idle" /\ outcome \in {"ok", "short"}

\* A run that published left an index of exactly the releases in the
\* directory, and the extension it names for a distribution is one every
\* release of it is there under.
IndexIsTheDirectory ==
  Published =>
    /\ index.state = "whole"
    /\ \A d \in Dists :
         /\ index.lists[d] = Held(d)
         /\ index.ext[d] # "none" => \A v \in Held(d) : file[d][v][index.ext[d]] # Absent

\* The component index describes the releases the index lists, all of them or
\* none: a release missing from it would read as a component that was dropped
\* and added back.
ComponentsFollowIndex ==
  Published =>
    /\ comps.state = "whole"
    /\ \A d \in Dists : comps.said[d] # <<>> =>
         /\ DOMAIN comps.said[d] = index.lists[d]
         /\ \A v \in index.lists[d] : \E f \in Form : comps.said[d][v] = file[d][v][f]

\* A run that publishes leaves indexes that describe the directory it leaves.
IndexesAreTheDirectory == IndexIsTheDirectory /\ ComponentsFollowIndex

\* "a registry is never quietly published a distribution short": a run that
\* ends well leaves every schema it was asked for, whole and its own, in every
\* form it was asked for, unless retention has dropped that release.
NeverQuietlyShort ==
  pc = "idle" /\ outcome = "ok" =>
    \A i \in DOMAIN asked :
      LET d == asked[i][1]
          v == asked[i][2]
      IN  \/ \A k \in DOMAIN formats : file[d][v][formats[k]] = run
          \/ Retain > 0 /\ v \notin Held(d)

\* "A rejected run must leave the registry and summary untouched"
\* (schemagen.go, run): no file of the registry is one it wrote.
RejectedRunTouchesNothing ==
  pc = "idle" /\ outcome = "rejected" =>
    \A d \in Dists : \A v \in Releases : \A f \in Form : file[d][v][f] # run
=============================================================================
