------------------------------ MODULE LintFile ------------------------------
(***************************************************************************)
(* The files of a run, one after the other, from the flags to the Result   *)
(* of each: the rule selection is resolved (prepareRules, Prepare, New), a *)
(* file is read, split into the collector configs it holds, and each is    *)
(* parsed and put through the rules (pkg/lint/linter.go, suppression.go,   *)
(* policy.go).  The Linter is made once and stays for every file.  The     *)
(* run's context may be done at any step, and is looked at where the code  *)
(* does.                                                                   *)
(*                                                                         *)
(* A config is a record [broken, finds, directives]: whether it parses,    *)
(* what each rule would find in it, as pairs of a line and the finding's   *)
(* own severity or "rule", and the directives by the line they stand on.   *)
(***************************************************************************)
EXTENDS RulePolicy

CONSTANTS
  Cases, \* what a run may be given, as records [file, flags, ignoreMissing,
         \* minSeverity, failOn, path, embedded, manifest, docs]: docs holds
         \* the configs of each document, or Malformed
  Malformed,
  FilesBeside(_) \* the cases a run may go on to from one of its own

IsSeq(s) == Len(s) \in Nat /\ DOMAIN s = 1..Len(s)
IsConfig(config) ==
  /\ config.broken \in BOOLEAN
  /\ \A r \in Rules : \A f \in config.finds[r] :
       f[1] \in Int /\ f[2] \in {"rule"} \cup (Severity \ {"off"})
  /\ DOMAIN config.directives \subseteq Int

\* The levels of a selection are ones ParseSeverity lets through.
Leveled(sel) == \A r \in DOMAIN sel.severity : sel.severity[r] \in Severity

ASSUME CaseAssumption == \A c \in Cases :
  /\ c.embedded \in BOOLEAN /\ c.manifest \in BOOLEAN
  /\ IsSeq(c.file.overrides) /\ IsSeq(c.docs)
  /\ Leveled(c.file) /\ Leveled(c.flags)
  /\ \A i \in DOMAIN c.file.overrides : Leveled(c.file.overrides[i])
  /\ \A d \in DOMAIN c.docs : c.docs[d] # Malformed =>
       IsSeq(c.docs[d]) /\ \A b \in DOMAIN c.docs[d] : IsConfig(c.docs[d][b])
  /\ ~c.embedded => Len(c.docs) = 1 /\ c.docs[1] # Malformed /\ Len(c.docs[1]) = 1

\* Two files of one run.
SameRun(c, d) ==
  /\ d.file = c.file /\ d.flags = c.flags /\ d.ignoreMissing = c.ignoreMissing
  /\ d.minSeverity = c.minSeverity /\ d.failOn = c.failOn

ASSUME FilesAssumption ==
  \A c \in Cases : \A d \in FilesBeside(c) : d \in Cases /\ SameRun(c, d)

VARIABLES
  case,      \* the run's input, and the file it is at
  cancelled, \* whether the run's context is done
  pc,        \* where the run is
  global,    \* the Linter's severities
  view,      \* those of the file's view of the Linter
  explicit,  \* the file's explicit levels
  doc, at,   \* documents decoded, and configs of the last one taken up
  ran,       \* rules that have run on the config
  cur,       \* the Result of the config being checked
  result     \* the Result of the file

input  == <<case, doc, at>>
levels == <<global, view, explicit>>
vars   == <<input, cancelled, pc, levels, ran, cur, result>>

\* Results; diagnostics carry the config they are about.
Result(status, diagnostics) == [status |-> status, diagnostics |-> diagnostics]
ErrorResult == Result("error", {})
Skipped     == Result("skipped", {})

Init ==
  /\ case \in Cases
  /\ cancelled = FALSE
  /\ pc = "flags"
  /\ global = AllAt("off", {}) /\ view = global /\ explicit = global
  /\ doc = 0 /\ at = 0
  /\ ran = 0 /\ cur = Skipped /\ result = Skipped

Goto(l) == pc' = l /\ UNCHANGED result
Done(r) == pc' = "done" /\ result' = r

-----------------------------------------------------------------------------
(* The command's flags, and the Linter made of them. *)

Selection(c) == RuleSelection(c.file, c.flags)
NoRun(c)     == Rejected(Selection(c)) \/ PolicyRejected(c.file, c.flags)

Prepare ==
  /\ pc = "flags"
  /\ IF NoRun(case)
     THEN Goto("rejected") /\ UNCHANGED global
     ELSE Goto("linter") /\ global' = Global(Selection(case), case.ignoreMissing)
  /\ UNCHANGED <<input, cancelled, view, explicit, ran, cur>>

-----------------------------------------------------------------------------
(* LintFile, LintReader and Lint: read the source, see what it is. *)

Enter ==
  /\ pc = "linter"
  /\ IF cancelled THEN Done(ErrorResult) ELSE Goto("read")
  /\ UNCHANGED <<input, cancelled, levels, ran, cur>>

Read ==
  /\ pc = "read"
  /\ Goto("lint") \/ Done(ErrorResult)
  /\ UNCHANGED <<input, cancelled, levels, ran, cur>>

\* The config taken up.
Config == case.docs[doc][at]

Dispatch ==
  /\ pc = "lint"
  /\ CASE cancelled ->
            Done(ErrorResult) /\ UNCHANGED input
       [] ~cancelled /\ case.embedded ->
            Goto("doc") /\ UNCHANGED input
       [] ~cancelled /\ ~case.embedded /\ case.manifest ->
            Done(Skipped) /\ UNCHANGED input
       [] OTHER ->
            Goto("parse") /\ doc' = 1 /\ at' = 1 /\ UNCHANGED case
  /\ UNCHANGED <<cancelled, levels, ran, cur>>

-----------------------------------------------------------------------------
(* lintEmbedded and lintConfigMap: the documents, and the configs in each. *)

NextDocument ==
  /\ pc = "doc"
  /\ IF cancelled THEN Done(ErrorResult) ELSE Goto("decode")
  /\ UNCHANGED <<input, cancelled, levels, ran, cur>>

\* The context is looked at before what the decoder answered.
Decode ==
  /\ pc = "decode"
  /\ CASE cancelled ->
            Done(ErrorResult) /\ UNCHANGED input
       [] ~cancelled /\ doc = Len(case.docs) ->
            Done(result) /\ UNCHANGED input
       [] ~cancelled /\ doc < Len(case.docs) /\ case.docs[doc + 1] = Malformed ->
            Done(ErrorResult) /\ UNCHANGED input
       [] OTHER ->
            Goto("block") /\ doc' = doc + 1 /\ at' = 0 /\ UNCHANGED case
  /\ UNCHANGED <<cancelled, levels, ran, cur>>

NextBlock ==
  /\ pc = "block"
  /\ IF cancelled \/ at = Len(case.docs[doc])
     THEN Goto("doc") /\ UNCHANGED at
     ELSE Goto("parse") /\ at' = at + 1
  /\ UNCHANGED <<case, doc, cancelled, levels, ran, cur>>

\* What lintConfig returned: the file's Result, or merged into it.
Merged(res, checked) ==
  Result(IF res.status = "skipped" \/ checked.status = "invalid" THEN checked.status ELSE res.status,
         res.diagnostics \cup checked.diagnostics)

Conclude(checked) ==
  IF case.embedded
  THEN pc' = "block" /\ result' = Merged(result, checked)
  ELSE Done(checked)

-----------------------------------------------------------------------------
(* lintConfig: parse, take the file's view of the policy, run the rules. *)

AddFinding(r, d) ==
  Result(IF AtLeast(d.severity, case.failOn) THEN "invalid" ELSE r.status,
         IF AtLeast(d.severity, case.minSeverity) THEN r.diagnostics \cup {d} ELSE r.diagnostics)

AddFindings(r, ds) ==
  Result(IF \E d \in ds : AddFinding(r, d).status = "invalid" THEN "invalid" ELSE r.status,
         r.diagnostics \cup UNION {AddFinding(r, d).diagnostics : d \in ds})

Diagnostic(place, rule, line, severity) ==
  [config |-> place, rule |-> rule, line |-> line, severity |-> severity]

\* suppressions: a directive that names a rule excepts it on the next line,
\* any other is a finding of its own.
Suppressed(config, line) ==
  IF line - 1 \in DOMAIN config.directives /\ config.directives[line - 1] \in Rules
  THEN {config.directives[line - 1]} ELSE {}
BadDirectives(place, config) ==
  {Diagnostic(place, "invalid-suppression", l, "error") :
     l \in {k \in DOMAIN config.directives : config.directives[k] \notin Rules}}

\* What becomes of the Linter's own severities when forPath makes a file's view
\* of them: it writes into a clone.
OwnAfterUncloned(policy) == ForPath(global, policy)
OwnAfter(policy) == global

SyntaxFinding(place) == Diagnostic(place, "syntax", 1, "error")

Parse ==
  /\ pc = "parse"
  /\ CASE cancelled ->
            Conclude(ErrorResult) /\ UNCHANGED <<levels, ran, cur>>
       [] ~cancelled /\ Config.broken ->
            /\ Conclude(Result("invalid", {SyntaxFinding(<<doc, at>>)}))
            /\ UNCHANGED <<levels, ran, cur>>
       [] OTHER ->
            LET policy == Policy(case.file, case.flags, case.path)
            IN  /\ explicit' = Explicit(global, policy)
                /\ view' = ForPath(global, policy)
                /\ ran' = 0
                /\ cur' = AddFindings(Result("valid", {}), BadDirectives(<<doc, at>>, Config))
                /\ Goto("rules")
                /\ global' = OwnAfter(policy)
  /\ UNCHANGED <<input, cancelled>>

\* rule.Run and Report: nothing at level off; the finding's own severity
\* before the rule's level, and the file's explicit one before either.
Found(place, config, r) ==
  IF LevelOf(view, r) = "off" THEN {}
  ELSE {Diagnostic(place, r, f[1],
                   IF r \in DOMAIN explicit THEN explicit[r]
                   ELSE IF f[2] # "rule" THEN f[2] ELSE LevelOf(view, r)) :
          f \in config.finds[r]}

CheckRule ==
  /\ pc = "rules"
  /\ ran < Len(RuleList)
  /\ IF cancelled
     THEN Goto("checked") /\ UNCHANGED <<ran, cur>>
     ELSE LET r == RuleList[ran + 1]
          IN  /\ ran' = ran + 1
              /\ cur' = AddFindings(cur, {d \in Found(<<doc, at>>, Config, r) :
                                            r \notin Suppressed(Config, d.line)})
              /\ Goto("rules")
  /\ UNCHANGED <<input, cancelled, levels>>

RulesDone ==
  /\ pc = "rules"
  /\ ran = Len(RuleList)
  /\ Goto("checked")
  /\ UNCHANGED <<input, cancelled, levels, ran, cur>>

\* The last look at the context before the Result is let out.
LastLookSkipped ==
  /\ pc = "checked"
  /\ Conclude(cur)
  /\ UNCHANGED <<input, cancelled, levels, ran, cur>>
LastLook ==
  /\ pc = "checked"
  /\ Conclude(IF cancelled THEN ErrorResult ELSE cur)
  /\ UNCHANGED <<input, cancelled, levels, ran, cur>>

-----------------------------------------------------------------------------

\* A worker of LintAll, or the command after standard input, hands the Linter
\* another file: all but its own severities starts anew.
NextFile ==
  /\ pc = "done"
  /\ case' \in FilesBeside(case)
  /\ pc' = "linter"
  /\ view' = AllAt("off", {}) /\ explicit' = AllAt("off", {})
  /\ doc' = 0 /\ at' = 0 /\ ran' = 0
  /\ cur' = Skipped /\ result' = Skipped
  /\ UNCHANGED <<cancelled, global>>

Cancel ==
  /\ ~cancelled /\ pc \notin {"done", "rejected"}
  /\ cancelled' = TRUE
  /\ UNCHANGED <<input, pc, levels, ran, cur, result>>

Terminated == pc \in {"done", "rejected"} /\ UNCHANGED vars

Step ==
  \/ Prepare \/ Enter \/ Read \/ Dispatch
  \/ NextDocument \/ Decode \/ NextBlock
  \/ Parse \/ CheckRule \/ RulesDone \/ LastLook
  \/ NextFile

Next == Step \/ Cancel \/ Terminated

Spec == Init /\ [][Next]_vars

-----------------------------------------------------------------------------
(* Properties. *)

IsLevels(f) == DOMAIN f \subseteq Rules /\ \A r \in DOMAIN f : f[r] \in Severity

IsResult(r) ==
  /\ r.status \in {"valid", "invalid", "error", "skipped"}
  /\ \A d \in r.diagnostics :
       /\ d.rule \in Rules \cup {"invalid-suppression", "syntax"}
       /\ d.severity \in Severity \ {"off"}

\* The type of every variable.
TypeOK ==
  /\ cancelled \in BOOLEAN
  /\ pc \in {"flags", "rejected", "linter", "read", "lint", "doc", "decode", "block",
             "parse", "rules", "checked", "done"}
  /\ IsLevels(global) /\ IsLevels(view) /\ IsLevels(explicit)
  /\ doc \in 0..Len(case.docs) /\ at \in 0..(IF doc = 0 THEN 0 ELSE Len(case.docs[doc]))
  /\ ran \in 0..Len(RuleList)
  /\ IsResult(cur) /\ IsResult(result)

(* What the documents promise, said without the order the code goes about    *)
(* it.  docs/configuration.md: flags win over the file, an explicit level    *)
(* over enabling and disabling, a file exception over the file's own level   *)
(* unless a flag names the rule, and nothing enables what is globally off.   *)

Starting(c) == IF c.flags.default = "unset" THEN c.file.default ELSE c.flags.default

PromisedGlobal(c, r) ==
  IF r \in DOMAIN c.flags.severity THEN c.flags.severity[r]
  ELSE IF r \in DOMAIN c.file.severity THEN c.file.severity[r]
  ELSE IF r \in c.file.disable \cup c.flags.disable THEN "off"
  ELSE IF r \in c.file.enable \cup c.flags.enable THEN OwnLevel[r]
  ELSE IF Starting(c) = "none" \/ (c.ignoreMissing /\ r = Ignorable) THEN "off"
  ELSE OwnLevel[r]

\* The exception the file makes for rule r on the case's path, if any.
ExceptionFor(c, r) ==
  {IF r \in DOMAIN o.severity THEN o.severity[r] ELSE "off" :
     o \in {c.file.overrides[i] :
              i \in {k \in DOMAIN c.file.overrides :
                       /\ c.path # Stdin
                       /\ c.path \in c.file.overrides[k].paths
                       /\ \A j \in 1..(k - 1) : c.path \notin c.file.overrides[j].paths
                       /\ r \in c.file.overrides[k].disable \cup DOMAIN c.file.overrides[k].severity
                       /\ r \notin c.flags.enable \cup c.flags.disable}}}

PromisedLevel(c, r) ==
  IF r \in DOMAIN c.flags.severity \/ PromisedGlobal(c, r) = "off" \/ ExceptionFor(c, r) = {}
  THEN PromisedGlobal(c, r)
  ELSE CHOOSE s \in ExceptionFor(c, r) : TRUE

\* Whether a level was written for the rule, which a finding's own severity
\* then does not escape.
Written(c, r) ==
  \/ r \in DOMAIN c.flags.severity \cup DOMAIN c.file.severity
  \/ ExceptionFor(c, r) # {}

\* Whatever the settings file, the flags and the overrides say, and whatever
\* files the Linter has checked before, a file is checked at the levels the
\* documentation promises.
LevelsAsPromised ==
  pc = "rules" => \A r \in Rules : LevelOf(view, r) = PromisedLevel(case, r)

\* The findings of a rule in a config that no directive excepts.
Surviving(c, place, config, r) ==
  IF PromisedLevel(c, r) = "off" THEN {}
  ELSE {Diagnostic(place, r, f[1],
                   IF f[2] = "rule" \/ Written(c, r) THEN PromisedLevel(c, r) ELSE f[2]) :
          f \in {g \in config.finds[r] :
                   ~ \E l \in DOMAIN config.directives :
                       l + 1 = g[1] /\ config.directives[l] = r}}

Places(c) == UNION {{<<d, b>> : b \in DOMAIN c.docs[d]} : d \in DOMAIN c.docs}
ConfigAt(c, p) == c.docs[p[1]][p[2]]

\* What is promised of the configs in some places of the file.
Findings(c, p) ==
  BadDirectives(p, ConfigAt(c, p)) \cup UNION {Surviving(c, p, ConfigAt(c, p), r) : r \in Rules}
PromisedOf(c, places) ==
  LET whole == {p \in places : ~ConfigAt(c, p).broken}
      all   == UNION {Findings(c, p) : p \in whole}
  IN  IF places = {}
      THEN Skipped
      ELSE Result(IF whole # places \/ \E d \in all : AtLeast(d.severity, c.failOn)
                  THEN "invalid" ELSE "valid",
                  {d \in all : AtLeast(d.severity, c.minSeverity)}
                    \cup {SyntaxFinding(p) : p \in places \ whole})

Promised(c) == IF c.manifest /\ ~c.embedded THEN Skipped ELSE PromisedOf(c, Places(c))

\* A Result that is no error is the whole verdict on the file: every config in
\* it, every rule that is on, every finding no directive excepts, at its
\* promised level - whenever the run was cancelled, however the findings are
\* filtered, and whatever order the configs came in.
VerdictIsWhole ==
  pc = "done" /\ result.status # "error" => result = Promised(case)
=============================================================================
