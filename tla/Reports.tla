------------------------------ MODULE Reports -------------------------------
(***************************************************************************)
(* The five reports of a run (pkg/lint/output.go), as operators: what each *)
(* formatter is given, a result at a time and then the summary, and what   *)
(* it leaves written.                                                      *)
(*                                                                         *)
(* A result is [path, status, findings, coverage], a finding [rule,        *)
(* severity, line]; "none" is no coverage.  Paths and rules are their      *)
(* places in the order of their names, 0 the empty one.  A line of a       *)
(* report is what it is about; wording, colours and escapes are left out.  *)
(***************************************************************************)
EXTENDS Integers, Sequences, SequencesExt, FiniteSets, Asking, TLC

CONSTANTS
  RuleNames,       \* a set of positive numbers
  AnnotationLimit  \* how many annotations of one level GitHub shows of a step

ASSUME ReportsAssumption == IsFiniteSet(RuleNames) /\ RuleNames \subseteq Nat /\ AnnotationLimit \in Nat

\* The findings of a result with a field of a value, and how many they are.
Number(findings, field, value) == Cardinality({i \in DOMAIN findings : findings[i][field] = value})

\* The members of a finite set, each after as many as come before it.
Sorted(S, before) ==
  [k \in 1..Cardinality(S) |-> CHOOSE x \in S : Cardinality({y \in S : <<y, x>> \in before}) = k - 1]

-----------------------------------------------------------------------------
(* Summary.Add *)
Incomplete(r) == r.coverage \notin {"none", "complete"}

NoTally == [valid |-> 0, invalid |-> 0, errors |-> 0, skipped |-> 0, warnings |-> 0, infos |-> 0, incomplete |-> 0]

AddResult(s, r) ==
  LET One(holds) == IF holds THEN 1 ELSE 0
  IN  [valid      |-> s.valid + One(r.status = "valid"),
       invalid    |-> s.invalid + One(r.status = "invalid"),
       errors     |-> s.errors + One(r.status = "error"),
       skipped    |-> s.skipped + One(r.status = "skipped"),
       warnings   |-> s.warnings + Number(r.findings, "severity", "warning"),
       infos      |-> s.infos + Number(r.findings, "severity", "info"),
       incomplete |-> s.incomplete + One(Incomplete(r))]

-----------------------------------------------------------------------------
(* text: lines as results arrive, and counts of the rules in them. *)
NoText == [lines |-> <<>>, counts |-> [rule \in RuleNames |-> 0]]

About(what, r) == [what |-> what, path |-> r.path]
FindingLines(r) ==
  [i \in DOMAIN r.findings |-> [what |-> "finding", path |-> r.path, finding |-> r.findings[i]]]

TextLinesIfChecked(verbose, r) ==
  CASE r.status = "error"   -> <<About("error", r)>>
    [] r.status = "skipped" -> IF verbose THEN <<About("skipped", r)>> ELSE <<>>
    [] r.status = "valid" /\ ~Incomplete(r) -> IF verbose THEN <<About("valid", r)>> ELSE <<>>
    [] OTHER -> FindingLines(r) \o (IF Incomplete(r) THEN <<About("coverage", r)>> ELSE <<>>)
TextLines(verbose, r) ==
  CASE r.status = "error"   -> <<About("error", r)>>
    [] r.status = "skipped" -> IF verbose THEN <<About("skipped", r)>> ELSE <<>>
    [] r.status = "valid" /\ r.findings = <<>> /\ ~Incomplete(r) -> IF verbose THEN <<About("valid", r)>> ELSE <<>>
    [] OTHER -> FindingLines(r) \o (IF Incomplete(r) THEN <<About("coverage", r)>> ELSE <<>>)

TextResult(opts, f, r) ==
  [lines  |-> f.lines \o TextLines(opts.verbose, r),
   counts |-> IF opts.summary
              THEN [rule \in RuleNames |-> f.counts[rule] + Number(r.findings, "rule", rule)] ELSE f.counts]

\* ruleSummary: the commonest rule first, and by name among equals.
RuleSummary(counts) ==
  LET seen == {rule \in RuleNames : counts[rule] > 0}
      Before(a, b) == counts[a] > counts[b] \/ (counts[a] = counts[b] /\ a < b)
  IN  Sorted(seen, {p \in seen \X seen : Before(p[1], p[2])})

TextReport(opts, f, tally) ==
  [lines |-> f.lines, counts |-> f.counts,
   tally |-> IF opts.summary THEN <<tally>> ELSE <<>>,
   rules |-> IF opts.summary THEN RuleSummary(f.counts) ELSE <<>>]

-----------------------------------------------------------------------------
JsonResult(opts, files, r) ==
  IF r.status = "valid" /\ r.findings = <<>> /\ r.coverage = "none" /\ ~opts.verbose THEN files ELSE Append(files, r)

JsonReport(files, tally) == [files |-> files, tally |-> tally]

-----------------------------------------------------------------------------
(* junit: a case for each file, failed by its findings, or by having       *)
(* failed with none of them shown.                                         *)
Threshold == 0
JunitCaseAsFound(r) ==
  [path |-> r.path, error |-> r.status = "error",
   failures |-> IF r.status # "invalid" THEN <<>> ELSE [i \in DOMAIN r.findings |-> r.findings[i].rule]]
JunitCase(r) ==
  [path |-> r.path, error |-> r.status = "error",
   failures |-> IF r.status # "invalid" THEN <<>>
                ELSE IF r.findings = <<>> THEN <<Threshold>>
                ELSE [i \in DOMAIN r.findings |-> r.findings[i].rule]]

JunitReport(cases, tally) ==
  [tests |-> Len(cases), failures |-> tally.invalid, errors |-> tally.errors, cases |-> cases]

-----------------------------------------------------------------------------
(* tap: numbered tests, each with comments below it. *)
NoTap == [n |-> 0, lines |-> <<>>]

TestLine(n, r) ==
  [what |-> "test", n |-> n, ok |-> r.status \notin {"invalid", "error"}, path |-> r.path,
   skip |-> r.status = "skipped"]

TapResult(f, r) ==
  LET message == IF r.status = "error" THEN <<About("message", r)>> ELSE <<>>
  IN  [n |-> f.n + 1, lines |-> Append(f.lines, TestLine(f.n + 1, r)) \o message \o FindingLines(r)]

-----------------------------------------------------------------------------
(* github: annotations, collected and picked level by level at the end. *)
Levels == <<"error", "warning", "notice">>

AnnotationsOf(r) ==
  IF r.status = "error" THEN <<[level |-> "error", rule |-> 0, path |-> r.path, line |-> 0]>>
  ELSE [i \in DOMAIN r.findings |->
          [level |-> IF r.findings[i].severity = "info" THEN "notice" ELSE r.findings[i].severity,
           rule |-> r.findings[i].rule, path |-> r.path, line |-> r.findings[i].line]]

AnnotationBefore(a, b) ==
  \/ a.rule < b.rule
  \/ a.rule = b.rule /\ a.path < b.path
  \/ a.rule = b.rule /\ a.path = b.path /\ a.line < b.line

\* The places of the annotations of a level, in a stable order of them.
OfLevel(annotations, level) == {i \in DOMAIN annotations : annotations[i].level = level}

InOrder(annotations, level) ==
  LET places == OfLevel(annotations, level)
      Before(i, j) ==
        \/ AnnotationBefore(annotations[i], annotations[j])
        \/ ~AnnotationBefore(annotations[j], annotations[i]) /\ i < j
  IN  Sorted(places, {p \in places \X places : Before(p[1], p[2])})

\* pickAnnotations: one for each file, one for each rule in each file, and the
\* rest, each pass in order and while there is room.
Fits(candidates, limit, pass, picked, i) ==
  /\ i \notin ToSet(picked)
  /\ Len(picked) < limit
  /\ pass = "file" => \A j \in ToSet(picked) : candidates[j].path # candidates[i].path
  /\ pass = "rule" => \A j \in ToSet(picked) : \/ candidates[j].path # candidates[i].path
                                               \/ candidates[j].rule # candidates[i].rule

Pass(candidates, limit, pass, picked) ==
  LET after[i \in 0..Len(candidates)] ==
        IF i = 0 THEN picked
        ELSE IF Fits(candidates, limit, pass, after[i - 1], i) THEN Append(after[i - 1], i)
        ELSE after[i - 1]
  IN  after[Len(candidates)]

PickAnnotationsInOrder(candidates, limit) == Pass(candidates, limit, "rest", <<>>)
PickAnnotationsByFile(candidates, limit)  == Pass(candidates, limit, "rest", Pass(candidates, limit, "file", <<>>))
PickAnnotations(candidates, limit) ==
  LET files == Pass(candidates, limit, "file", <<>>)
      rules == Pass(candidates, limit, "rule", files)
  IN  Pass(candidates, limit, "rest", rules)

\* writeAnnotations, with the line that owns up to what is left out.
WriteAnnotations(annotations, level) ==
  LET order == InOrder(annotations, level)
      candidates == [k \in DOMAIN order |-> annotations[order[k]]]
      limit == IF level # "notice" /\ Len(candidates) > AnnotationLimit THEN AnnotationLimit ELSE Len(candidates)
      picked == PickAnnotations(candidates, limit)
  IN  [level |-> level, shown |-> [k \in DOMAIN picked |-> candidates[picked[k]]],
       notice |-> IF Len(picked) < Len(candidates) THEN <<[shown |-> Len(picked), of |-> Len(candidates)]>> ELSE <<>>]

GithubReport(opts, annotations, tally) ==
  [levels |-> [i \in DOMAIN Levels |-> WriteAnnotations(annotations, Levels[i])],
   tally  |-> IF opts.summary THEN <<tally>> ELSE <<>>]

-----------------------------------------------------------------------------
(* The reports made of the results of one run, each formatter given them   *)
(* in turn, held against what was found.                                   *)
NothingReported ==
  [tally |-> NoTally, text |-> NoText, files |-> <<>>, cases |-> <<>>, tap |-> NoTap, annotations |-> <<>>]

ReportResult(opts, f, r) ==
  [tally |-> AddResult(f.tally, r), text |-> TextResult(opts, f.text, r), files |-> JsonResult(opts, f.files, r),
   cases |-> Append(f.cases, JunitCase(r)), tap |-> TapResult(f.tap, r),
   annotations |-> f.annotations \o AnnotationsOf(r)]

Reporting(opts, results) ==
  LET after[k \in 0..Len(results)] ==
        IF k = 0 THEN NothingReported ELSE ReportResult(opts, after[k - 1], results[k])
  IN  after[Len(results)]

Finish(opts, f) ==
  [tally  |-> f.tally,
   text   |-> TextReport(opts, f.text, f.tally),
   json   |-> JsonReport(f.files, f.tally),
   junit  |-> JunitReport(f.cases, f.tally),
   tap    |-> f.tap,
   github |-> GithubReport(opts, f.annotations, f.tally)]

Report ==
  /\ Asked("report")
  /\ answer' = Finish(task.opts, Reporting(task.opts, task.results))
  /\ UNCHANGED task

ReportStep == Report

-----------------------------------------------------------------------------
(* What may be reported: a file that was not checked has no findings. *)
Diagnostics == [rule : RuleNames, severity : {"error", "warning", "info"}, line : Nat]

IsReport(t) ==
  /\ t.of = "report" /\ t.results \in Seq(ToSet(t.results))
  /\ \A i \in DOMAIN t.results :
       LET r == t.results[i]
       IN  /\ r.path \in Nat /\ r.findings \in Seq(Diagnostics)
           /\ r.status \in {"valid", "invalid"} \/ (r.status \in {"error", "skipped"} /\ r.findings = <<>>)

-----------------------------------------------------------------------------
Reported == Answered("report")
Fails(r) == r.status \in {"invalid", "error"}
Times(s, x) == Cardinality({i \in DOMAIN s : s[i] = x})
Among(s, P(_)) == {i \in DOMAIN s : P(s[i])}
LinesOf(lines, what) == FlattenSeq([i \in DOMAIN lines |-> IF lines[i].what = what THEN <<lines[i]>> ELSE <<>>])

\* What the exit code says of each file is said in every report that has a
\* place for each: a case fails, or a test is not ok, exactly when its file
\* does, with findings or without; the counts are those of the cases, the plan
\* counts the tests and they are numbered through.  The lines and annotations
\* pass a failing file over only if none of its findings was to be shown
\* ("File failed the configured severity threshold; diagnostics were filtered
\* out", junitFormatter.Result; tapFormatter, textFormatter).
FailuresAreTold ==
  Reported =>
    LET junit == answer.junit
        tests == LinesOf(answer.tap.lines, "test")
        Failed(c) == c.failures # <<>>
        Errored(c) == c.error
    IN  /\ junit.failures = Cardinality(Among(junit.cases, Failed))
        /\ junit.errors = Cardinality(Among(junit.cases, Errored))
        /\ answer.tap.n = Len(tests) /\ Len(tests) = Len(task.results)
        /\ \A i \in DOMAIN task.results :
             LET r == task.results[i]
             IN  /\ (Failed(junit.cases[i]) \/ Errored(junit.cases[i])) = Fails(r)
                 /\ tests[i].n = i /\ tests[i].path = r.path /\ tests[i].ok = ~Fails(r)
                 /\ Fails(r) => \E k \in DOMAIN answer.json.files : answer.json.files[k] = r
                 /\ Fails(r) /\ (r.status = "error" \/ r.findings # <<>>) =>
                      \E k \in DOMAIN answer.text.lines :
                        answer.text.lines[k].path = r.path /\ answer.text.lines[k].what \in {"error", "finding"}

\* Every finding is shown once by each report that shows findings, those of a
\* file that passed among them, and the counts by rule and by severity are of
\* what is shown ("ruleSummary counts only diagnostics that Result actually
\* rendered").
FindingLinesOf(results) == FlattenSeq([i \in DOMAIN results |-> FindingLines(results[i])])
FindingsAreShown ==
  Reported =>
    LET found == FindingLinesOf(task.results)
        text == LinesOf(answer.text.lines, "finding")
        OfRule(rule) == Cardinality({i \in DOMAIN text : text[i].finding.rule = rule})
    IN  /\ text = found /\ LinesOf(answer.tap.lines, "finding") = found /\ FindingLinesOf(answer.json.files) = found
        /\ task.opts.summary =>
             /\ \A rule \in RuleNames : answer.text.counts[rule] = OfRule(rule)
             /\ ToSet(answer.text.rules) = {rule \in RuleNames : OfRule(rule) > 0}
             /\ \A i, j \in DOMAIN answer.text.rules :
                  i < j => OfRule(answer.text.rules[i]) >= OfRule(answer.text.rules[j])
             /\ answer.tally.warnings = Cardinality({i \in DOMAIN text : text[i].finding.severity = "warning"})

\* No more annotations of a level are made than GitHub shows, so that it is
\* never GitHub that picks; what is left out is owned up to, and nothing is
\* left out for another of a file, or of a rule in a file, that has one
\* already: later files keep theirs ("gives each file a slot, then each rule in
\* each file", pickAnnotations).
AnnotationsAreSpread ==
  Reported =>
    \A n \in DOMAIN Levels :
      LET level == answer.github.levels[n]
          found == FlattenSeq([i \in DOMAIN task.results |-> AnnotationsOf(task.results[i])])
          all   == {i \in DOMAIN found : found[i].level = Levels[n]}
          Of(a) == Cardinality({i \in all : found[i] = a})
          shown == level.shown
          Left  == {found[i] : i \in {j \in all : Times(shown, found[j]) < Of(found[j])}}
          Spent(same(_, _)) ==  \* a second one of a kind
            \E i, j \in DOMAIN shown : i # j /\ same(shown[i], shown[j])
          OfFile(a, b) == a.path = b.path
          OfRule(a, b) == a.path = b.path /\ a.rule = b.rule
      IN  /\ \A a \in ToSet(shown) : Times(shown, a) <= Of(a)
          /\ level.level # "notice" => Len(shown) <= AnnotationLimit
          /\ level.level = "notice" => Left = {}
          /\ IF Left = {} THEN level.notice = <<>>
             ELSE /\ level.notice = <<[shown |-> Len(shown), of |-> Cardinality(all)]>>
                  /\ Len(shown) = AnnotationLimit
          /\ Spent(OfFile) => \A i \in all : \E k \in DOMAIN shown : OfFile(found[i], shown[k])
          /\ Spent(OfRule) => \A i \in all : \E k \in DOMAIN shown : OfRule(found[i], shown[k])

\* A report says what was found: which files failed, every finding, and on
\* GitHub as wide a choice of them as there is room for.
ReportsSayWhatWasFound == FailuresAreTold /\ FindingsAreShown /\ AnnotationsAreSpread

ReportInit == IsReport(task) /\ answer = Unasked
ReportSpec == ReportInit /\ [][ReportStep]_asking
=============================================================================
