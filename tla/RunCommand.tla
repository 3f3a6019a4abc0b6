----------------------------- MODULE RunCommand -----------------------------
(***************************************************************************)
(* One "otelcol-config-lint run", from RunE (run/run.go) to the exit code  *)
(* main hands the shell.                                                   *)
(*                                                                         *)
(* The command settles what to check and prepares a linter, checks         *)
(* standard input, then either checks every file on disk in one LintAll    *)
(* call and reports the results in path order, or, under --exit-on-error,  *)
(* checks and reports one file at a time and stops at the first failure.   *)
(* An interrupt may cancel the context between any two steps.  LintAll is  *)
(* used through what it promises, LintBatch.                               *)
(***************************************************************************)
EXTENDS Integers, Sequences

CONSTANTS
  Names, \* the names a config may be given by, StdinMarker perhaps among them
  Scans  \* what a scan may find: [files, onDisk], lists of names in path order

StdinMarker == "-"
StdinName   == "stdin"
Status      == {"valid", "invalid", "skipped", "error"}

\* files is sets.List of the set found, onDisk of that set without the marker.
ASSUME ScansAssumption ==
  /\ Names \subseteq STRING
  /\ Scans \subseteq [files : Seq(Names), onDisk : Seq(Names)]
  /\ \A s \in Scans :
       /\ \A i, j \in DOMAIN s.files : s.files[i] = s.files[j] => i = j
       /\ {s.onDisk[i] : i \in DOMAIN s.onDisk}
            = {s.files[i] : i \in DOMAIN s.files} \ {StdinMarker}

VARIABLES
  verdict,     \* the status of each name when its check is let finish
  exitOnError, \* --exit-on-error
  cancelled,   \* whether an interrupt has cancelled the context
  eof,         \* whether standard input has ended
  pc,          \* where the command is
  scan,        \* what the scan found
  results,     \* results: the status under each key, ZeroStatus where there is none
  answer,      \* what LintAll answered
  pos,         \* the file the report loop is at
  current,     \* the status of that file
  reported,    \* the files and statuses the formatter was given
  failed,      \* summary.Invalid + summary.Errors
  finished,    \* whether the formatter's trailer was written
  err          \* the error the command is about to return

input == <<verdict, exitOnError>>
vars  == <<input, cancelled, eof, pc, scan, results, answer, pos, current, reported,
           failed, finished, err>>

NoScan    == [files |-> <<>>, onDisk |-> <<>>]
Files     == scan.files
OnDisk    == scan.onDisk
Found     == {Files[i] : i \in DOMAIN Files}
Keys      == Names \cup {StdinName}
ZeroStatus == "zero"      \* the empty status of the zero Result
Cancelled == "cancelled"   \* the Error result whose Err is the context's

\* Summary.Failed counts invalid files and errors; a zero Result is neither.
Fails(s) == s \in {"invalid", "error", Cancelled}

Batch == INSTANCE LintBatch
  WITH expected <- [i \in DOMAIN OnDisk |-> [path |-> OnDisk[i], status |-> verdict[OnDisk[i]]]]

Init ==
  /\ verdict \in [Names -> Status]
  /\ exitOnError \in BOOLEAN
  /\ cancelled = FALSE
  /\ eof \in BOOLEAN
  /\ pc = "start"
  /\ scan = NoScan
  /\ results = [k \in Keys |-> ZeroStatus]
  /\ answer = Batch!Pending
  /\ pos = 1
  /\ current = ZeroStatus
  /\ reported = <<>>
  /\ failed = 0
  /\ finished = FALSE
  /\ err = "none"

Goto(l) == pc' = l /\ UNCHANGED err

\* Return e from wherever the command is, to RunE's last check.
Fail(e) == pc' = "return" /\ err' = e

\* A file's result when its check ends now: under a cancelled context its
\* last look at the context may have come before or after.
Checked(f) == {verdict[f]} \cup (IF cancelled THEN {Cancelled} ELSE {})

-----------------------------------------------------------------------------
(* Until there is a linter. *)

\* RunE, then options.prepare: bad settings, flags or locations end it.
Prepare ==
  /\ pc = "start"
  /\ IF cancelled THEN Fail(Cancelled) ELSE Goto("scan") \/ Fail("unusable")
  /\ UNCHANGED <<input, cancelled, eof, scan, results, answer, pos, current, reported, failed, finished>>

Scan ==
  /\ pc = "scan"
  /\ \/ scan' \in Scans /\ Goto("scanned")
     \/ Fail("unusable") /\ UNCHANGED scan
  /\ UNCHANGED <<input, cancelled, eof, results, answer, pos, current, reported, failed, finished>>

\* The context first, then ErrNoYAMLFiles.
Scanned ==
  /\ pc = "scanned"
  /\ CASE cancelled                   -> Fail(Cancelled)
       [] ~cancelled /\ Files = <<>>  -> Fail("unusable")
       [] ~cancelled /\ Files # <<>>  -> Goto("linter")
  /\ UNCHANGED <<input, cancelled, eof, scan, results, answer, pos, current, reported, failed, finished>>

\* newLinter and the formatter: a bad severity, no schema, an empty schema or
\* an unknown format end it, and so does the context Prepare looks at last.
NewLinter ==
  /\ pc = "linter"
  /\ IF cancelled THEN Fail(Cancelled) ELSE Goto("stdin") \/ Fail("unusable")
  /\ UNCHANGED <<input, cancelled, eof, scan, results, answer, pos, current, reported, failed, finished>>

-----------------------------------------------------------------------------
(* Standard input and the batch. *)

AfterStdin == IF exitOnError THEN "loop" ELSE "batch"

SkipStdin ==
  /\ pc = "stdin"
  /\ StdinMarker \notin Found
  /\ Goto(AfterStdin)
  /\ UNCHANGED <<input, cancelled, eof, scan, results, answer, pos, current, reported, failed, finished>>

\* LintReader looks at the context before it reads, and not while it does.
OpenStdin ==
  /\ pc = "stdin"
  /\ StdinMarker \in Found
  /\ IF cancelled
     THEN /\ results' = [results EXCEPT ![StdinMarker] = Cancelled]
          /\ Goto(AfterStdin)
     ELSE Goto("reading") /\ UNCHANGED results
  /\ UNCHANGED <<input, cancelled, eof, scan, answer, pos, current, reported, failed, finished>>

\* io.ReadAll returns at the end of the input, and the check follows.  The
\* result is kept under the marker and shown under the display name.
ReadStdinByName ==
  /\ pc = "reading"
  /\ eof
  /\ \E s \in Checked(StdinMarker) : results' = [results EXCEPT ![StdinName] = s]
  /\ Goto(AfterStdin)
  /\ UNCHANGED <<input, cancelled, eof, scan, answer, pos, current, reported, failed, finished>>
ReadStdin ==
  /\ pc = "reading"
  /\ eof
  /\ \E s \in Checked(StdinMarker) : results' = [results EXCEPT ![StdinMarker] = s]
  /\ Goto(AfterStdin)
  /\ UNCHANGED <<input, cancelled, eof, scan, answer, pos, current, reported, failed, finished>>

\* for _, r := range batch: the last result of a path is the one kept, and
\* all of them agree.
Answered == {answer'.results[i].path : i \in DOMAIN OnDisk}
AnsweredStatus(k) ==
  answer'.results[CHOOSE i \in DOMAIN OnDisk : answer'.results[i].path = k].status

\* batch, err := linter.LintAll(...), and the results by path.
LintAll ==
  /\ pc = "batch"
  /\ UNCHANGED <<input, eof, scan, pos, current, reported, failed, finished>>
  /\ \/ /\ Batch!Deliver
        /\ Goto("loop")
        /\ results' = [k \in Keys |-> IF k \in Answered THEN AnsweredStatus(k) ELSE results[k]]
     \/ /\ Batch!Refuse
        /\ Fail(Cancelled)
        /\ UNCHANGED results

-----------------------------------------------------------------------------
(* The report. *)

\* The head of the loop over sets.List(files): under --exit-on-error the file
\* is checked here, else its result is looked up.
NextFile ==
  /\ pc = "loop"
  /\ pos <= Len(Files)
  /\ IF exitOnError /\ Files[pos] # StdinMarker
     THEN current' \in Checked(Files[pos])
     ELSE current' = results[Files[pos]]
  /\ Goto("report")
  /\ UNCHANGED <<input, cancelled, eof, scan, results, answer, pos, reported, failed, finished>>

NoMoreFiles ==
  /\ pc = "loop"
  /\ pos > Len(Files)
  /\ Goto("finish")
  /\ UNCHANGED <<input, cancelled, eof, scan, results, answer, pos, current, reported, failed, finished>>

\* reportResult looks at the context before it shows anything.
ReportUnlooked ==
  /\ pc = "report"
  /\ Goto("write")
  /\ UNCHANGED <<input, cancelled, eof, scan, results, answer, pos, current, reported, failed, finished>>
LookAndGoOn ==
  /\ pc = "report"
  /\ Goto(IF cancelled THEN "loop" ELSE "write")
  /\ UNCHANGED <<input, cancelled, eof, scan, results, answer, pos, current, reported, failed, finished>>
LookBeforeReport ==
  /\ pc = "report"
  /\ IF cancelled THEN Fail(Cancelled) ELSE Goto("write")
  /\ UNCHANGED <<input, cancelled, eof, scan, results, answer, pos, current, reported, failed, finished>>

\* formatter.Result may fail to write; else the summary counts the file and
\* the loop goes on or, under --exit-on-error, breaks off.
ReportCountsTwice ==
  /\ pc = "write"
  /\ \/ /\ reported' = Append(reported, [file |-> Files[pos], status |-> current])
        /\ failed' = IF Fails(current) THEN failed + 2 ELSE failed
        /\ pos' = pos + 1
        /\ Goto(IF exitOnError /\ failed' > 0 THEN "finish" ELSE "loop")
     \/ Fail("output") /\ UNCHANGED <<reported, failed, pos>>
  /\ UNCHANGED <<input, cancelled, eof, scan, results, answer, current, finished>>
Report ==
  /\ pc = "write"
  /\ \/ /\ reported' = Append(reported, [file |-> Files[pos], status |-> current])
        /\ failed' = IF Fails(current) THEN failed + 1 ELSE failed
        /\ pos' = pos + 1
        /\ Goto(IF exitOnError /\ failed' > 0 THEN "finish" ELSE "loop")
     \/ Fail("output") /\ UNCHANGED <<reported, failed, pos>>
  /\ UNCHANGED <<input, cancelled, eof, scan, results, answer, current, finished>>

\* formatter.Finish, then ErrFilesInvalid when the summary failed.
FinishUnlessFailed ==
  /\ pc = "finish"
  /\ \/ finished' = (failed = 0) /\ Fail(IF failed > 0 THEN "invalid" ELSE "none")
     \/ Fail("output") /\ UNCHANGED finished
  /\ UNCHANGED <<input, cancelled, eof, scan, results, answer, pos, current, reported, failed>>
Finish ==
  /\ pc = "finish"
  /\ \/ finished' = TRUE /\ Fail(IF failed > 0 THEN "invalid" ELSE "none")
     \/ Fail("output") /\ UNCHANGED finished
  /\ UNCHANGED <<input, cancelled, eof, scan, results, answer, pos, current, reported, failed>>

\* RunE's last look at the context, which outranks whatever run returned.
Return ==
  /\ pc = "return"
  /\ pc' = "exited"
  /\ err' = IF cancelled THEN Cancelled ELSE err
  /\ UNCHANGED <<input, cancelled, eof, scan, results, answer, pos, current, reported, failed, finished>>

\* ExitCode of the error the command returned.
ExitCode ==
  CASE err = "none"    -> 0
    [] err = "invalid" -> 1
    [] OTHER           -> 2

-----------------------------------------------------------------------------

Interrupt ==
  /\ ~cancelled
  /\ pc # "exited"
  /\ cancelled' = TRUE
  /\ UNCHANGED <<input, eof, pc, scan, results, answer, pos, current, reported, failed, finished, err>>

\* Whoever writes standard input closes it, if they ever do.
CloseStdin ==
  /\ ~eof
  /\ pc # "exited"
  /\ eof' = TRUE
  /\ UNCHANGED <<input, cancelled, pc, scan, results, answer, pos, current, reported, failed, finished, err>>

Command ==
  \/ Prepare \/ Scan \/ Scanned \/ NewLinter
  \/ SkipStdin \/ OpenStdin \/ ReadStdin \/ LintAll
  \/ NextFile \/ NoMoreFiles \/ LookBeforeReport \/ Report \/ Finish \/ Return

Terminated == pc = "exited" /\ UNCHANGED vars

Next == Command \/ Interrupt \/ CloseStdin \/ Terminated

\* The command is one goroutine that runs whenever it can, LintAll answers
\* (BatchSpec of LintAll), and nobody has to interrupt it or close its input.
Fairness == WF_vars(Command)

Spec == Init /\ [][Next]_vars /\ Fairness

-----------------------------------------------------------------------------
(* Properties. *)

AnyStatus == Status \cup {Cancelled, ZeroStatus}

\* The type of every variable.
TypeOK ==
  /\ verdict \in [Names -> Status] /\ exitOnError \in BOOLEAN
  /\ scan \in Scans \cup {NoScan}
  /\ cancelled \in BOOLEAN /\ eof \in BOOLEAN /\ finished \in BOOLEAN
  /\ pc \in {"start", "scan", "scanned", "linter", "stdin", "reading", "batch", "loop",
             "report", "write", "finish", "return", "exited"}
  /\ results \in [Keys -> AnyStatus]
  /\ answer \in {Batch!Pending, Batch!Delivered, Batch!Refused}
  /\ pos \in 1..(Len(Files) + 1)
  /\ current \in AnyStatus
  /\ reported \in Seq([file : Names, status : AnyStatus])
  /\ failed \in 0..Len(Files)
  /\ err \in {"none", "invalid", "unusable", "output", Cancelled}

Failing == {f \in Found : verdict[f] \in {"invalid", "error"}}

\* "0 every file passed, 1 at least one file failed": with or without
\* --exit-on-error, with standard input among the files or without, the code
\* says what the files' own verdicts say.
ExitCodeIsTheVerdict ==
  pc = "exited" =>
    /\ ExitCode = 0 => Failing = {}
    /\ ExitCode = 1 => Failing # {}

\* What was shown is true and in path order: each file's own result, none
\* twice, none of them the Error a cancelled check left behind.
ReportIsTrue ==
  /\ Len(reported) <= Len(Files)
  /\ \A i \in DOMAIN reported :
       reported[i] = [file |-> Files[i], status |-> verdict[Files[i]]]

\* An exit code of 0 or 1 comes with a finished report: of every file, or of
\* the files up to and including the first that failed.
ReportIsComplete ==
  pc = "exited" /\ ExitCode \in {0, 1} =>
    /\ finished
    /\ \/ Len(reported) = Len(Files)
       \/ exitOnError /\ reported # <<>> /\ Fails(reported[Len(reported)].status)

\* The command ends, interrupted or not, once nobody holds its input open.
CommandEnds == (<>eof) => <>(pc = "exited")
=============================================================================
