-------------------------- MODULE RunCommandProofs --------------------------
(***************************************************************************)
(* Proofs about RunCommand for every set of names, everything a scan may   *)
(* find, every verdict and either mode.                                    *)
(***************************************************************************)
EXTENDS RunCommand, TLAPS

BeforeLoop == {"start", "scan", "scanned", "linter", "stdin", "reading", "batch"}
InLoop     == {"loop", "report", "write"}
Ended      == {"return", "exited"}

\* s is what f's check came to, or what its cancellation left.
IsResult(s, f) == s = verdict[f] \/ (cancelled /\ s = Cancelled)

\* Nothing is answered, reported or counted before the loop.
LoopStartsClean ==
  /\ pc \in {"start", "scan"} => answer = Batch!Pending
  /\ pc \in BeforeLoop => reported = <<>> /\ failed = 0 /\ pos = 1
  /\ pc \notin Ended => err = "none"

\* What the loop looks up is there, under the key it is looked up by.
ResultsAreThere ==
  /\ pc = "reading" => StdinMarker \in Found
  /\ pc \in {"batch"} \cup InLoop /\ StdinMarker \in Found =>
       IsResult(results[StdinMarker], StdinMarker)
  /\ pc \in InLoop /\ ~exitOnError =>
       \A f \in Found \ {StdinMarker} : results[f] = verdict[f]
  /\ pc = "report" => pos <= Len(Files) /\ IsResult(current, Files[pos])
  /\ pc = "write" => pos <= Len(Files) /\ current = verdict[Files[pos]]

\* The summary has failed when a reported file has, and the loop that should
\* stop then has.
SummaryIsTrue ==
  /\ Len(reported) = pos - 1
  /\ failed <= Len(reported)
  /\ failed > 0 <=> \E i \in DOMAIN reported : Fails(reported[i].status)
  /\ pc \in InLoop /\ exitOnError => failed = 0

AllReported ==
  \/ Len(reported) = Len(Files)
  \/ exitOnError /\ reported # <<>> /\ Fails(reported[Len(reported)].status)

\* How the loop is left, and what the error then says.
EndIsTrue ==
  /\ pc = "finish" => AllReported
  /\ pc \in Ended /\ err \in {"none", "invalid"} =>
       finished /\ AllReported /\ (err = "invalid" <=> failed > 0)

IInv ==
  /\ TypeOK /\ LoopStartsClean /\ ResultsAreThere /\ SummaryIsTrue /\ EndIsTrue
  /\ ReportIsTrue

\* Every scan, and the one not made yet, lists each file once.
LEMMA ScanFacts ==
  ASSUME NEW s \in Scans \cup {NoScan}
  PROVE  /\ s.files \in Seq(Names) /\ s.onDisk \in Seq(Names)
         /\ \A i, j \in DOMAIN s.files : s.files[i] = s.files[j] => i = j
         /\ {s.onDisk[i] : i \in DOMAIN s.onDisk}
              = {s.files[i] : i \in DOMAIN s.files} \ {StdinMarker}
<1>1. CASE s \in Scans
  BY <1>1, ScansAssumption
<1>2. CASE s = NoScan
  BY <1>2 DEF NoScan
<1> QED BY <1>1, <1>2

LEMMA InitIInv == Init => IInv
<1> SUFFICES ASSUME Init PROVE IInv
  OBVIOUS
<1>1. TypeOK
  <2>1. <<>> \in Seq([file : Names, status : AnyStatus]) /\ Len(Files) = 0
    BY DEF Init, Files, NoScan
  <2>2. results \in [Keys -> AnyStatus]
    BY DEF Init, AnyStatus
  <2>3. current \in AnyStatus /\ scan \in Scans \cup {NoScan} /\ failed \in 0..Len(Files)
    BY <2>1 DEF Init, AnyStatus
  <2>4. pos \in 1..(Len(Files) + 1)
    BY <2>1 DEF Init
  <2> QED
    BY <2>1, <2>2, <2>3, <2>4 DEF Init, TypeOK
<1>2. LoopStartsClean /\ ResultsAreThere
  BY DEF Init, LoopStartsClean, ResultsAreThere, BeforeLoop, InLoop, Ended
<1>3. SummaryIsTrue /\ EndIsTrue /\ ReportIsTrue
  BY DEF Init, SummaryIsTrue, EndIsTrue, ReportIsTrue, InLoop, Ended, NoScan, Files
<1> QED BY <1>1, <1>2, <1>3 DEF IInv

-----------------------------------------------------------------------------
(* Every step. *)

LEMMA NextIInv == IInv /\ [Next]_vars => IInv'
<1> SUFFICES ASSUME IInv, [Next]_vars PROVE IInv'
  OBVIOUS
<1> USE DEF IInv
<1>1. CASE UNCHANGED vars \/ Terminated
  <2> USE <1>1 DEF vars, input, Terminated
  <2>1. TypeOK'
    BY DEF TypeOK, Files, OnDisk, Batch!Delivered, Batch!Pending, Batch!Refused
  <2>2. LoopStartsClean' /\ ResultsAreThere'
    BY DEF LoopStartsClean, ResultsAreThere, IsResult, Found, Files, Batch!Pending
  <2>3. SummaryIsTrue' /\ EndIsTrue' /\ ReportIsTrue'
    BY DEF SummaryIsTrue, EndIsTrue, AllReported, ReportIsTrue, Files
  <2> QED BY <2>1, <2>2, <2>3
<1>2. CASE Prepare \/ Scanned \/ NewLinter \/ SkipStdin \/ NoMoreFiles
  <2> USE <1>2 DEF Prepare, Scanned, NewLinter, SkipStdin, NoMoreFiles, Goto, Fail, AfterStdin, input
  <2>1. TypeOK'
    BY DEF TypeOK, Files, OnDisk, Keys, Batch!Delivered, Batch!Pending, Batch!Refused
  <2>2. LoopStartsClean' /\ ResultsAreThere'
    BY DEF LoopStartsClean, ResultsAreThere, IsResult, BeforeLoop, InLoop, Ended, Found, Files,
      Batch!Pending
  <2>3. SummaryIsTrue'
    BY DEF SummaryIsTrue, LoopStartsClean, BeforeLoop, InLoop
  <2>4. EndIsTrue'
    <3>1. pos \in Nat /\ Len(Files) \in Nat
      BY ScanFacts DEF TypeOK, Files
    <3>2. CASE NoMoreFiles
      BY <3>1, <3>2 DEF EndIsTrue, AllReported, SummaryIsTrue, ReportIsTrue, Ended, Files
    <3>3. CASE ~NoMoreFiles
      BY <3>3 DEF EndIsTrue, LoopStartsClean, Ended, Cancelled
    <3> QED BY <3>2, <3>3
  <2>5. ReportIsTrue'
    BY DEF ReportIsTrue, Files
  <2> QED BY <2>1, <2>2, <2>3, <2>4, <2>5
<1>3. CASE Scan
  <2> USE <1>3 DEF Scan, Goto, Fail, input
  <2>0. answer = Batch!Pending /\ reported = <<>> /\ failed = 0 /\ pos = 1 /\ pc = "scan"
    BY DEF LoopStartsClean, BeforeLoop
  <2>1. TypeOK'
    <3>1. scan' \in Scans \cup {NoScan}
      BY DEF TypeOK
    <3>2. Len(Files') \in Nat
      BY <3>1, ScanFacts DEF Files
    <3> QED BY <2>0, <3>1, <3>2 DEF TypeOK, Batch!Pending
  <2>2. LoopStartsClean' /\ ResultsAreThere'
    BY <2>0 DEF LoopStartsClean, ResultsAreThere, BeforeLoop, InLoop, Ended, Batch!Pending
  <2>3. SummaryIsTrue' /\ EndIsTrue' /\ ReportIsTrue'
    <3>1. Len(Files') \in Nat
      BY ScanFacts DEF Files, TypeOK
    <3> QED
      BY <2>0, <3>1 DEF SummaryIsTrue, EndIsTrue, ReportIsTrue, InLoop, Ended
  <2> QED BY <2>1, <2>2, <2>3
<1>4. CASE OpenStdin \/ ReadStdin
  <2> USE <1>4 DEF OpenStdin, ReadStdin, Goto, AfterStdin, Checked, input
  <2>0. /\ StdinMarker \in Found /\ StdinMarker \in Names /\ StdinMarker \in Keys
        /\ Checked(StdinMarker) \subseteq AnyStatus /\ Cancelled \in AnyStatus
    BY ScanFacts DEF TypeOK, Found, Files, Keys, ResultsAreThere, AnyStatus
  <2>1. TypeOK'
    <3>1. results' \in [Keys -> AnyStatus]
      <4>1. results \in [Keys -> AnyStatus]
        BY DEF TypeOK
      <4>2. results' = results \/ \E s \in AnyStatus : results' = [results EXCEPT ![StdinMarker] = s]
        BY <2>0
      <4> QED BY <4>1, <4>2
    <3>2. pc' \in {"reading", "loop", "batch"}
      OBVIOUS
    <3> QED
      BY <3>1, <3>2 DEF TypeOK, Files, OnDisk, Batch!Delivered, Batch!Pending, Batch!Refused
  <2>2. LoopStartsClean' /\ ResultsAreThere'
    BY <2>0 DEF LoopStartsClean, ResultsAreThere, IsResult, BeforeLoop, InLoop, Ended, Found, Files,
      Batch!Pending, TypeOK
  <2>3. SummaryIsTrue' /\ EndIsTrue' /\ ReportIsTrue'
    BY DEF SummaryIsTrue, EndIsTrue, AllReported, ReportIsTrue, TypeOK, LoopStartsClean, BeforeLoop,
      InLoop, Ended, Files
  <2> QED BY <2>1, <2>2, <2>3
<1>5. CASE LintAll
  <2> USE <1>5 DEF LintAll, input
  <2>1. CASE Batch!Deliver
    <3>0. /\ pc = "batch" /\ pc' = "loop" /\ err' = err /\ ~cancelled /\ cancelled' = cancelled
          /\ answer' = Batch!Delivered
          /\ results' = [k \in Keys |-> IF k \in Answered THEN AnsweredStatus(k) ELSE results[k]]
      BY <2>1 DEF Goto, Batch!Deliver, Batch!Refuse
    <3>1. Answered = Found \ {StdinMarker}
      <4>1. \A j \in DOMAIN OnDisk : answer'.results[j].path = OnDisk[j]
        BY <3>0 DEF Batch!Delivered
      <4>2. Answered = {OnDisk[i] : i \in DOMAIN OnDisk}
        BY <4>1 DEF Answered
      <4>3. scan \in Scans \cup {NoScan}
        BY DEF TypeOK
      <4> QED BY <4>2, <4>3, ScanFacts DEF Found, Files, OnDisk
    <3>2. \A k \in Answered : AnsweredStatus(k) = verdict[k]
      <4> SUFFICES ASSUME NEW k \in Answered PROVE AnsweredStatus(k) = verdict[k]
        OBVIOUS
      <4>1. PICK i \in DOMAIN OnDisk : answer'.results[i].path = k
        BY DEF Answered
      <4>2. \A j \in DOMAIN OnDisk : /\ answer'.results[j].path = OnDisk[j]
                                     /\ answer'.results[j].status = verdict[OnDisk[j]]
        BY <3>0 DEF Batch!Delivered
      <4> QED BY <4>1, <4>2 DEF AnsweredStatus
    <3>3. Found \subseteq Names
      BY ScanFacts DEF Found, Files, TypeOK
    <3>4. \A k \in Keys :
            results'[k] = IF k \in Found \ {StdinMarker} THEN verdict[k] ELSE results[k]
      BY <3>0, <3>1, <3>2
    <3>5. results' \in [Keys -> AnyStatus]
      <4>1. \A k \in Keys : results'[k] \in AnyStatus
        BY <3>3, <3>4 DEF TypeOK, AnyStatus
      <4> QED BY <3>0, <4>1
    <3>6. TypeOK'
      BY <3>0, <3>5 DEF TypeOK, Files, OnDisk, Batch!Delivered, Batch!Pending, Batch!Refused
    <3>7. LoopStartsClean'
      BY <3>0 DEF LoopStartsClean, BeforeLoop, Ended
    <3>8. ResultsAreThere'
      BY <3>0, <3>3, <3>4 DEF ResultsAreThere, IsResult, InLoop, Found, Files, Keys
    <3>9. SummaryIsTrue' /\ EndIsTrue' /\ ReportIsTrue'
      BY <3>0 DEF SummaryIsTrue, EndIsTrue, ReportIsTrue, LoopStartsClean, BeforeLoop, InLoop, Ended,
        Files
    <3> QED BY <3>6, <3>7, <3>8, <3>9
  <2>2. CASE ~Batch!Deliver
    <3>0. /\ pc = "batch" /\ pc' = "return" /\ err' = Cancelled /\ UNCHANGED <<cancelled, results>>
          /\ answer' = Batch!Refused
      BY <2>2 DEF Fail, Batch!Refuse
    <3>1. TypeOK'
      BY <3>0 DEF TypeOK, Files, OnDisk, Batch!Delivered, Batch!Pending, Batch!Refused
    <3>2. LoopStartsClean' /\ ResultsAreThere'
      BY <3>0 DEF LoopStartsClean, ResultsAreThere, BeforeLoop, InLoop, Ended
    <3>3. SummaryIsTrue' /\ EndIsTrue' /\ ReportIsTrue'
      BY <3>0 DEF SummaryIsTrue, EndIsTrue, ReportIsTrue, InLoop, Ended, Files, Cancelled
    <3> QED BY <3>1, <3>2, <3>3
  <2> QED BY <2>1, <2>2
<1>6. CASE NextFile
  <2> USE <1>6 DEF NextFile, Goto, Checked, input
  <2>0. Files[pos] \in Names /\ Files[pos] \in Found /\ Files[pos] \in Keys
    BY ScanFacts DEF TypeOK, Found, Files, Keys
  <2>1. TypeOK'
    BY <2>0 DEF TypeOK, AnyStatus, Files, OnDisk, Batch!Delivered, Batch!Pending, Batch!Refused
  <2>2. LoopStartsClean' /\ ResultsAreThere'
    BY <2>0 DEF LoopStartsClean, ResultsAreThere, IsResult, BeforeLoop, InLoop, Ended, Found, Files,
      Batch!Pending, TypeOK
  <2>3. SummaryIsTrue' /\ EndIsTrue' /\ ReportIsTrue'
    BY DEF SummaryIsTrue, EndIsTrue, ReportIsTrue, InLoop, Ended, Files
  <2> QED BY <2>1, <2>2, <2>3
<1>7. CASE LookBeforeReport
  <2> USE <1>7 DEF LookBeforeReport, Goto, Fail, input
  <2>1. TypeOK'
    BY DEF TypeOK, Files, OnDisk, Batch!Delivered, Batch!Pending, Batch!Refused
  <2>2. LoopStartsClean' /\ ResultsAreThere'
    BY DEF LoopStartsClean, ResultsAreThere, IsResult, BeforeLoop, InLoop, Ended, Found, Files,
      Batch!Pending
  <2>3. SummaryIsTrue' /\ EndIsTrue' /\ ReportIsTrue'
    BY DEF SummaryIsTrue, EndIsTrue, ReportIsTrue, InLoop, Ended, Files, Cancelled
  <2> QED BY <2>1, <2>2, <2>3
<1>8. CASE Report
  <2> USE <1>8 DEF Report, input
  <2>0. /\ pc = "write" /\ pos \in Nat /\ pos >= 1 /\ pos <= Len(Files) /\ Len(Files) \in Nat
        /\ Files[pos] \in Names /\ Files[pos] \in Found /\ current = verdict[Files[pos]]
        /\ reported \in Seq([file : Names, status : AnyStatus]) /\ failed \in Nat
    BY ScanFacts DEF TypeOK, Files, Found, ResultsAreThere
  <2>1. CASE Fail("output")
    <3> USE <2>0, <2>1 DEF Fail
    <3>0. UNCHANGED <<reported, failed, pos>>
      BY DEF Goto
    <3>1. TypeOK'
      BY <3>0 DEF TypeOK, Files, OnDisk, Batch!Delivered, Batch!Pending, Batch!Refused
    <3>2. LoopStartsClean' /\ ResultsAreThere'
      BY <3>0 DEF LoopStartsClean, ResultsAreThere, BeforeLoop, InLoop, Ended
    <3>3. SummaryIsTrue' /\ EndIsTrue' /\ ReportIsTrue'
      BY <3>0 DEF SummaryIsTrue, EndIsTrue, ReportIsTrue, InLoop, Ended, Files
    <3> QED BY <3>1, <3>2, <3>3
  <2>2. CASE ~Fail("output")
    <3> DEFINE last == [file |-> Files[pos], status |-> current]
    <3>0. /\ reported' = Append(reported, last)
          /\ failed' = IF Fails(current) THEN failed + 1 ELSE failed
          /\ pos' = pos + 1 /\ err' = err
          /\ pc' = IF exitOnError /\ failed' > 0 THEN "finish" ELSE "loop"
      BY <2>2 DEF Goto
    <3>1. /\ last \in [file : Names, status : AnyStatus]
          /\ reported' \in Seq([file : Names, status : AnyStatus])
          /\ Len(reported') = pos /\ Len(reported) = pos - 1
          /\ reported'[pos] = last
          /\ \A i \in 1..(pos - 1) : reported'[i] = reported[i]
          /\ DOMAIN reported' = 1..pos /\ DOMAIN reported = 1..(pos - 1)
      <4>1. last \in [file : Names, status : AnyStatus]
        BY <2>0 DEF TypeOK
      <4>2. Len(reported) = pos - 1
        BY DEF SummaryIsTrue
      <4> QED BY <2>0, <3>0, <4>1, <4>2
    <3> HIDE DEF last
    <3>2. failed \in 0..(pos - 1)
      BY <2>0, <3>1 DEF SummaryIsTrue
    <3>3. failed' \in 0..pos /\ failed' \in 0..Len(Files)
      BY <2>0, <3>0, <3>2
    <3>4. TypeOK'
      <4>1. pc' \in {"finish", "loop"}
        BY <3>0
      <4>2. pos' \in 1..(Len(Files) + 1)
        BY <2>0, <3>0
      <4> QED
        BY <3>0, <3>1, <3>3, <4>1, <4>2
          DEF TypeOK, Files, OnDisk, Batch!Delivered, Batch!Pending, Batch!Refused
    <3>5. LoopStartsClean'
      BY <2>0, <3>0 DEF LoopStartsClean, BeforeLoop, Ended
    <3>6. ResultsAreThere'
      BY <2>0, <3>0 DEF ResultsAreThere, IsResult, InLoop, Found, Files
    <3>7. failed' > 0 <=> \E i \in 1..pos : Fails(reported'[i].status)
      <4>1. failed > 0 <=> \E i \in 1..(pos - 1) : Fails(reported'[i].status)
        BY <3>1 DEF SummaryIsTrue
      <4>2. Fails(reported'[pos].status) <=> Fails(current)
        BY <3>1 DEF last
      <4>3. \A i \in 1..pos : i = pos \/ i \in 1..(pos - 1)
        BY <2>0
      <4>4. 1..(pos - 1) \subseteq 1..pos /\ pos \in 1..pos
        BY <2>0
      <4>5. CASE Fails(current)
        <5>1. failed' > 0
          BY <3>0, <3>2, <4>5
        <5> QED BY <4>2, <4>4, <4>5, <5>1
      <4>6. CASE ~Fails(current)
        <5>1. failed' = failed
          BY <3>0, <4>6
        <5> QED BY <4>1, <4>2, <4>3, <4>4, <4>6, <5>1
      <4> QED BY <4>5, <4>6
    <3>8. SummaryIsTrue'
      <4>1. pc' \in InLoop /\ exitOnError => failed' = 0
        BY <3>0, <3>3 DEF InLoop
      <4> QED BY <3>0, <3>1, <3>3, <3>7, <4>1, <2>0 DEF SummaryIsTrue
    <3>9. EndIsTrue'
      <4>1. ASSUME pc' = "finish" PROVE AllReported'
        <5>1. exitOnError /\ failed' > 0
          BY <3>0, <4>1
        <5>2. failed = 0
          BY <2>0, <5>1 DEF SummaryIsTrue, InLoop
        <5>3. Fails(current)
          BY <3>0, <5>1, <5>2
        <5>4. Fails(reported'[Len(reported')].status) /\ reported' # <<>>
          BY <2>0, <3>1, <5>3 DEF last
        <5> QED BY <5>1, <5>4 DEF AllReported
      <4> QED BY <3>0, <4>1 DEF EndIsTrue, Ended
    <3>10. ReportIsTrue'
      <4>1. reported'[pos] = [file |-> Files[pos], status |-> verdict[Files[pos]]]
        BY <2>0, <3>1 DEF last
      <4>2. \A i \in 1..(pos - 1) :
              reported'[i] = [file |-> Files[i], status |-> verdict[Files[i]]]
        BY <3>1 DEF ReportIsTrue
      <4> QED BY <2>0, <3>0, <3>1, <4>1, <4>2 DEF ReportIsTrue, Files
    <3> QED BY <3>4, <3>5, <3>6, <3>8, <3>9, <3>10
  <2> QED BY <2>1, <2>2
<1>9. CASE Finish
  <2> USE <1>9 DEF Finish, Fail, input
  <2>1. TypeOK'
    <3>1. finished' \in BOOLEAN /\ err' \in {"none", "invalid", "output"}
      BY DEF TypeOK
    <3> QED
      BY <3>1 DEF TypeOK, Files, OnDisk, Batch!Delivered, Batch!Pending, Batch!Refused
  <2>2. LoopStartsClean' /\ ResultsAreThere'
    BY DEF LoopStartsClean, ResultsAreThere, BeforeLoop, InLoop, Ended
  <2>3. SummaryIsTrue' /\ EndIsTrue' /\ ReportIsTrue'
    BY DEF SummaryIsTrue, EndIsTrue, AllReported, ReportIsTrue, InLoop, Ended, Files, TypeOK
  <2> QED BY <2>1, <2>2, <2>3
<1>10. CASE Return
  <2> USE <1>10 DEF Return, input
  <2>1. TypeOK'
    BY DEF TypeOK, Files, OnDisk, Batch!Delivered, Batch!Pending, Batch!Refused
  <2>2. LoopStartsClean' /\ ResultsAreThere'
    BY DEF LoopStartsClean, ResultsAreThere, BeforeLoop, InLoop, Ended
  <2>3. SummaryIsTrue' /\ EndIsTrue' /\ ReportIsTrue'
    BY DEF SummaryIsTrue, EndIsTrue, AllReported, ReportIsTrue, InLoop, Ended, Files, Cancelled
  <2> QED BY <2>1, <2>2, <2>3
<1>11. CASE Interrupt \/ CloseStdin
  <2> USE <1>11 DEF Interrupt, CloseStdin, input
  <2>1. TypeOK'
    <3>1. cancelled' \in BOOLEAN /\ eof' \in BOOLEAN
      BY DEF TypeOK
    <3>2. UNCHANGED <<input, pc, scan, results, answer, pos, current, reported, failed, finished, err>>
      OBVIOUS
    <3> QED
      BY <3>1, <3>2 DEF TypeOK, Files, OnDisk, Batch!Delivered, Batch!Pending, Batch!Refused
  <2>2. LoopStartsClean' /\ ResultsAreThere'
    BY DEF LoopStartsClean, ResultsAreThere, IsResult, Found, Files, Batch!Pending
  <2>3. SummaryIsTrue' /\ EndIsTrue' /\ ReportIsTrue'
    BY DEF SummaryIsTrue, EndIsTrue, AllReported, ReportIsTrue, Files
  <2> QED BY <2>1, <2>2, <2>3
<1> QED
  BY <1>1, <1>2, <1>3, <1>4, <1>5, <1>6, <1>7, <1>8, <1>9, <1>10, <1>11 DEF Next, Command

THEOREM Invariance == Spec => []IInv
  BY InitIInv, NextIInv, PTL DEF Spec

-----------------------------------------------------------------------------
(* What follows from it. *)

\* Every variable keeps its type (TypeOK).
THEOREM TypeCorrect == Spec => []TypeOK
  BY Invariance, PTL DEF IInv

\* Nothing is shown but a file's own result, in path order (ReportIsTrue).
THEOREM ReportsAreTrue == Spec => []ReportIsTrue
  BY Invariance, PTL DEF IInv

\* An exit code of 0 or 1 comes with a finished report (ReportIsComplete).
THEOREM ReportsAreComplete == Spec => []ReportIsComplete
<1>1. IInv => ReportIsComplete
  BY DEF IInv, EndIsTrue, AllReported, Ended, ReportIsComplete, ExitCode
<1>2. QED
  BY <1>1, Invariance, PTL

\* The exit code is the files' verdict in both modes (ExitCodeIsTheVerdict).
THEOREM ExitCodeIsHonest == Spec => []ExitCodeIsTheVerdict
<1>1. IInv => ExitCodeIsTheVerdict
  <2> SUFFICES ASSUME IInv, pc = "exited"
               PROVE  (ExitCode = 0 => Failing = {}) /\ (ExitCode = 1 => Failing # {})
    BY DEF ExitCodeIsTheVerdict
  <2>0. /\ scan \in Scans \cup {NoScan} /\ Found \subseteq Names
        /\ \A f \in Found : verdict[f] \in Status
        /\ reported \in Seq([file : Names, status : AnyStatus])
        /\ Files \in Seq(Names)
    BY ScanFacts DEF IInv, TypeOK, Found, Files
  <2>1. \A f \in Found : Fails(verdict[f]) <=> f \in Failing
    BY <2>0 DEF Failing, Fails, Status, Cancelled
  <2>2. \A i \in DOMAIN reported : Fails(reported[i].status) <=> Files[i] \in Failing
    <3>1. \A i \in DOMAIN reported : Files[i] \in Found /\ reported[i].status = verdict[Files[i]]
      BY <2>0 DEF IInv, ReportIsTrue, Found
    <3> QED BY <2>1, <3>1
  <2>3. failed > 0 <=> \E i \in DOMAIN reported : Files[i] \in Failing
    BY <2>2 DEF IInv, SummaryIsTrue
  <2>4. CASE ExitCode = 0
    <3>1. err = "none"
      BY <2>4 DEF ExitCode
    <3>2. ~(failed > 0) /\ AllReported
      BY <3>1 DEF IInv, EndIsTrue, Ended
    <3>3. Len(reported) = Len(Files)
      <4>1. reported # <<>> => Len(reported) \in DOMAIN reported
        BY <2>0
      <4> QED BY <2>2, <2>3, <3>2, <4>1 DEF AllReported
    <3>4. \A i \in DOMAIN Files : Files[i] \notin Failing
      BY <2>0, <2>3, <3>2, <3>3
    <3> QED BY <2>4, <3>4 DEF Failing, Found
  <2>5. CASE ExitCode = 1
    <3>1. err = "invalid"
      BY <2>5 DEF ExitCode
    <3> QED BY <2>3, <2>5, <3>1 DEF IInv, EndIsTrue, Ended
  <2>6. CASE ExitCode = 2
    BY <2>6
  <2> QED BY <2>4, <2>5, <2>6
<1>2. QED
  BY <1>1, Invariance, PTL
=============================================================================
