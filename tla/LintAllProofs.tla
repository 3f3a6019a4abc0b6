--------------------------- MODULE LintAllProofs ---------------------------
(***************************************************************************)
(* Proofs about LintAll for every number of paths, every assignment of     *)
(* files to them and every requested worker count.                         *)
(***************************************************************************)
EXTENDS LintAll, TLAPS

\* Whatever worker count is asked for, there is a worker as soon as there is a
\* path, and never one more than there are paths.
LEMMA WorkersExist ==
  ASSUME TypeOK
  PROVE  /\ WorkerCount \in Int
         /\ WorkerCount <= NumPaths
         /\ NumPaths > 0 => WorkerCount >= 1
  BY PathsAssumption, ConcurrencyAssumption DEF TypeOK, WorkerCount

-----------------------------------------------------------------------------
(* The inductive invariant. *)

\* A slot is the work of the worker whose index it is: every index handed out
\* is below next, in one worker's hands at most, its slot not yet written.
JobsAreSlots ==
  /\ OneWriterPerSlot
  /\ \A w \in Workers :
       /\ job[w] # 0 => job[w] < next
       /\ job[w] # 0 <=> worker[w] \in {"received", "lint"}

\* What can be in a slot.  Only a cancelled run leaves one that is not the
\* file's own result, once its index has been handed out and put down.
SlotsSettle ==
  \A i \in Indices :
    /\ results[i] \in {ZeroResult, Expected[i], CancelledResult(i)}
    /\ i >= next => results[i] = ZeroResult
    /\ i < next => \/ results[i] = Expected[i]
                   \/ cancelled
                   \/ \E w \in Workers : job[w] = i

\* The dispatcher leaves its loop with every index handed out, or cancelled.
LoopEnds ==
  /\ caller = "select" => next <= NumPaths
  /\ caller \in {"close", "wait", "decide"} => cancelled \/ next = NumPaths + 1

\* No worker exists before Start, and none is left once the caller decides.
WorkersLeave ==
  /\ caller = "enter" => \A w \in Workers : worker[w] = "unborn"
  /\ caller = "decide" => \A w \in Workers : worker[w] \in {"unborn", "exited"}
  /\ NoWorkerOutlivesCall

\* The call has an answer exactly when it has returned.
AnswerIsFinal ==
  /\ caller # "returned" <=> answer = Batch!Pending
  /\ DeliveredInFull

IInv ==
  /\ TypeOK /\ JobsAreSlots /\ SlotsSettle /\ LoopEnds /\ WorkersLeave /\ AnswerIsFinal
-----------------------------------------------------------------------------
(* IInv is inductive. *)

LEMMA InitIInv == Init => IInv
<1> SUFFICES ASSUME Init PROVE IInv
  OBVIOUS
<1>1. TypeOK
  <2>1. next \in 1..(NumPaths + 1) /\ 0 \in 0..NumPaths
    BY PathsAssumption DEF Init
  <2> QED
    BY <2>1 DEF Init, TypeOK
<1>2. JobsAreSlots
  BY DEF Init, JobsAreSlots, OneWriterPerSlot
<1>3. SlotsSettle
  BY DEF Init, SlotsSettle, Indices
<1>4. LoopEnds /\ WorkersLeave /\ AnswerIsFinal
  BY DEF Init, LoopEnds, WorkersLeave, NoWorkerOutlivesCall, AnswerIsFinal,
         DeliveredInFull, Batch!Pending
<1>5. QED
  BY <1>1, <1>2, <1>3, <1>4 DEF IInv

LEMMA CallerStep == IInv /\ Caller => IInv'
<1> SUFFICES ASSUME IInv, Caller PROVE IInv'
  OBVIOUS
<1> USE PathsAssumption DEF IInv, Indices
<1>1. CASE ReturnAtOnce
  <2>1. TypeOK' BY <1>1 DEF ReturnAtOnce, Return, TypeOK, Batch!Refused, Batch!Delivered, Result, Expected, Status
  <2>2. JobsAreSlots' BY <1>1 DEF ReturnAtOnce, JobsAreSlots, OneWriterPerSlot
  <2>3. SlotsSettle' BY <1>1 DEF ReturnAtOnce, SlotsSettle, CancelledResult, Expected
  <2>4. LoopEnds' /\ WorkersLeave'
    BY <1>1 DEF ReturnAtOnce, Return, LoopEnds, WorkersLeave, NoWorkerOutlivesCall
  <2>5. AnswerIsFinal'
    BY <1>1 DEF ReturnAtOnce, Return, AnswerIsFinal, DeliveredInFull, Batch!Refused, Batch!Delivered, Batch!Pending
  <2> QED BY <2>1, <2>2, <2>3, <2>4, <2>5
<1>2. CASE Start
  <2>1. TypeOK' BY <1>2 DEF Start, TypeOK
  <2>2. JobsAreSlots' BY <1>2 DEF Start, TypeOK, JobsAreSlots, OneWriterPerSlot, WorkersLeave
  <2>3. SlotsSettle' BY <1>2 DEF Start, SlotsSettle, CancelledResult, Expected
  <2>4. LoopEnds' /\ WorkersLeave' /\ AnswerIsFinal'
    BY <1>2 DEF Start, LoopEnds, WorkersLeave, NoWorkerOutlivesCall, AnswerIsFinal, DeliveredInFull
  <2> QED BY <2>1, <2>2, <2>3, <2>4
<1>3. CASE LoopHead
  <2>1. TypeOK' BY <1>3 DEF LoopHead, TypeOK
  <2>2. JobsAreSlots' BY <1>3 DEF LoopHead, JobsAreSlots, OneWriterPerSlot
  <2>3. SlotsSettle' BY <1>3 DEF LoopHead, SlotsSettle, CancelledResult, Expected
  <2>4. LoopEnds' BY <1>3 DEF LoopHead, LoopEnds, TypeOK
  <2>5. WorkersLeave' /\ AnswerIsFinal'
    BY <1>3 DEF LoopHead, WorkersLeave, NoWorkerOutlivesCall, AnswerIsFinal, DeliveredInFull
  <2> QED BY <2>1, <2>2, <2>3, <2>4, <2>5
<1>4. CASE SelectDone
  <2>1. TypeOK' BY <1>4 DEF SelectDone, TypeOK
  <2>2. JobsAreSlots' BY <1>4 DEF SelectDone, JobsAreSlots, OneWriterPerSlot
  <2>3. SlotsSettle' BY <1>4 DEF SelectDone, SlotsSettle, CancelledResult, Expected
  <2>4. LoopEnds' /\ WorkersLeave' /\ AnswerIsFinal'
    BY <1>4 DEF SelectDone, LoopEnds, WorkersLeave, NoWorkerOutlivesCall, AnswerIsFinal, DeliveredInFull
  <2> QED BY <2>1, <2>2, <2>3, <2>4
<1>5. ASSUME NEW w \in Workers, SelectSend(w) PROVE IInv'
  <2> USE <1>5 DEF SelectSend
  <2>0. next \in Indices
    BY DEF TypeOK, LoopEnds
  <2>1. TypeOK' BY <2>0 DEF TypeOK
  <2>2. JobsAreSlots'
    <3>1. results[next] = ZeroResult
      BY <2>0 DEF SlotsSettle
    <3>2. \A v \in Workers : job[v] # next
      BY <2>0 DEF JobsAreSlots, TypeOK
    <3>3. \A v \in Workers : job'[v] = IF v = w THEN next ELSE job[v]
      BY DEF TypeOK
    <3>4. OneWriterPerSlot'
      BY <2>0, <3>1, <3>2, <3>3 DEF JobsAreSlots, OneWriterPerSlot
    <3>5. \A v \in Workers : job'[v] # 0 => job'[v] < next'
      BY <2>0, <3>3 DEF JobsAreSlots, TypeOK
    <3>6. \A v \in Workers : job'[v] # 0 <=> worker'[v] \in {"received", "lint"}
      BY <2>0, <3>3 DEF JobsAreSlots, TypeOK
    <3> QED BY <3>4, <3>5, <3>6 DEF JobsAreSlots
  <2>3. SlotsSettle'
    <3>1. job'[w] = next
      BY DEF TypeOK
    <3>2. \A v \in Workers : job[v] # 0 => job'[v] = job[v]
      BY DEF JobsAreSlots, TypeOK
    <3>3. ASSUME NEW i \in Indices, i < next'
          PROVE \/ results'[i] = Expected[i]
                \/ cancelled'
                \/ \E v \in Workers : job'[v] = i
      <4>1. CASE i = next BY <4>1, <3>1
      <4>2. CASE i < next BY <4>2, <3>2 DEF SlotsSettle
      <4> QED BY <3>3, <4>1, <4>2, <2>0
    <3> QED BY <3>3, <2>0 DEF SlotsSettle, CancelledResult, Expected, TypeOK
  <2>4. LoopEnds' /\ AnswerIsFinal' BY DEF LoopEnds, AnswerIsFinal, DeliveredInFull
  <2>5. WorkersLeave' BY DEF WorkersLeave, NoWorkerOutlivesCall, TypeOK
  <2> QED BY <2>1, <2>2, <2>3, <2>4, <2>5
<1>6. CASE Close
  <2>1. TypeOK' BY <1>6 DEF Close, TypeOK
  <2>2. JobsAreSlots' BY <1>6 DEF Close, JobsAreSlots, OneWriterPerSlot
  <2>3. SlotsSettle' BY <1>6 DEF Close, SlotsSettle, CancelledResult, Expected
  <2>4. LoopEnds' /\ WorkersLeave' /\ AnswerIsFinal'
    BY <1>6 DEF Close, LoopEnds, WorkersLeave, NoWorkerOutlivesCall, AnswerIsFinal, DeliveredInFull
  <2> QED BY <2>1, <2>2, <2>3, <2>4
<1>7. CASE Wait
  <2>1. TypeOK' BY <1>7 DEF Wait, TypeOK
  <2>2. JobsAreSlots' BY <1>7 DEF Wait, JobsAreSlots, OneWriterPerSlot
  <2>3. SlotsSettle' BY <1>7 DEF Wait, SlotsSettle, CancelledResult, Expected
  <2>4. LoopEnds' /\ WorkersLeave' /\ AnswerIsFinal'
    BY <1>7 DEF Wait, LoopEnds, WorkersLeave, NoWorkerOutlivesCall, AnswerIsFinal, DeliveredInFull
  <2> QED BY <2>1, <2>2, <2>3, <2>4
<1>8. CASE Decide
  <2>1. TypeOK'
    BY <1>8 DEF Decide, Return, TypeOK, Batch!Refused
  <2>2. JobsAreSlots' BY <1>8 DEF Decide, JobsAreSlots, OneWriterPerSlot
  <2>3. SlotsSettle' BY <1>8 DEF Decide, SlotsSettle, CancelledResult, Expected
  <2>4. LoopEnds' /\ WorkersLeave'
    BY <1>8 DEF Decide, Return, LoopEnds, WorkersLeave, NoWorkerOutlivesCall
  <2>5. AnswerIsFinal'
    <3>1. CASE cancelled
      BY <1>8, <3>1 DEF Decide, Return, AnswerIsFinal, DeliveredInFull, Batch!Refused, Batch!Pending
    <3>2. CASE ~cancelled
      <4>1. \A i \in 1..NumPaths : results[i] = Expected[i]
        BY <1>8, <3>2 DEF Decide, LoopEnds, WorkersLeave, JobsAreSlots, SlotsSettle
      <4>2. results = [i \in 1..NumPaths |-> Expected[i]]
        BY <4>1 DEF TypeOK
      <4>3. answer' = Batch!Delivered
        BY <1>8, <3>2, <4>2 DEF Decide, Return, Batch!Delivered, Expected, Indices
      <4>4. caller' = "returned" /\ Batch!Delivered # Batch!Pending
        <5>1. Batch!Delivered.state # Batch!Pending.state
          BY DEF Batch!Delivered, Batch!Pending
        <5> QED BY <5>1, <1>8 DEF Decide, Return
      <4> QED
        BY <4>3, <4>4 DEF AnswerIsFinal, DeliveredInFull
    <3> QED BY <3>1, <3>2
  <2> QED BY <2>1, <2>2, <2>3, <2>4, <2>5
<1>9. QED
  BY <1>1, <1>2, <1>3, <1>4, <1>5, <1>6, <1>7, <1>8 DEF Caller

LEMMA WorkerStep == ASSUME IInv, NEW w \in Workers, Worker(w) PROVE IInv'
<1> USE PathsAssumption DEF IInv, Indices
<1>1. CASE ReceiveClosed(w)
  <2> USE <1>1 DEF ReceiveClosed
  <2>1. TypeOK' BY DEF TypeOK
  <2>2. JobsAreSlots' BY DEF JobsAreSlots, OneWriterPerSlot, TypeOK
  <2>3. SlotsSettle' BY DEF SlotsSettle, CancelledResult, Expected
  <2>4. LoopEnds' /\ WorkersLeave' /\ AnswerIsFinal'
    BY DEF LoopEnds, WorkersLeave, NoWorkerOutlivesCall, AnswerIsFinal, DeliveredInFull, TypeOK
  <2> QED BY <2>1, <2>2, <2>3, <2>4
<1>2. CASE Abandon(w)
  <2> USE <1>2 DEF Abandon
  <2>1. TypeOK' BY DEF TypeOK
  <2>2. JobsAreSlots' BY DEF JobsAreSlots, OneWriterPerSlot, TypeOK
  <2>3. SlotsSettle' BY DEF SlotsSettle, CancelledResult, Expected
  <2>4. LoopEnds' /\ WorkersLeave' /\ AnswerIsFinal'
    BY DEF LoopEnds, WorkersLeave, NoWorkerOutlivesCall, AnswerIsFinal, DeliveredInFull, TypeOK
  <2> QED BY <2>1, <2>2, <2>3, <2>4
<1>3. CASE BeginLint(w)
  <2> USE <1>3 DEF BeginLint
  <2>1. TypeOK' BY DEF TypeOK
  <2>2. JobsAreSlots' BY DEF JobsAreSlots, OneWriterPerSlot, TypeOK
  <2>3. SlotsSettle' BY DEF SlotsSettle, CancelledResult, Expected
  <2>4. LoopEnds' /\ WorkersLeave' /\ AnswerIsFinal'
    BY DEF LoopEnds, WorkersLeave, NoWorkerOutlivesCall, AnswerIsFinal, DeliveredInFull, TypeOK
  <2> QED BY <2>1, <2>2, <2>3, <2>4
<1>4. CASE EndLint(w)
  <2> USE <1>4 DEF EndLint
  <2>1. job[w] \in Indices /\ job[w] < next
    BY DEF JobsAreSlots, TypeOK
  <2>2. PICK r \in LintFile(job[w]) : results' = [results EXCEPT ![job[w]] = r]
    OBVIOUS
  <2>3. r = Expected[job[w]] \/ (cancelled /\ r = CancelledResult(job[w]))
    BY DEF LintFile
  <2>4. r \in Result
    BY <2>1, <2>3 DEF Result, Expected, CancelledResult, Status
  <2>5. TypeOK'
    BY <2>1, <2>2, <2>4 DEF TypeOK
  <2>6. JobsAreSlots'
    <3>1. \A v \in Workers : job'[v] = IF v = w THEN 0 ELSE job[v]
      BY DEF TypeOK
    <3>2. \A v \in Workers : job'[v] # 0 => results'[job'[v]] = ZeroResult
      BY <2>1, <2>2, <3>1 DEF JobsAreSlots, OneWriterPerSlot, TypeOK
    <3> QED BY <3>1, <3>2 DEF JobsAreSlots, OneWriterPerSlot, TypeOK
  <2>7. SlotsSettle'
    <3>1. \A i \in Indices : results'[i] = IF i = job[w] THEN r ELSE results[i]
      BY <2>2 DEF TypeOK
    <3>2. ASSUME NEW i \in Indices, i < next, ~cancelled, results'[i] # Expected[i]
          PROVE \E v \in Workers : job'[v] = i
      <4>1. i # job[w] /\ results[i] # Expected[i]
        BY <2>3, <3>1, <3>2
      <4>2. PICK v \in Workers : job[v] = i
        BY <3>2, <4>1 DEF SlotsSettle
      <4> QED BY <4>1, <4>2 DEF TypeOK
    <3> QED
      BY <2>1, <2>3, <3>1, <3>2 DEF SlotsSettle, CancelledResult, Expected, TypeOK
  <2>8. LoopEnds' /\ WorkersLeave' /\ AnswerIsFinal'
    BY DEF LoopEnds, WorkersLeave, NoWorkerOutlivesCall, AnswerIsFinal, DeliveredInFull, TypeOK
  <2> QED BY <2>5, <2>6, <2>7, <2>8
<1>5. QED
  BY <1>1, <1>2, <1>3, <1>4 DEF Worker

LEMMA NextIInv == IInv /\ [Next]_vars => IInv'
<1> SUFFICES ASSUME IInv, [Next]_vars PROVE IInv'
  OBVIOUS
<1>1. CASE Cancel
  <2> USE <1>1 DEF Cancel, IInv
  <2>1. TypeOK' BY DEF TypeOK
  <2>2. JobsAreSlots' BY DEF JobsAreSlots, OneWriterPerSlot
  <2>3. SlotsSettle' BY DEF SlotsSettle, CancelledResult, Expected
  <2>4. LoopEnds' /\ WorkersLeave' /\ AnswerIsFinal'
    BY DEF LoopEnds, WorkersLeave, NoWorkerOutlivesCall, AnswerIsFinal, DeliveredInFull
  <2> QED BY <2>1, <2>2, <2>3, <2>4
<1>2. CASE Terminated \/ UNCHANGED vars
  BY <1>2 DEF Terminated, vars, IInv, TypeOK, JobsAreSlots, OneWriterPerSlot,
    SlotsSettle, CancelledResult, Expected, LoopEnds, WorkersLeave,
    NoWorkerOutlivesCall, AnswerIsFinal, DeliveredInFull
<1>3. QED
  BY <1>1, <1>2, CallerStep, WorkerStep DEF Next

-----------------------------------------------------------------------------
(* What follows from it. *)

\* IInv holds in every state, for every number of paths and workers.
THEOREM Invariance == Spec => []IInv
  BY InitIInv, NextIInv, PTL DEF Spec

\* Every variable keeps its type (TypeOK).
THEOREM TypeCorrect == Spec => []TypeOK
<1>1. IInv => TypeOK
  BY DEF IInv
<1>2. QED
  BY <1>1, Invariance, PTL

\* A slice that is delivered is complete, in order, and holds no result of a
\* cancelled check (DeliveredInFull).
THEOREM DeliveryIsComplete == Spec => []DeliveredInFull
<1>1. IInv => DeliveredInFull
  BY DEF IInv, AnswerIsFinal
<1>2. QED
  BY <1>1, Invariance, PTL

\* No worker runs once the call has returned (NoWorkerOutlivesCall).
THEOREM PoolIsDrained == Spec => []NoWorkerOutlivesCall
<1>1. IInv => NoWorkerOutlivesCall
  BY DEF IInv, WorkersLeave
<1>2. QED
  BY <1>1, Invariance, PTL

\* No two workers share a slot and none rewrites one (OneWriterPerSlot).
THEOREM SlotsAreUnshared == Spec => []OneWriterPerSlot
<1>1. IInv => OneWriterPerSlot
  BY DEF IInv, JobsAreSlots
<1>2. QED
  BY <1>1, Invariance, PTL

\* The pool implements the safety part of LintBatch: every step answers the
\* call as LintBatch would, cancels it, or changes nothing LintBatch sees.
THEOREM ImplementsBatch == Spec => Batch!Init /\ [][Batch!Next]_(Batch!vars)
<1>1. Init => Batch!Init
  BY DEF Init, Batch!Init
<1>2. ASSUME IInv, IInv', [Next]_vars
      PROVE [Batch!Next]_(Batch!vars)
  <2>1. CASE Caller
    <3>1. CASE ReturnAtOnce
      BY <1>2, <3>1 DEF ReturnAtOnce, Return, IInv, AnswerIsFinal, Batch!Next, Batch!Deliver, Batch!Refuse, Batch!vars
    <3>2. CASE Decide
      <4>1. cancelled' = cancelled /\ answer = Batch!Pending
        BY <1>2, <3>2 DEF Decide, IInv, AnswerIsFinal
      <4>2. CASE cancelled
        BY <3>2, <4>1, <4>2 DEF Decide, Return, Batch!Next, Batch!Refuse
      <4>3. CASE ~cancelled
        <5>1. answer' = Batch!Delivered
          BY <1>2, <3>2, <4>3 DEF Decide, Return, IInv, AnswerIsFinal, DeliveredInFull
        <5> QED
          BY <4>1, <4>3, <5>1 DEF Batch!Next, Batch!Deliver
      <4> QED BY <4>2, <4>3
    <3>3. CASE Start \/ LoopHead \/ SelectDone \/ (\E w \in Workers : SelectSend(w)) \/ Close \/ Wait
      BY <3>3 DEF Start, LoopHead, SelectDone, SelectSend, Close, Wait, Batch!vars
    <3> QED BY <2>1, <3>1, <3>2, <3>3 DEF Caller
  <2>2. CASE \E w \in Workers : Worker(w)
    BY <2>2 DEF Worker, ReceiveClosed, Abandon, BeginLint, EndLint, Batch!vars
  <2>3. CASE Cancel
    BY <2>3 DEF Cancel, Batch!Next, Batch!Cancel
  <2>4. CASE Terminated \/ UNCHANGED vars
    BY <2>4 DEF Terminated, vars, Batch!vars
  <2> QED BY <1>2, <2>1, <2>2, <2>3, <2>4 DEF Next
<1>3. QED
  BY <1>1, <1>2, Invariance, PTL DEF Spec
=============================================================================
