------------------------------ MODULE LintAll ------------------------------
(***************************************************************************)
(* The worker pool of Linter.LintAll (pkg/lint/linter.go).                 *)
(*                                                                         *)
(* One caller dispatches the indices of paths over an unbuffered channel   *)
(* to a fixed set of workers; a worker checks the file of the index it     *)
(* received and writes results[i].  The context the call runs under can be *)
(* cancelled between any two steps.  Sending and receiving on the channel  *)
(* is one step of both parties, as it is for an unbuffered Go channel.     *)
(***************************************************************************)
EXTENDS Integers

CONSTANTS
  NumPaths,    \* len(paths)
  Paths,       \* Paths[i]: the i-th path; a path may occur twice
  Concurrencies, \* the worker counts a caller may ask for, any integers
  Verdict,     \* Verdict[p]: the status LintFile gives p when it is let finish
  NoPath       \* the path of a Result nobody has written

Status == {"valid", "invalid", "skipped", "error"}

ASSUME PathsAssumption ==
  /\ NumPaths \in Nat
  /\ Paths \in [1..NumPaths -> DOMAIN Verdict]
  /\ Verdict \in [DOMAIN Verdict -> Status]
  /\ NoPath \notin DOMAIN Verdict

ASSUME ConcurrencyAssumption == Concurrencies \subseteq Int

VARIABLES
  n,         \* the worker count asked for
  cancelled, \* ctx.Err() # nil
  caller,    \* where the calling goroutine is
  next,      \* the index the dispatch loop is at
  closed,    \* whether the channel is closed
  worker,    \* where each worker goroutine is
  job,       \* the index each worker received, 0 for none
  results,   \* the slice every worker writes into
  answer     \* what the call returned

vars == <<n, cancelled, caller, next, closed, worker, job, results, answer>>

Indices == 1..NumPaths

WorkerCountUnclamped == n

\* n = min(max(n, 1), len(paths))
WorkerCount ==
  LET atLeastOne == IF n < 1 THEN 1 ELSE n
  IN  IF atLeastOne > NumPaths THEN NumPaths ELSE atLeastOne

\* Goroutines there may be; those past WorkerCount are never born.
Workers == Indices

Result == [path : DOMAIN Verdict, status : Status \cup {"cancelled"}]

\* An element make([]Result, n) creates: its status is none of the four, so a
\* Summary counts it nowhere.
ZeroResult == [path |-> NoPath, status |-> ""]

Expected == [i \in Indices |-> [path |-> Paths[i], status |-> Verdict[Paths[i]]]]

\* The Error result whose Err is the context's error.
CancelledResult(i) == [path |-> Paths[i], status |-> "cancelled"]

\* What LintFile may return when it ends now: under a live context the
\* file's own result; under a cancelled one also the cancelled result, as
\* the last of its checks of the context may have come before or after.
LintFile(i) ==
  {Expected[i]} \cup (IF cancelled THEN {CancelledResult(i)} ELSE {})

Batch == INSTANCE LintBatch WITH expected <- Expected

Init ==
  /\ n \in Concurrencies
  /\ cancelled = FALSE
  /\ caller = "enter"
  /\ next = 1
  /\ closed = FALSE
  /\ worker = [w \in Workers |-> "unborn"]
  /\ job = [w \in Workers |-> 0]
  /\ results = [i \in Indices |-> ZeroResult]
  /\ answer = Batch!Pending

-----------------------------------------------------------------------------
(* The caller. *)

Return(a) ==
  /\ caller' = "returned"
  /\ answer' = a

\* A call that is cancelled before it starts, or has nothing to check,
\* returns before any worker exists.
ReturnAtOnce ==
  /\ caller = "enter"
  /\ cancelled \/ NumPaths = 0
  /\ Return(IF cancelled THEN Batch!Refused ELSE Batch!Delivered)
  /\ UNCHANGED <<n, cancelled, next, closed, worker, job, results>>

Start ==
  /\ caller = "enter"
  /\ ~cancelled
  /\ NumPaths > 0
  /\ caller' = "dispatch"
  /\ worker' = [w \in Workers |-> IF w <= WorkerCount THEN "receive" ELSE "unborn"]
  /\ UNCHANGED <<n, cancelled, next, closed, job, results, answer>>

\* The head of the dispatch loop: the range ends, the context check breaks
\* out of it, or the loop goes on to the select.
LoopHeadPastEnd ==
  /\ caller = "dispatch"
  /\ caller' = IF next > NumPaths + 1 \/ cancelled THEN "close" ELSE "select"
  /\ UNCHANGED <<n, cancelled, next, closed, worker, job, results, answer>>
LoopHead ==
  /\ caller = "dispatch"
  /\ caller' = IF next > NumPaths \/ cancelled THEN "close" ELSE "select"
  /\ UNCHANGED <<n, cancelled, next, closed, worker, job, results, answer>>

SelectDone ==
  /\ caller = "select"
  /\ cancelled
  /\ caller' = "close"
  /\ UNCHANGED <<n, cancelled, next, closed, worker, job, results, answer>>

\* case in <- i, which some worker must be ready to receive.
SelectSendRepeats(w) ==
  /\ caller = "select"
  /\ worker[w] = "receive"
  /\ worker' = [worker EXCEPT ![w] = "received"]
  /\ job' = [job EXCEPT ![w] = next]
  /\ \E i \in {next, next + 1} : next' = i
  /\ caller' = "dispatch"
  /\ UNCHANGED <<n, cancelled, closed, results, answer>>
SelectSend(w) ==
  /\ caller = "select"
  /\ worker[w] = "receive"
  /\ worker' = [worker EXCEPT ![w] = "received"]
  /\ job' = [job EXCEPT ![w] = next]
  /\ next' = next + 1
  /\ caller' = "dispatch"
  /\ UNCHANGED <<n, cancelled, closed, results, answer>>

Close ==
  /\ caller = "close"
  /\ closed' = TRUE
  /\ caller' = "wait"
  /\ UNCHANGED <<n, cancelled, next, worker, job, results, answer>>

\* workers.Wait()
WaitForIdle ==
  /\ caller = "wait"
  /\ \A w \in Workers : worker[w] \in {"unborn", "receive", "exited"}
  /\ caller' = "decide"
  /\ UNCHANGED <<n, cancelled, next, closed, worker, job, results, answer>>
Wait ==
  /\ caller = "wait"
  /\ \A w \in Workers : worker[w] \in {"unborn", "exited"}
  /\ caller' = "decide"
  /\ UNCHANGED <<n, cancelled, next, closed, worker, job, results, answer>>

\* The last check of the context decides between the results and an error.
DecideUnchecked ==
  /\ caller = "decide"
  /\ Return([state |-> "ok", results |-> results])
  /\ UNCHANGED <<n, cancelled, next, closed, worker, job, results>>
Decide ==
  /\ caller = "decide"
  /\ Return(IF cancelled THEN Batch!Refused ELSE [state |-> "ok", results |-> results])
  /\ UNCHANGED <<n, cancelled, next, closed, worker, job, results>>

-----------------------------------------------------------------------------
(* A worker. *)

\* for i := range in ends once the channel is closed and, being unbuffered,
\* empty.
ReceiveClosed(w) ==
  /\ worker[w] = "receive"
  /\ closed
  /\ worker' = [worker EXCEPT ![w] = "exited"]
  /\ UNCHANGED <<n, cancelled, caller, next, closed, job, results, answer>>

\* if ctx.Err() != nil { return }: the index just received is given up.
AbandonAlways(w) ==
  /\ worker[w] = "received"
  /\ worker' = [worker EXCEPT ![w] = "exited"]
  /\ job' = [job EXCEPT ![w] = 0]
  /\ UNCHANGED <<n, cancelled, caller, next, closed, results, answer>>
Abandon(w) ==
  /\ worker[w] = "received"
  /\ cancelled
  /\ worker' = [worker EXCEPT ![w] = "exited"]
  /\ job' = [job EXCEPT ![w] = 0]
  /\ UNCHANGED <<n, cancelled, caller, next, closed, results, answer>>

BeginLint(w) ==
  /\ worker[w] = "received"
  /\ ~cancelled
  /\ worker' = [worker EXCEPT ![w] = "lint"]
  /\ UNCHANGED <<n, cancelled, caller, next, closed, job, results, answer>>

\* results[i] = l.LintFile(ctx, paths[i])
EndLint(w) ==
  /\ worker[w] = "lint"
  /\ \E r \in LintFile(job[w]) : results' = [results EXCEPT ![job[w]] = r]
  /\ worker' = [worker EXCEPT ![w] = "receive"]
  /\ job' = [job EXCEPT ![w] = 0]
  /\ UNCHANGED <<n, cancelled, caller, next, closed, answer>>

-----------------------------------------------------------------------------

\* The signal handler, or whoever owns the context, cancels it.
Cancel ==
  /\ ~cancelled
  /\ cancelled' = TRUE
  /\ UNCHANGED <<n, caller, next, closed, worker, job, results, answer>>

\* The call has returned: nothing is left to run.
Terminated ==
  /\ caller = "returned"
  /\ \A w \in Workers : worker[w] \in {"unborn", "exited"}
  /\ UNCHANGED vars

Caller ==
  \/ ReturnAtOnce \/ Start
  \/ LoopHead \/ SelectDone \/ (\E w \in Workers : SelectSend(w))
  \/ Close \/ Wait \/ Decide

Worker(w) == ReceiveClosed(w) \/ Abandon(w) \/ BeginLint(w) \/ EndLint(w)

Next == Caller \/ (\E w \in Workers : Worker(w)) \/ Cancel \/ Terminated

\* The Go scheduler runs every goroutine that can run, and LintFile ends.
\* Nothing obliges anyone to cancel.
Fairness == WF_vars(Caller) /\ \A w \in Workers : WF_vars(Worker(w))

Spec == Init /\ [][Next]_vars /\ Fairness

-----------------------------------------------------------------------------
(* Properties. *)

\* The type of every variable, and of what the call returns.
TypeOK ==
  /\ n \in Concurrencies
  /\ cancelled \in BOOLEAN
  /\ caller \in {"enter", "dispatch", "select", "close", "wait", "decide", "returned"}
  /\ next \in 1..(NumPaths + 1)
  /\ closed \in BOOLEAN
  /\ worker \in [Workers -> {"unborn", "receive", "received", "lint", "exited"}]
  /\ job \in [Workers -> 0..NumPaths]
  /\ results \in [Indices -> Result \cup {ZeroResult}]
  /\ answer \in {Batch!Pending, Batch!Refused}
                  \cup [state : {"ok"}, results : [Indices -> Result \cup {ZeroResult}]]

\* LintAll's "one result per input, in input order, including duplicate
\* paths": a delivered slice holds at every index the full result of that
\* index's path - no slot a worker gave up, none a cancelled check filled.
DeliveredInFull ==
  answer.state = "ok" => answer = Batch!Delivered

\* "waits for every worker to finish": once the call has returned no worker
\* runs, so nothing can still write to the slice the caller now owns.
NoWorkerOutlivesCall ==
  caller = "returned" => \A w \in Workers : worker[w] \in {"unborn", "exited"}

\* results is written without a lock: an index is in the hands of at most one
\* worker, and of none once its slot is written.
OneWriterPerSlot ==
  \A v, w \in Workers :
    /\ job[v] # 0 /\ job[v] = job[w] => v = w
    /\ job[w] # 0 => results[job[w]] = ZeroResult

\* LintAll implements LintBatch, whose context is this one and whose answer
\* is what the call has returned.  With it comes that the call returns,
\* cancelled or not: the dispatcher cannot stay blocked sending to workers
\* that have left, nor Wait on one that never leaves.
BatchSpec == Batch!Spec
=============================================================================
