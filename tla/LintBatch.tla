----------------------------- MODULE LintBatch -----------------------------
(***************************************************************************)
(* What Linter.LintAll (pkg/lint/linter.go) promises its caller, with no   *)
(* workers and no channel: one call, answered once.  A call that is not    *)
(* cancelled is answered with one result per input, in input order, each   *)
(* being what LintFile says of that input; a call found cancelled at its   *)
(* end is answered with an error and no result at all.                     *)
(***************************************************************************)
VARIABLES
  expected,  \* expected[i]: the result LintFile gives the i-th input
  cancelled, \* whether the run's context is done
  answer     \* what the call returned: [state, results]

vars == <<expected, cancelled, answer>>

Pending   == [state |-> "pending", results |-> <<>>]
Refused   == [state |-> "cancelled", results |-> <<>>]
Delivered == [state |-> "ok", results |-> expected]

Init == cancelled = FALSE /\ answer = Pending

\* The context may be cancelled at any moment, the answer given or not.
Cancel == ~cancelled /\ cancelled' = TRUE /\ UNCHANGED <<expected, answer>>

Deliver ==
  /\ answer = Pending /\ ~cancelled
  /\ answer' = Delivered
  /\ UNCHANGED <<expected, cancelled>>

Refuse ==
  /\ answer = Pending /\ cancelled
  /\ answer' = Refused
  /\ UNCHANGED <<expected, cancelled>>

Next == Cancel \/ Deliver \/ Refuse

Spec == Init /\ [][Next]_vars /\ WF_vars(Deliver \/ Refuse)
=============================================================================
