------------------------------- MODULE Asking -------------------------------
(***************************************************************************)
(* One question to one of the pure parts, and its answer.  The modules     *)
(* that state what an answer should mean share these two variables.        *)
(***************************************************************************)

VARIABLES
  task,   \* what is asked
  answer  \* what came back, Unasked before

asking == <<task, answer>>

Unasked == [asked |-> FALSE]

Asked(what) == task.of = what /\ answer = Unasked

Answered(what) == task.of = what /\ answer # Unasked
=============================================================================
