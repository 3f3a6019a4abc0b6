----------------------------- MODULE MCLintAll -----------------------------
(* Instances of LintAll for TLC. *)
EXTENDS LintAll

\* Three inputs, of which the first and the last are the same path.
MCPaths == <<"a.yaml", "b.yaml", "a.yaml">>

MCVerdict == [p \in {"a.yaml", "b.yaml"} |-> IF p = "a.yaml" THEN "valid" ELSE "invalid"]

\* No count at all, which is clamped to one worker, and a worker per input.
MCConcurrencies == {0, 3}
=============================================================================
