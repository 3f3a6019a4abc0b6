--------------------------- MODULE MCVersionIndex ---------------------------
(* Instances of VersionIndex for TLC: two files of one run and one of another. *)
EXTENDS VersionIndex

MCRunOf == [c \in {"a", "b", "z"} |-> IF c = "z" THEN "run2" ELSE "run1"]

MCShipList == <<1, 2, 4>>
=============================================================================
