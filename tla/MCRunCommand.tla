---------------------------- MODULE MCRunCommand ----------------------------
(* Instances of RunCommand for TLC. *)
EXTENDS RunCommand, TLC

\* Standard input, a file, and one called what standard input is shown as.
MCOrder == <<"-", "a.yaml", "stdin">>
MCNames == {MCOrder[i] : i \in DOMAIN MCOrder}

\* The scan may find any of the names.
MCScansOf(names) ==
  LET InOrder(set) == SelectSeq(MCOrder, LAMBDA f : f \in set)
  IN  {[files |-> InOrder(set), onDisk |-> InOrder(set \ {StdinMarker})] : set \in SUBSET names}

MCScans == MCScansOf(MCNames)
=============================================================================
