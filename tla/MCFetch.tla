------------------------------ MODULE MCFetch ------------------------------
(* Instances of Fetch for TLC. *)
EXTENDS Fetch

\* A schema, which is published once, from an endpoint that may answer
\* anything; and an index, which is published again, from one that conforms.
MCSchema == [keep |-> "immutable", versions |-> 1, conforming |-> FALSE]
MCIndex  == [keep |-> "revalidated", versions |-> 2, conforming |-> TRUE]
MCDocuments == {MCSchema, MCIndex}
=============================================================================
