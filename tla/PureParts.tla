----------------------------- MODULE PureParts -----------------------------
(***************************************************************************)
(* The pure parts of the linter and of schemagen, each asked one question  *)
(* and checked against what its answer should mean: the order of versions  *)
(* (Versions) and the diff of two schemas (SchemaDiff), the reference      *)
(* index and its walk upstream (References), and, here, what rules read of *)
(* a document with aliases and merges (Resolve).                           *)
(***************************************************************************)
EXTENDS SchemaDiff, Resolve, References, Asking, TLC

Root == <<>>   \* the root node of a document

\* Parse: the checks, then the rewrite.
Read ==
  /\ Asked("read")
  /\ LET error == Preflight(task.doc, Root)
     IN  answer' = [error |-> error,
                    doc   |-> IF error = "none" THEN Resolved(task.doc, Root) ELSE task.doc]
  /\ UNCHANGED task

Next == CompareStep \/ Read \/ Upstream

-----------------------------------------------------------------------------
(* What a document means, read off the graph as it was written. *)

Below(doc, n) == {doc[n].items[i].node : i \in DOMAIN doc[n].items}

RECURSIVE Reached(_, _)
Reached(doc, nodes) ==
  LET more == nodes \cup UNION {Below(doc, n) : n \in nodes}
  IN  IF more = nodes THEN nodes ELSE Reached(doc, more)

Acyclic(doc) == \A n \in Reached(doc, {Root}) : n \notin Reached(doc, Below(doc, n))

RECURSIVE TreeSize(_, _)
TreeSize(doc, n) ==
  FoldLeft(LAMBDA sum, e : sum + TreeSize(doc, e.node) + (IF doc[n].kind = "mapping" THEN 1 ELSE 0),
           1, doc[n].items)

\* The mappings merged into n, in the order they are written.
MergedInto(doc, n) ==
  FlattenSeq([i \in DOMAIN doc[n].items |->
    LET e == doc[n].items[i]
        v == AliasTarget(doc, e.node)
    IN  IF e.key # MergeKey THEN <<>>
        ELSE IF doc[v].kind = "sequence" THEN Targets(doc, v) ELSE <<v>>])

\* The node read under a key, as a set of one or none: the mapping's own, or
\* that of the first merge with one.
RECURSIVE Under(_, _, _)
Under(doc, n, key) ==
  LET own     == SelectSeq(doc[n].items, LAMBDA e : e.key = key)
      sources == MergedInto(doc, n)
      with    == {i \in DOMAIN sources : Under(doc, sources[i], key) # {}}
  IN  IF own # <<>> THEN {Last(own).node}
      ELSE IF with = {} THEN {}
      ELSE Under(doc, sources[CHOOSE i \in with : \A j \in with : i <= j], key)

\* Every path into the document with the node it leads to.
RECURSIVE Meaning(_, _)
Meaning(doc, n) ==
  LET v == AliasTarget(doc, n)
      keys == {e.key : e \in UNION {ToSet(doc[m].items) : m \in Reached(doc, {v})}} \ {MergeKey, NoKey}
      Through(step, child) == {<<<<step>> \o m[1], m[2]>> : m \in Meaning(doc, child)}
  IN  {<<<<>>, v>>} \cup
      CASE doc[v].kind = "mapping" ->
             UNION {UNION {Through(k, child) : child \in Under(doc, v, k)} : k \in keys}
        [] doc[v].kind = "sequence" ->
             UNION {Through(ToString(i), doc[v].items[i].node) : i \in DOMAIN doc[v].items}
        [] OTHER -> {}

\* Rules read what the collector reads: after the rewrite every path leads to
\* the node it led to in the document as written, merges applied the YAML way
\* and findings positioned in the anchor, and no alias or merge is left.
MergedAsWritten ==
  Answered("read") /\ answer.error = "none" =>
    /\ Meaning(answer.doc, Root) = Meaning(task.doc, Root)
    /\ \A n \in Reached(answer.doc, {Root}) :
         /\ answer.doc[n].kind # "alias"
         /\ \A e \in ToSet(answer.doc[n].items) : e.key # MergeKey

\* The one pass over the written graph refuses exactly the documents with a
\* cycle, a tree beyond the limit or a merge of something else than mappings:
\* remembering sizes neither takes a shared anchor for a cycle nor lets one
\* through (expandedSize).
PreflightIsExact ==
  Answered("read") =>
    (answer.error = "none" <=>
       /\ Acyclic(task.doc)
       /\ TreeSize(task.doc, Root) <= MaxExpandedNodes
       /\ \A n \in Reached(task.doc, {Root}) : NodeIsValid(task.doc, n))

\* The limit on what was written bounds every walk over what is read
\* (maxExpandedNodes).
ReadingStaysBounded ==
  Answered("read") /\ answer.error = "none" =>
    TreeSize(answer.doc, Root) <= MaxExpandedNodes

\* What rules are given is what the collector would run, and every document
\* fit for it is given to them (Parse).
ReadAsTheCollectorReads == MergedAsWritten /\ PreflightIsExact /\ ReadingStaysBounded
=============================================================================
