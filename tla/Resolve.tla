------------------------------ MODULE Resolve ------------------------------
(***************************************************************************)
(* How a parsed config is made into the one the collector reads: aliases   *)
(* and merge keys checked (expandedSize, validateNode) and then replaced   *)
(* in place (resolve), in pkg/config/resolve.go.                           *)
(*                                                                         *)
(* A document is a function from its nodes to [kind, items].  The items of *)
(* a mapping are [key, node], those of a sequence have no key, and an      *)
(* alias has the one node it stands for.  A key is a scalar and has a node *)
(* of its own, which only counts; Complex is a key that is no scalar.      *)
(***************************************************************************)
EXTENDS Integers, Sequences, SequencesExt, FiniteSets

CONSTANT MaxExpandedNodes  \* maxExpandedNodes

ASSUME LimitAssumption == MaxExpandedNodes \in Nat

MergeKey == "<<"
Complex  == "complex"
NoKey    == "none"

\* aliasTarget, where no cycle is left to follow.
RECURSIVE AliasTarget(_, _)
AliasTarget(doc, n) ==
  IF doc[n].kind = "alias" THEN AliasTarget(doc, doc[n].items[1].node) ELSE n

Targets(doc, n) == [i \in DOMAIN doc[n].items |-> AliasTarget(doc, doc[n].items[i].node)]

\* The mappings a merge names: one, or the items of a sequence.
MergeNames(doc, n) ==
  LET v == AliasTarget(doc, n)
  IN  IF doc[v].kind = "sequence" THEN ToSet(Targets(doc, v)) ELSE {v}

\* validateNode; duplicate keys are not its business.
NodeIsValid(doc, n) ==
  doc[n].kind = "mapping" =>
    \A e \in ToSet(doc[n].items) :
      /\ e.key # Complex
      /\ e.key = MergeKey =>
           \A s \in MergeNames(doc, e.node) : doc[s].kind = "mapping"

-----------------------------------------------------------------------------
(* expandedSize: one visit of each node, which sizes remembers; Unfinished *)
(* marks the nodes the walk is inside of.                                   *)

Unknown    == 0
Unfinished == -1

\* An alias to a node the walk is inside of.
ClosesSeen(sizes, target)  == sizes[target] # Unknown
ClosesCycle(sizes, target) == sizes[target] = Unfinished

\* Each child adds its size, and a mapping's its key; past the limit the walk
\* ends with an error.
RECURSIVE Visit(_, _, _)
VisitChildAsWritten(doc, n, acc, e) ==
  LET st   == Visit(doc, [sizes |-> acc.sizes, error |-> "none"], e.node)
      size == acc.size + (IF doc[n].kind = "alias" THEN 1 ELSE st.sizes[e.node])
  IN  IF acc.error # "none" THEN acc
      ELSE IF st.error # "none" THEN [acc EXCEPT !.error = st.error]
      ELSE [sizes |-> st.sizes, size |-> size,
            error |-> IF size > MaxExpandedNodes THEN "too large" ELSE "none"]
VisitChild(doc, n, acc, e) ==
  LET st   == Visit(doc, [sizes |-> acc.sizes, error |-> "none"], e.node)
      size == acc.size + st.sizes[e.node] + (IF doc[n].kind = "mapping" THEN 1 ELSE 0)
  IN  IF acc.error # "none" THEN acc
      ELSE IF st.error # "none" THEN [acc EXCEPT !.error = st.error]
      ELSE [sizes |-> st.sizes, size |-> size,
            error |-> IF size > MaxExpandedNodes THEN "too large" ELSE "none"]
VisitNode(doc, st, n) ==
  LET sizes == [st.sizes EXCEPT ![n] = Unfinished]
      done  == FoldLeft(LAMBDA acc, e : VisitChild(doc, n, acc, e),
                        [sizes |-> sizes, size |-> 1, error |-> "none"], doc[n].items)
  IN  IF doc[n].kind = "alias" /\ ClosesCycle(sizes, doc[n].items[1].node)
      THEN [st EXCEPT !.error = "cyclic"]
      ELSE IF done.error # "none" THEN [st EXCEPT !.error = done.error]
      ELSE IF ~NodeIsValid(doc, n) THEN [st EXCEPT !.error = "invalid"]
      ELSE [sizes |-> [done.sizes EXCEPT ![n] = done.size], error |-> "none"]
Visit(doc, st, n) ==
  IF st.sizes[n] # Unknown THEN st ELSE VisitNode(doc, st, n)

\* "none", or why Parse refuses the document.
Preflight(doc, root) ==
  Visit(doc, [sizes |-> [n \in DOMAIN doc |-> Unknown], error |-> "none"], root).error

-----------------------------------------------------------------------------
(* resolve: the nodes rewritten in place, each once. *)

\* The pairs the merges supply that the mapping does not have: its own keys
\* win, then the first merge that carries a key.
MergedEntriesAll(keys, pairs) ==
  SelectSeq(pairs, LAMBDA e : e.key \notin keys)
MergedEntries(keys, pairs) ==
  LET kept == SelectSeq([i \in DOMAIN pairs |-> i],
                LAMBDA i : /\ pairs[i].key \notin keys
                           /\ \A j \in 1..(i - 1) : pairs[j].key # pairs[i].key)
  IN  [k \in DOMAIN kept |-> pairs[kept[k]]]

RECURSIVE Value(_, _)

\* mergeSources: the sources of a merge, rewritten before they are read.
MergeSourcesAsWritten(doc, n) ==
  LET v == AliasTarget(doc, n)
  IN  [doc |-> doc, from |-> IF doc[v].kind = "mapping" THEN <<v>> ELSE Targets(doc, v)]
MergeSources(doc, n) ==
  LET v    == AliasTarget(doc, n)
      doc2 == Value(doc, n)
  IN  [doc |-> doc2, from |-> IF doc2[v].kind = "mapping" THEN <<v>> ELSE Targets(doc2, v)]

\* mapping, one entry on.
MapEntry(acc, e) ==
  IF e.key = MergeKey
  THEN LET src == MergeSources(acc.doc, e.node)
       IN  [acc EXCEPT !.doc = src.doc, !.merged = @ \o src.from]
  ELSE [acc EXCEPT !.doc = Value(acc.doc, e.node),
                   !.local = Append(@, [key |-> e.key, node |-> AliasTarget(acc.doc, e.node)])]

RewriteMapping(doc, n) ==
  LET acc   == FoldLeft(MapEntry, [doc |-> doc, local |-> <<>>, merged |-> <<>>], doc[n].items)
      keys  == {e.key : e \in ToSet(acc.local)}
      pairs == FlattenSeq([i \in DOMAIN acc.merged |-> acc.doc[acc.merged[i]].items])
  IN  [acc.doc EXCEPT ![n].items = acc.local \o MergedEntries(keys, pairs)]

RewriteSequence(doc, n) ==
  FoldLeftDomain(LAMBDA acc, i :
                   [Value(acc, doc[n].items[i].node)
                      EXCEPT ![n].items[i].node = AliasTarget(acc, doc[n].items[i].node)],
                 doc, doc[n].items)

\* value and walk: the node an alias stands for, rewritten unless it was.
Value(doc, n) ==
  LET v    == AliasTarget(doc, n)
      doc2 == [doc EXCEPT ![v].walked = TRUE]
  IN  IF doc[v].walked THEN doc
      ELSE IF doc[v].kind = "mapping" THEN RewriteMapping(doc2, v)
      ELSE RewriteSequence(doc2, v)

Resolved(doc, root) ==
  Value([n \in DOMAIN doc |-> [kind |-> doc[n].kind, items |-> doc[n].items, walked |-> FALSE]],
        root)
=============================================================================
