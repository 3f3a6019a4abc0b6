------------------------------ MODULE Secrets ------------------------------
(***************************************************************************)
(* The rule hardcoded-secret (pkg/rule/hardcodedsecret): the walk over the *)
(* settings of all components for a scalar that is a credential under the  *)
(* key it hangs from, or in a headers map.                                 *)
(*                                                                         *)
(* The parser resolves an alias to the node it names, so a document is a   *)
(* graph: a function from nodes to their kind and items, or a scalar's     *)
(* value - the scheme it opens with, if any, and what follows that.        *)
(***************************************************************************)
EXTENDS Sequences, SequencesExt, FiniteSets

CONSTANTS
  CredentialKeys,  \* keys that contain a name of the list
  LocationKeys,    \* of those, the ones that say where it is: _file, _url
  MetadataKeys,    \* those that say how to obtain it: _env, _type
  HeaderKeys       \* authorization and proxy-authorization

NoSettingKey == ""
HeadersKey == "headers"

NamesCredential(key, inHeaders) ==
  \/ inHeaders /\ key \in HeaderKeys
  \/ key \in CredentialKeys \ (LocationKeys \cup (IF inHeaders THEN {} ELSE MetadataKeys))

\* What follows a scheme is what is judged: an expansion or a placeholder is
\* no credential.
IsHardcodedSecret(key, value, inHeaders) ==
  /\ NamesCredential(key, inHeaders) \/ (inHeaders /\ value.scheme)
  /\ value.rest = "credential"

\* What a visit is remembered under.
VisitedNode(n, context) == [node |-> n]
Visited(n, context) == [node |-> n, key |-> context.key, inHeaders |-> context.inHeaders]

\* An item's context: a list hands its own key down.
ItemContextBare(kind, context, key) ==
  [key |-> key, inHeaders |-> context.inHeaders \/ key = HeadersKey, path |-> Append(context.path, IF kind = "sequence" THEN "[]" ELSE key)]
ItemContext(kind, context, key) ==
  IF kind = "sequence" THEN [context EXCEPT !.path = Append(@, "[]")]
  ELSE [key |-> key, inHeaders |-> context.inHeaders \/ key = HeadersKey, path |-> Append(context.path, key)]

\* The walk from n in its context, with the contexts visited and the hits so
\* far.
RECURSIVE FindSecrets(_, _, _, _)
FindSecrets(doc, acc, n, context) ==
  LET here  == Visited(n, context)
      start == [acc EXCEPT !.visited = @ \cup {here}]
  IN  IF here \in acc.visited THEN acc
      ELSE IF doc[n].kind # "scalar"
      THEN FoldLeft(LAMBDA a, e : FindSecrets(doc, a, e.node, ItemContext(doc[n].kind, context, e.key)), start, doc[n].items)
      ELSE IF IsHardcodedSecret(context.key, doc[n].value, context.inHeaders)
      THEN [start EXCEPT !.hits = Append(@, [node |-> n, path |-> context.path])]
      ELSE start

\* Check: the components in order, and each node once, where it is first hit.
ReportedAsFound(hits) == hits
ReportedOnce(hits) ==
  FoldLeft(LAMBDA told, h : IF \E t \in ToSet(told) : t.node = h.node THEN told ELSE Append(told, h), <<>>, hits)
HardcodedSecrets(doc, components) ==
  ReportedOnce(FoldLeft(LAMBDA acc, n : FindSecrets(doc, acc, n, [key |-> NoSettingKey, inHeaders |-> FALSE, path |-> <<n>>]),
                        [visited |-> {}, hits |-> <<>>], components).hits)
=============================================================================
