----------------------------- MODULE Structure -----------------------------
(***************************************************************************)
(* The structure a config is read into (Parse and what it calls,           *)
(* pkg/config/parse.go) and the rules that judge how it was written:       *)
(* duplicate-key, unknown-top-level-key, unknown-service-key,              *)
(* unknown-pipeline-key, wrong-node-type, invalid-component-id,            *)
(* invalid-pipeline-key, service-required and empty-pipeline.              *)
(*                                                                         *)
(* A node is a tree, as every alias has been resolved: its kind, its value *)
(* if it is a scalar and its items with their keys otherwise.  A place is  *)
(* the path of keys that leads to it.                                      *)
(***************************************************************************)
EXTENDS Integers, Sequences, SequencesExt, FiniteSets, TLC

CONSTANTS
  Identifier,  \* what a raw identifier says: its type, whether it has a slash, its name
  TypeForms,   \* the types identifierType matches
  NameForms    \* the names identifierName matches, of at most 1024 bytes

SectionKeys   == {"receivers", "processors", "exporters", "extensions", "connectors"}
ServiceKeys   == {"extensions", "telemetry", "pipelines"}
PipelineKeys  == {"receivers", "processors", "exporters"}
TelemetryKeys == {"logs", "metrics", "traces"}
SignalTypes   == {"traces", "metrics", "logs", "profiles"}
ExpandedValue      == "${}"  \* a value with an expansion in it

NoNode == [kind |-> "absent", value |-> "", items |-> <<>>]

\* IsNull, of a node or of none, and IsExpansion.
IsNull(n)      == n.kind \in {"absent", "null"}
IsExpansion(n) == n.kind = "scalar" /\ n.value = ExpandedValue

-----------------------------------------------------------------------------
(* Reading. *)

\* entries, aware of nothing but mappings; the last with a key is the one
\* that is kept.
MappingEntries(n) == IF n.kind = "mapping" THEN n.items ELSE <<>>
EntriesOf(n, key) == SelectSeq(MappingEntries(n), LAMBDA e : e.key = key)
Kept(n, key) == LET with == EntriesOf(n, key) IN IF with = <<>> THEN NoNode ELSE Last(with).node
OtherKeys(n, keys) == {MappingEntries(n)[i].key : i \in DOMAIN MappingEntries(n)} \ keys

\* refs: the scalars of a sequence.
ItemsReadAll(n) == DOMAIN n.items
ItemsRead(n) == IF n.kind # "sequence" THEN {} ELSE {i \in DOMAIN n.items : n.items[i].node.kind \in {"scalar", "null"}}

ParsePipeline(e) ==
  [key |-> e.key, node |-> e.node, unknown |-> OtherKeys(e.node, PipelineKeys),
   slots |-> [slot \in PipelineKeys |-> Kept(e.node, slot)]]

ParseTelemetry(n) == [node |-> n, signals |-> [signal \in TelemetryKeys |-> Kept(n, signal)]]

\* Pipelines are kept from every block of them, all else from the last.
ParseService(n) ==
  LET blocks == EntriesOf(n, "pipelines")
      all    == FlattenSeq([i \in DOMAIN blocks |-> MappingEntries(blocks[i].node)])
  IN  [node |-> n, extensions |-> Kept(n, "extensions"), telemetry |-> ParseTelemetry(Kept(n, "telemetry")),
       pipelinesNode |-> Kept(n, "pipelines"), unknown |-> OtherKeys(n, ServiceKeys),
       pipelines |-> {ParsePipeline(all[i]) : i \in DOMAIN all}]

\* collectDuplicates: the places of all later occurrences, at any depth.
DuplicatesHere(n, path) ==
  {Append(path, MappingEntries(n)[i].key) :
     i \in {k \in DOMAIN MappingEntries(n) : \E j \in 1..(k - 1) : n.items[j].key = n.items[k].key}}
RECURSIVE CollectDuplicates(_, _)
CollectDuplicates(n, path) ==
  LET Step(i) == IF n.kind = "mapping" THEN n.items[i].key ELSE ToString(i)
      later   == {i \in DOMAIN MappingEntries(n) : \E j \in 1..(i - 1) : n.items[j].key = n.items[i].key}
  IN  {Append(path, Step(i)) : i \in later}
      \cup UNION {CollectDuplicates(n.items[i].node, Append(path, Step(i))) : i \in DOMAIN n.items}

ParseConfig(root) ==
  [sections   |-> [key \in SectionKeys |-> Kept(root, key)],
   service    |-> ParseService(Kept(root, "service")),
   unknown    |-> OtherKeys(root, SectionKeys \cup {"service"}),
   duplicates |-> CollectDuplicates(root, <<>>)]

-----------------------------------------------------------------------------
(* The rules, as sets of a rule and a place. *)

FoundAt(rule, places) == {<<rule, place>> : place \in places}
ServicePath == <<"service">>
PipelinePath(p) == <<"service", "pipelines", p.key>>

UnknownKeys(f) ==
  FoundAt("unknown-top-level-key", {<<k>> : k \in f.unknown})
    \cup FoundAt("unknown-service-key", {Append(ServicePath, k) : k \in f.service.unknown})
    \cup UNION {FoundAt("unknown-pipeline-key", {Append(PipelinePath(p), k) : k \in p.unknown}) : p \in f.service.pipelines}

\* The lists of the service block with their places.
SlotLists(f) ==
  {<<<<"service", "extensions">>, f.service.extensions>>}
    \cup UNION {{<<Append(PipelinePath(p), slot), p.slots[slot]>> : slot \in PipelineKeys} : p \in f.service.pipelines}

\* checkReferenceItems, checkSections, checkService and checkTelemetry.
NotScalars(list) == DOMAIN list.items \ ItemsRead(list)
WrongNodeType(f) ==
  LET ShapedAs(n, kind) == IsNull(n) \/ IsExpansion(n) \/ n.kind = kind
      telemetry == f.service.telemetry
  IN  FoundAt("wrong-node-type",
        {<<key>> : key \in {k \in SectionKeys : ~ShapedAs(f.sections[k], "mapping")}}
          \cup {l[1] : l \in {m \in SlotLists(f) : ~ShapedAs(m[2], "sequence")}}
          \cup UNION {{Append(l[1], ToString(i)) : i \in IF l[2].kind = "sequence" THEN NotScalars(l[2]) ELSE {}} : l \in SlotLists(f)}
          \cup (IF ShapedAs(telemetry.node, "mapping") THEN {} ELSE {<<"service", "telemetry">>})
          \cup {<<"service", "telemetry", signal>> :
                  signal \in {s \in TelemetryKeys : ~ShapedAs(telemetry.signals[s], "mapping")}})

\* IdentifierError.
IsMalformedAsRead(raw) ==
  Identifier[raw].type \notin TypeForms \/ Identifier[raw].name \notin NameForms \cup {""}
IsMalformed(raw) ==
  LET id == Identifier[raw]
  IN  \/ id.type \notin TypeForms
      \/ id.slash /\ id.name \notin NameForms

InvalidComponentId(f) ==
  FoundAt("invalid-component-id",
    UNION {{<<key, e.key>> : e \in {x \in ToSet(MappingEntries(f.sections[key])) : IsMalformed(x.key)}} : key \in SectionKeys}
      \cup UNION {{Append(l[1], ToString(i)) :
                     i \in {j \in ItemsRead(l[2]) : LET item == l[2].items[j].node
                                               IN  ~IsExpansion(item) /\ IsMalformed(item.value)}} : l \in SlotLists(f)})

InvalidPipelineKey(f) ==
  FoundAt("invalid-pipeline-key",
    {PipelinePath(p) : p \in {q \in f.service.pipelines : IsMalformed(q.key) \/ Identifier[q.key].type \notin SignalTypes}})

ServiceRequired(f) ==
  LET s == f.service
  IN  CASE IsExpansion(s.node) \/ IsExpansion(s.pipelinesNode) -> {}
        [] s.pipelinesNode.kind = "absent" /\ ~IsExpansion(s.node) -> FoundAt("service-required", {ServicePath})
        [] OTHER -> FoundAt("service-required", IF s.pipelines = {} THEN {<<"service", "pipelines">>} ELSE {})

EmptyPipelines(f) ==
  FoundAt("empty-pipeline",
    UNION {{Append(PipelinePath(p), slot) :
              slot \in {s \in {"receivers", "exporters"} : ItemsRead(p.slots[s]) = {} /\ ~IsExpansion(p.slots[s])}} :
           p \in {q \in f.service.pipelines : ~IsExpansion(q.node)}})

StructureFindings(f) ==
  FoundAt("duplicate-key", f.duplicates) \cup UnknownKeys(f) \cup WrongNodeType(f) \cup InvalidComponentId(f)
    \cup InvalidPipelineKey(f) \cup ServiceRequired(f) \cup EmptyPipelines(f)
=============================================================================
