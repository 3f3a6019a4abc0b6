----------------------------- MODULE References -----------------------------
(***************************************************************************)
(* The reference index of one config (NewIndex, pkg/rule/index.go), the    *)
(* rules that read it, and what a provider may make of the config before   *)
(* the collector runs it.                                                  *)
(*                                                                         *)
(* A config has the declarations of each section, the extensions its       *)
(* service block starts, those its components' settings name, and its      *)
(* pipelines.  A provider may supply anything when the collector starts:   *)
(* one name of a list (Expansion), a list, a section, a pipeline, all the  *)
(* pipelines or the whole service block.                                   *)
(***************************************************************************)
EXTENDS Integers, Sequences, SequencesExt, FiniteSets, Asking

CONSTANTS
  SuppliedNames,  \* the component names a provider may supply
  SuppliedLists,  \* the lists of them it may supply
  SuppliedKeys,   \* the keys of the pipelines it may supply
  SuppliedPipes,  \* and those pipelines
  Connectors,     \* the connector types UpstreamCovered is asked to follow
  BatchTypes      \* the processor types it is asked about

Slots == {"receiver", "processor", "exporter"}
Kinds == Slots \cup {"extension", "connector"}
NoKind == "none"

Expansion == [type |-> "${}", name |-> "none"]

\* A list as written: IsExpansion of its node, or its items.
Supplied(list) == list.supplied \/ Expansion \in ToSet(list.refs)

\* dynamicReferences and Index.HasDynamicRefs.
DynamicSlot(c, slot) ==
  \/ c.service = "supplied" \/ c.pipelinesSupplied
  \/ \E p \in DOMAIN c.pipelines : c.pipelines[p].supplied \/ Supplied(c.pipelines[p][slot])
HasDynamicRefs(c, kind) ==
  CASE kind = "extension" -> c.service = "supplied" \/ Supplied(c.extensions)
    [] kind = "connector" -> DynamicSlot(c, "receiver") \/ DynamicSlot(c, "exporter")
    [] OTHER              -> DynamicSlot(c, kind)

HasDynamicDeclarationsOwn(c, slot) == slot \in c.sectionsSupplied
HasDynamicDeclarations(c, slot) ==
  \/ slot \in c.sectionsSupplied
  \/ slot \in {"receiver", "exporter"} /\ "connector" \in c.sectionsSupplied

\* Resolve: the kind of the declaration behind a reference, or NoKind.
ResolvedKind(c, slot, id) ==
  IF id = Expansion THEN NoKind
  ELSE IF id \in c.declared[slot] THEN slot
  ELSE IF slot \in {"receiver", "exporter"} /\ id \in c.declared["connector"]
       THEN "connector" ELSE NoKind

RefsOf(c, p, slot) == ToSet(c.pipelines[p][slot].refs)

Enabled(c) == ToSet(c.extensions.refs) \ {Expansion}

\* extensionRefs; a name a provider supplies is not one to resolve.
Named(c) == c.named \ {Expansion}

\* markUsed: what the pipelines resolve to, and the extensions that are
\* started or named in settings.
Used(c, kind) ==
  IF kind = "extension" THEN Enabled(c) \cup Named(c)
  ELSE {id \in c.declared[kind] :
          \E p \in DOMAIN c.pipelines, slot \in Slots :
            id \in RefsOf(c, p, slot) /\ ResolvedKind(c, slot, id) = kind}

\* ConnectorPipelines: those it feeds and those that feed it.
ConnectorPipelines(c, slot, id) ==
  {p \in DOMAIN c.pipelines :
     id \in RefsOf(c, p, slot) /\ ResolvedKind(c, slot, id) = "connector"}

\* hasProcessor.
HasProcessor(c, p, types) ==
  \E id \in RefsOf(c, p, "processor") :
    id.type \in types /\ ResolvedKind(c, "processor", id) = "processor"

-----------------------------------------------------------------------------
(* The rules, as sets of <<rule, where, which, id>>. *)

UndefinedReference(c) ==
  {<<"undefined", "service", "extension", id>> :
     id \in {i \in Enabled(c) : /\ ~HasDynamicDeclarations(c, "extension")
                                /\ i \notin c.declared["extension"]}}
  \cup
  UNION {{<<"undefined", p, slot, id>> :
            id \in {i \in RefsOf(c, p, slot) \ {Expansion} :
                      /\ ~HasDynamicDeclarations(c, slot)
                      /\ ResolvedKind(c, slot, i) = NoKind}} :
         p \in DOMAIN c.pipelines, slot \in Slots}

UnusedComponent(c) ==
  UNION {{<<"unused", "declared", kind, id>> : id \in c.declared[kind] \ Used(c, kind)} :
         kind \in {k \in Kinds : c.service # "absent" /\ ~HasDynamicRefs(c, k)}}

\* A connector that takes part, but on one side only.
ConnectorSidesAsWritten(c, id) ==
  LET fedBy == ConnectorPipelines(c, "exporter", id)
      feeds == ConnectorPipelines(c, "receiver", id)
  IN  IF fedBy = {} THEN {<<"wiring", "no-input", "connector", id>>}
      ELSE IF feeds = {} THEN {<<"wiring", "dropped", "connector", id>>}
      ELSE {}
ConnectorSides(c, id) ==
  LET fedBy == ConnectorPipelines(c, "exporter", id)
      feeds == ConnectorPipelines(c, "receiver", id)
  IN  IF fedBy = {} /\ ~HasDynamicRefs(c, "exporter")
      THEN {<<"wiring", "no-input", "connector", id>>}
      ELSE IF feeds = {} /\ ~HasDynamicRefs(c, "receiver")
      THEN {<<"wiring", "dropped", "connector", id>>}
      ELSE {}

\* One side only, or both sides of one pipeline.
ConnectorWiringOf(c, id) ==
  LET asReceiver == ConnectorPipelines(c, "receiver", id)
      asExporter == ConnectorPipelines(c, "exporter", id)
  IN  IF asReceiver \cup asExporter = {} THEN {}
      ELSE ConnectorSides(c, id)
           \cup {<<"wiring", p, "loop", id>> : p \in asReceiver \cap asExporter}
ConnectorWiring(c) ==
  UNION {ConnectorWiringOf(c, id) : id \in IF c.service = "absent" THEN {} ELSE c.declared["connector"]}

DuplicateReference(c) ==
  UNION {LET refs == c.pipelines[p][slot].refs
         IN  {<<"duplicate", p, slot, refs[j]>> :
                j \in {k \in DOMAIN refs : /\ refs[k] # Expansion
                                           /\ \E i \in 1..(k - 1) : refs[i] = refs[k]}} :
         p \in DOMAIN c.pipelines, slot \in Slots}

EmptyPipeline(c) ==
  UNION {{<<"empty", p, slot, Expansion>> :
            slot \in {s \in {"receiver", "exporter"} :
                        c.pipelines[p][s].refs = <<>> /\ ~c.pipelines[p][s].supplied}} :
         p \in {q \in DOMAIN c.pipelines : ~c.pipelines[q].supplied}}

UndefinedExtensionReference(c) ==
  {<<"extension", "undeclared", "extension", id>> :
     id \in {i \in Named(c) : /\ i \notin c.declared["extension"]
                             /\ ~HasDynamicDeclarations(c, "extension")}}
  \cup
  {<<"extension", "not-started", "extension", id>> :
     id \in {i \in Named(c) : /\ \/ i \in c.declared["extension"]
                                \/ HasDynamicDeclarations(c, "extension")
                             /\ c.service # "absent"
                             /\ i \notin Enabled(c)
                             /\ ~HasDynamicRefs(c, "extension")}}

ReferenceFindings(c) ==
  UndefinedReference(c) \cup UnusedComponent(c) \cup ConnectorWiring(c)
    \cup DuplicateReference(c) \cup EmptyPipeline(c) \cup UndefinedExtensionReference(c)

Wire ==
  /\ Asked("wire")
  /\ answer' = [findings |-> ReferenceFindings(task.config)]
  /\ UNCHANGED task

-----------------------------------------------------------------------------
(* UpstreamCovered: every way into a pipeline leads through a processor of *)
(* one of the asked types, over the asked connectors only.                 *)

\* What a visit is remembered under, and as what; one under way as failed.
VisitKeyOfPipeline(p, covered) == <<p, TRUE>>
VisitKey(p, covered) == <<p, covered>>
VisitKeys(c) == (DOMAIN c.pipelines) \X BOOLEAN
Memos(c)     == [VisitKeys(c) -> {"unseen", "failed", "covered"}]

\* Where a receiver of p leads back to: the producers of a connector, in some
\* order, or the end of what can be proved.
NoWay == <<>>
WaysOf(c, asked, p, covered, id) ==
  LET kind      == ResolvedKind(c, "receiver", id)
      producers == ConnectorPipelines(c, "exporter", id)
  IN  IF kind = "receiver" /\ covered THEN <<>>
      ELSE IF kind # "connector" \/ id.type \notin asked.connectors \/ producers = {} THEN <<NoWay>>
      ELSE LET order == SetToSeq(producers)
           IN  [i \in DOMAIN order |->
                  IF c.pipelines[order[i]].signal # c.pipelines[p].signal THEN NoWay ELSE <<order[i]>>]
WaysBack(c, asked, p, covered) ==
  LET refs == c.pipelines[p].receiver.refs
  IN  IF refs = <<>> THEN <<NoWay>>
      ELSE FlattenSeq([i \in DOMAIN refs |-> WaysOf(c, asked, p, covered, refs[i])])

\* A visit gives an outcome, [memo, ok].  One that is remembered:
Visits(c) == [memo : Memos(c), pipe : DOMAIN c.pipelines, covered : BOOLEAN]
Remembered(v) == [memo |-> v.memo, ok |-> v.memo[VisitKey(v.pipe, v.covered)] = "covered"]

\* The ways back, each visited until one fails; walk is how it is visited.
Followed(walk, ways, memo, covered) ==
  LET after[i \in 0..Len(ways)] ==
        IF i = 0 THEN [memo |-> memo, ok |-> TRUE]
        ELSE LET before == after[i - 1]
             IN  IF ~before.ok THEN before
                 ELSE IF ways[i] = NoWay THEN [before EXCEPT !.ok = FALSE]
                 ELSE walk[[memo |-> before.memo, pipe |-> ways[i][1], covered |-> covered]]
  IN  after[Len(ways)]

WalkBack(c, asked, walk) ==
  [v \in Visits(c) |->
     LET key  == VisitKey(v.pipe, v.covered)
         here == v.covered \/ HasProcessor(c, v.pipe, asked.types)
         last == Followed(walk, WaysBack(c, asked, v.pipe, here), [v.memo EXCEPT ![key] = "failed"], here)
     IN  IF v.memo[key] # "unseen" THEN Remembered(v)
         ELSE IF last.ok THEN [last EXCEPT !.memo[key] = "covered"]
         ELSE last]

\* At most one visit of each key is walked: walk[n] is the visit with n of
\* them, or fewer, to come.
UpstreamCovered(c, asked, p) ==
  LET keys == Cardinality(VisitKeys(c))
      walk[n \in 0..keys] ==
        IF n = 0 THEN [v \in Visits(c) |-> Remembered(v)] ELSE WalkBack(c, asked, walk[n - 1])
  IN  /\ ~HasDynamicRefs(c, "exporter")
      /\ walk[keys][[memo |-> [k \in VisitKeys(c) |-> "unseen"], pipe |-> p, covered |-> FALSE]].ok

Upstream ==
  /\ Asked("upstream")
  /\ answer' = [covered |-> UpstreamCovered(task.config,
                              [types |-> BatchTypes, connectors |-> Connectors], task.from)]
  /\ UNCHANGED task

-----------------------------------------------------------------------------
(* What a provider may make of a config when the collector starts. *)

Picks(S) == {f \in [DOMAIN S -> UNION {S[x] : x \in DOMAIN S}] : \A x \in DOMAIN S : f[x] \in S[x]}

ListSuppliedFrom(list, lists, names) ==
  {[supplied |-> FALSE, refs |-> r] :
     r \in IF list.supplied THEN lists
           ELSE Picks([i \in DOMAIN list.refs |-> IF list.refs[i] = Expansion THEN names ELSE {list.refs[i]}])}
ListSupplied(list) == ListSuppliedFrom(list, SuppliedLists, SuppliedNames)

PipeSupplied(p) ==
  IF p.supplied THEN SuppliedPipes
  ELSE {[signal |-> p.signal, supplied |-> FALSE, receiver |-> r, processor |-> q, exporter |-> e] :
          r \in ListSupplied(p.receiver), q \in ListSupplied(p.processor),
          e \in ListSupplied(p.exporter)}

PipelinesSupplied(c) ==
  IF c.service = "supplied" \/ c.pipelinesSupplied
  THEN UNION {[D -> SuppliedPipes] : D \in SUBSET SuppliedKeys}
  ELSE Picks([p \in DOMAIN c.pipelines |-> PipeSupplied(c.pipelines[p])])

\* The collector refuses a connector's name that is a receiver's or an
\* exporter's too.
Unambiguous(declared) ==
  declared["connector"] \cap (declared["receiver"] \cup declared["exporter"]) = {}

DeclaredSupplied(c) ==
  {d \in {[k \in Kinds |-> IF k \in c.sectionsSupplied THEN s[k] ELSE c.declared[k]] :
            s \in [c.sectionsSupplied -> SUBSET SuppliedNames]} : Unambiguous(d)}

ExtensionsSupplied(c) ==
  ListSupplied(IF c.service = "supplied" THEN [supplied |-> TRUE, refs |-> <<>>] ELSE c.extensions)

NamedSupplied(c) ==
  IF Expansion \in c.named THEN {Named(c) \cup names : names \in SUBSET SuppliedNames} ELSE {c.named}

Supplyings(c) ==
  {[declared |-> d, sectionsSupplied |-> {}, pipelinesSupplied |-> FALSE, extensions |-> x,
    named |-> n, pipelines |-> p,
    service |-> IF c.service = "absent" THEN "absent" ELSE "written"] :
     d \in DeclaredSupplied(c), x \in ExtensionsSupplied(c),
     n \in NamedSupplied(c), p \in PipelinesSupplied(c)}

\* Nothing a rule says of references is undone by what a provider supplies
\* when the collector starts: whatever the expansions turn into, the finding
\* would have been made of the result too - save that of an extension it may
\* be said otherwise why it does not work, as one called unused turns out to
\* be named in settings, and one called not started to be undeclared.
FindingsSurviveSupply ==
  Answered("wire") =>
    \A c \in Supplyings(task.config), f \in answer.findings :
      LET found == ReferenceFindings(c)
      IN  \/ f \in found
          \/ f[3] = "extension" /\ \E g \in found : g[1] = "extension" /\ g[4] = f[4]

-----------------------------------------------------------------------------
(* The ways into a pipeline. *)

Into(c, s) ==
  {<<q, s[2] \/ HasProcessor(c, q, BatchTypes)>> :
     q \in UNION {ConnectorPipelines(c, "exporter", id) :
                    id \in {i \in RefsOf(c, s[1], "receiver") :
                              ResolvedKind(c, "receiver", i) = "connector"}}}

\* All that is reached from the members of S, over next.
AllFrom(next, S) ==
  LET size == Cardinality(DOMAIN next)
      after[n \in 0..size] ==
        IF n = 0 THEN S ELSE LET before == after[n - 1] IN before \cup UNION {next[s] : s \in before}
  IN  after[size]
AllInto(c, states) == AllFrom([s \in VisitKeys(c) |-> Into(c, s)], states)

\* Something gets in at s unbatched, or nobody knows what.
Leaks(c, s) ==
  LET p == c.pipelines[s[1]]
  IN  \/ p.receiver.refs = <<>>
      \/ \E id \in ToSet(p.receiver.refs) :
           LET kind == ResolvedKind(c, "receiver", id)
               from == ConnectorPipelines(c, "exporter", id)
           IN  \/ kind = NoKind
               \/ kind = "receiver" /\ ~s[2]
               \/ /\ kind = "connector"
                  /\ \/ id.type \notin Connectors
                     \/ from = {}
                     \/ \E q \in from : c.pipelines[q].signal # p.signal

\* UpstreamCovered holds exactly when every way into the pipeline leads
\* through a processor of the asked types and none leads round in a circle:
\* the memory of visits neither hides an unbatched way behind a batched one
\* nor takes a cycle for proof.
CoverageIsEveryPath ==
  Answered("upstream") =>
    LET c     == task.config
        start == <<task.from, HasProcessor(c, task.from, BatchTypes)>>
        ways  == AllInto(c, {start})
    IN  answer.covered <=>
          /\ ~HasDynamicRefs(c, "exporter")
          /\ \A s \in ways : ~Leaks(c, s) /\ s \notin AllInto(c, Into(c, s))

-----------------------------------------------------------------------------
(* What may be asked: any config as Parse leaves it.  What is supplied is   *)
(* not written, and what is not written holds nothing.                      *)

WrittenIds == [type : STRING, name : STRING]
WrittenLists ==
  {list \in [supplied : BOOLEAN, refs : Seq(WrittenIds)] : list.supplied => list.refs = <<>>}
WrittenPipes ==
  {p \in [signal : STRING, supplied : BOOLEAN, receiver : WrittenLists, processor : WrittenLists, exporter : WrittenLists] :
     p.supplied => \A slot \in Slots : p[slot].refs = <<>>}
WrittenConfigs ==
  {c \in [declared : [Kinds -> SUBSET (WrittenIds \ {Expansion})], sectionsSupplied : SUBSET Kinds,
          service : {"written", "supplied", "absent"}, pipelinesSupplied : BOOLEAN, extensions : WrittenLists,
          named : SUBSET WrittenIds, pipelines : UNION {[keys -> WrittenPipes] : keys \in SUBSET STRING}] :
     /\ \A kind \in c.sectionsSupplied : c.declared[kind] = {}
     /\ c.service # "written" \/ c.pipelinesSupplied => DOMAIN c.pipelines = {}
     /\ c.service # "written" => c.extensions.refs = <<>>}
WireQuestions == [of : {"wire"}, config : WrittenConfigs]
=============================================================================
