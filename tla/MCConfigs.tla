----------------------------- MODULE MCConfigs ------------------------------
(* The config tasks for TLC: two pipelines against a release, trees that    *)
(* are wrong in one place or two, settings that share anchors, and the      *)
(* pipelines and lists that advice is given on.                             *)
EXTENDS ConfigParts, Pipelines

Named1(type) == [type |-> type, name |-> "1"]
IdTyped(type)  == [type |-> type, name |-> ""]
MCPipelineOrder == <<"A", "B">>

Ships(signals, pairs, stability) == [signals |-> signals, pairs |-> pairs, stability |-> stability, deprecated |-> FALSE]
MCFactories ==
  [receiver  |-> [otlp |-> Ships({"traces", "logs"}, {}, [traces |-> "beta", logs |-> "alpha"]),
                  jaeger |-> Ships({"traces"}, {}, [traces |-> "development"])],
   processor |-> [batch |-> Ships({"traces", "metrics", "logs"}, {}, [traces |-> "beta", metrics |-> "alpha", logs |-> "development"])],
   exporter  |-> [otlp |-> Ships({"traces", "logs"}, {}, [traces |-> "development", logs |-> "stable"]),
                  debug |-> [Ships({"traces", "metrics"}, {}, <<>>) EXCEPT !.deprecated = TRUE]],
   extension |-> [check |-> Ships({}, {}, [extension |-> "unmaintained"])],
   connector |-> [count |-> Ships({}, {<<"traces", "metrics">>}, [traces_to_metrics |-> "alpha"])]]

RefList(ids) == [supplied |-> FALSE, refs |-> ids]
Joined(signal, r, p, e) == [signal |-> signal, supplied |-> FALSE, receiver |-> RefList(r), processor |-> RefList(p), exporter |-> RefList(e)]
Declares(r, e) ==
  [declared |-> [receiver |-> r, processor |-> {IdTyped("batch")}, exporter |-> e, extension |-> {IdTyped("check")}, connector |-> {IdTyped("count")}],
   sectionsSupplied |-> {}, service |-> "written", pipelinesSupplied |-> FALSE, extensions |-> RefList(<<IdTyped("check")>>),
   named |-> {}, pipelines |-> <<>>]
Declared2 ==
  {Declares({IdTyped(x), IdTyped("jaeger")}, {IdTyped(y), IdTyped("debug")}) : x \in {"otlp", "lost"}, y \in {"otlp", "lost"}}
  \cup {Declares({IdTyped("jaeger"), IdTyped("otlp")}, {Named1("otlp"), IdTyped("debug")}),
        [Declares({}, {Named1("otlp")}) EXCEPT !.sectionsSupplied = {"receiver"}],
        [Declares({IdTyped("otlp")}, {Named1("otlp")}) EXCEPT !.declared.connector = {}, !.sectionsSupplied = {"connector"}]}

JudgeTasks ==
  {[of |-> "judge", forgotten |-> f, ready |-> TRUE, alpha |-> a,
    config |-> [d EXCEPT !.pipelines = [A |-> Joined("traces", r, t, <<IdTyped("otlp")>>),
                                        B |-> Joined(s, q, p, e)]]] :
     d \in Declared2, a \in BOOLEAN, f \in {{}, {<<"receiver", "otlp">>, <<"connector", "count">>}},
     r \in {<<IdTyped("otlp")>>, <<IdTyped("jaeger"), IdTyped("lost")>>},
     t \in {<<IdTyped("batch")>>, <<IdTyped("batch"), IdTyped("count")>>},
     s \in {"logs", "metrics", "trace"}, p \in {<<>>, <<IdTyped("batch")>>, <<IdTyped("count")>>},
     q \in {<<IdTyped("otlp")>>, <<IdTyped("count")>>, <<IdTyped("jaeger"), Expansion>>, <<IdTyped("lost")>>},
     e \in {<<Named1("otlp")>>, <<IdTyped("otlp")>>, <<IdTyped("count"), IdTyped("debug")>>}}
  \cup {[of |-> "judge", forgotten |-> {}, ready |-> FALSE, alpha |-> TRUE,
         config |-> [d EXCEPT !.pipelines = [A |-> Joined(s, <<IdTyped("otlp")>>, <<>>, <<IdTyped("lost")>>)]]] :
           d \in Declared2, s \in {"logs", "trace"}}

-----------------------------------------------------------------------------
(* Trees. *)

Tree(kind, items) == [kind |-> kind, value |-> "", items |-> items]
NullNode      == Tree("null", <<>>)
WordNode(v)   == [kind |-> "scalar", value |-> v, items |-> <<>>]
Pair(key, n) == [key |-> key, node |-> n]
MapNode(items) == Tree("mapping", items)
ListedAs(nodes) == Tree("sequence", [i \in DOMAIN nodes |-> [key |-> "", node |-> nodes[i]]])

\* As strings.Cut and TrimSpace leave them.
Raw(type, slash, name, spaced) == [type |-> type, slash |-> slash, name |-> name, spaced |-> spaced]
RawIds == {"", "otlp", "otlp/", "otlp/a", "otlp / a", "/a", "1x", "traces", "traces/", "trace"}
MCIdentifier ==
  [raw \in RawIds |->
     CASE raw = ""         -> Raw("", FALSE, "", FALSE)
       [] raw = "otlp/"    -> Raw("otlp", TRUE, "", FALSE)
       [] raw = "otlp/a"   -> Raw("otlp", TRUE, "a", FALSE)
       [] raw = "otlp / a" -> Raw("otlp", TRUE, "a", TRUE)
       [] raw = "/a"       -> Raw("", TRUE, "a", FALSE)
       [] raw = "traces/"  -> Raw("traces", TRUE, "", FALSE)
       [] OTHER            -> Raw(raw, FALSE, "", FALSE)]

WrongNodes == {NullNode, WordNode(ExpandedValue), WordNode("otlp"), MapNode(<<>>), ListedAs(<<>>)}
Otlps == ListedAs(<<WordNode("otlp")>>)
ListForms ==
  {NullNode, WordNode(ExpandedValue), WordNode("otlp"), MapNode(<<Pair("otlp", NullNode)>>), Otlps, ListedAs(<<>>), ListedAs(<<NullNode>>),
   ListedAs(<<WordNode("otlp/"), WordNode(ExpandedValue)>>), ListedAs(<<MapNode(<<>>)>>), ListedAs(<<ListedAs(<<WordNode("otlp")>>), WordNode("1x")>>),
   ListedAs(<<MapNode(<<Pair("k", NullNode), Pair("k", NullNode)>>)>>)}
SectionForms ==
  WrongNodes \cup {MapNode(<<Pair(k, NullNode)>>) : k \in {"otlp", "otlp/", "/a", ""}}
  \cup {MapNode(<<Pair(k, NullNode), Pair(l, n)>>) :
          k \in {"otlp", "otlp/a"}, l \in {"otlp", "otlp/", "otlp / a"},
          n \in {NullNode, MapNode(<<Pair("k", NullNode), Pair("k", NullNode)>>)}}
PipelineForms ==
  WrongNodes \cup {MapNode(<<Pair("receivers", r), Pair("exporters", e)>>) : r \in ListForms, e \in {Otlps, NullNode, WordNode(ExpandedValue)}}
  \cup {MapNode(<<Pair("receivers", Otlps), Pair(k, Otlps), Pair(l, Otlps)>>) :
          k \in {"exporters", "processors"}, l \in {"exporters", "exporter", "receivers"}}
GoodPipeline == MapNode(<<Pair("receivers", Otlps), Pair("exporters", Otlps)>>)
PipelinesForms ==
  WrongNodes \cup {MapNode(<<Pair("traces", p)>>) : p \in PipelineForms}
  \cup {MapNode(<<Pair(k, GoodPipeline), Pair(l, GoodPipeline)>>) : k \in {"traces", "trace"}, l \in {"traces", "traces/", "otlp"}}
GoodPipelines == MapNode(<<Pair("traces", GoodPipeline)>>)
TelemetryForms ==
  WrongNodes \cup {MapNode(<<Pair("metrics", w), Pair(k, WordNode("otlp"))>>) : w \in WrongNodes, k \in {"logs", "resource", "metrics"}}
ServiceForms ==
  WrongNodes \cup {MapNode(<<Pair("pipelines", p)>>) : p \in PipelinesForms}
  \cup {MapNode(<<Pair("extensions", x), Pair(k, GoodPipelines)>>) : x \in ListForms, k \in {"pipelines", "pipeline"}}
  \cup {MapNode(<<Pair("telemetry", t), Pair("pipelines", GoodPipelines)>>) : t \in TelemetryForms}
  \cup {MapNode(<<Pair("pipelines", GoodPipelines), Pair("pipelines", p)>>) : p \in {NullNode, GoodPipelines}}
GoodService == MapNode(<<Pair("pipelines", GoodPipelines)>>)

Roots ==
  {MapNode(<<Pair("receivers", s), Pair("service", t)>>) : s \in {NullNode, MapNode(<<Pair("otlp/", NullNode)>>)}, t \in ServiceForms}
  \cup {MapNode(<<Pair("connectors", s), Pair("service", GoodService), Pair(k, t)>>) :
          s \in SectionForms, k \in {"extensions", "connectors", "service", "extension"}, t \in {NullNode, MapNode(<<Pair("otlp", NullNode)>>)}}
  \cup {MapNode(<<>>)}
StructureTasks == [of : {"structure"}, root : Roots]

-----------------------------------------------------------------------------
(* Settings: two components over a shared block and a shared value. *)

SecretKeys == {"headers", "authorization", "token", "token_file", "token_env", "endpoint"}
ScalarAt(v) == [kind |-> "scalar", value |-> v]
Block(items) == [kind |-> "mapping", items |-> items]
ToNode(k, n) == [key |-> k, node |-> n]
SecretTasks ==
  {[of |-> "secrets", components |-> <<1, 2>>,
    doc |-> (1 :> Block(a) @@ 2 :> Block(b) @@ 3 :> c @@ 4 :> ScalarAt([scheme |-> s, rest |-> r]))] :
     a \in {<<ToNode(k, 3)>> : k \in SecretKeys}
           \cup {<<ToNode(k, m), ToNode(l, 4)>> : k \in {"endpoint", "token", "headers"}, l \in {"endpoint", "token", "token_env"}, m \in {3, 4}},
     b \in {<<ToNode(k, m)>> : k \in {"endpoint", "token", "headers"}, m \in {3, 4}},
     c \in {Block(<<ToNode(k, 4)>>) : k \in SecretKeys} \cup {[kind |-> "sequence", items |-> <<ToNode("", 4), ToNode("", 4)>>]},
     s \in BOOLEAN, r \in {"credential", "expansion"}}

-----------------------------------------------------------------------------
(* Configs with exporters' settings, and lists of processors. *)
Comp(type)  == [type |-> type, name |-> ""]
Otlp == Comp("otlp")   Debug == Comp("debug")   Forward == Comp("forward")   Routing == Comp("routing")
Batch == Comp("batch") Limiter == Comp("memory_limiter") Spans == Comp("span_batch") Other == Comp("other")

MCProcessorNames == {Batch, Limiter, Other}

PlainExporter == [form |-> "mapping", queue |-> "absent", batch |-> FALSE, enabled |-> "absent", storage |-> "absent"]
Queue(b, e, s) == [form |-> "mapping", queue |-> "mapping", batch |-> b, enabled |-> e, storage |-> s]
AllSettings ==
  {PlainExporter, [PlainExporter EXCEPT !.form = "null"], [PlainExporter EXCEPT !.form = "expansion"]}
  \cup {[PlainExporter EXCEPT !.queue = q] : q \in {"null", "expansion", "scalar"}}
  \cup {Queue(b, e, s) : b \in BOOLEAN, e \in {"absent", "true", "false", "quoted false", "expansion"},
                         s \in {"absent", "empty", "named", "expansion"}}

Listed(list) == [supplied |-> FALSE, refs |-> list]
Pipeline(signal, r, p, e) == [signal |-> signal, supplied |-> FALSE, receiver |-> Listed(r), processor |-> p, exporter |-> Listed(e)]

Wired(o, d) ==
  [declared |-> [receiver |-> {Otlp}, processor |-> {Batch, Limiter, Spans}, exporter |-> {Otlp, Debug}, extension |-> {},
                 connector |-> {Forward, Routing}],
   sectionsSupplied |-> {}, service |-> "written", pipelinesSupplied |-> FALSE, extensions |-> Listed(<<>>), named |-> {},
   settings |-> (Otlp :> o @@ Debug :> d), pipelines |-> <<>>]
Takes(o, d, decoding) == [queue |-> [otlp |-> o, debug |-> d], decoding |-> decoding]

\* Any settings of the exporters of one pipeline.
SettingsTasks ==
  {[of |-> "advice", additional |-> {}, schema |-> Takes(o, d, decoding),
    config |-> [Wired(s, t) EXCEPT !.pipelines = [C |-> Pipeline("traces", <<Otlp>>, Listed(<<>>), e)]]] :
     s \in AllSettings, t \in {PlainExporter, Queue(TRUE, "absent", "absent")},
     o \in {"undescribed", "none", "bare", "batching", "open"}, d \in {"undescribed", "none", "batching"},
     decoding \in {"weak", "strict", "unknown"}, e \in {<<Otlp>>, <<Otlp, Debug>>, <<Otlp, Routing>>, <<Other, Otlp>>, <<Otlp, Expansion>>}}

\* Any way into C, by itself or from A and B.
WaysTasks ==
  {[of |-> "advice", additional |-> more, schema |-> Takes("batching", "none", "weak"),
    config |-> [Wired(PlainExporter, t) EXCEPT !.pipelines =
                  [A |-> Pipeline(s, a, Listed(pa), ea), B |-> Pipeline("traces", <<Otlp>>, Listed(pb), eb), C |-> Pipeline("traces", rc, pc, <<Otlp, Debug>>)]]] :
     more \in {{}, {"span_batch"}}, t \in {PlainExporter, Queue(TRUE, "absent", "absent")}, s \in {"traces", "logs"},
     a \in {<<Otlp>>, <<Forward>>, <<>>}, pa \in {<<>>, <<Batch>>, <<Spans>>, <<Limiter, Batch>>}, ea \in {<<Forward>>, <<Routing>>, <<Expansion>>},
     pb \in {<<>>, <<Limiter>>}, eb \in {<<Forward>>, <<Otlp, Routing>>},
     rc \in {<<>>, <<Otlp>>, <<Forward>>, <<Routing>>, <<Otlp, Forward>>},
     pc \in {Listed(<<>>), Listed(<<Batch>>), Listed(<<Spans>>), Listed(<<Limiter>>), Listed(<<Expansion>>), [supplied |-> TRUE, refs |-> <<>>]}}

Chain == {Batch, Limiter, Other, Expansion, Comp("tail_sampling"), Comp("probabilistic_sampler"), Comp("k8sattributes"), Comp("resource")}
ArrangeTasks ==
  {[of |-> "arrange", refs |-> refs] :
     refs \in {r \in UNION {[1..n -> Chain] : n \in 0..4} : \A i, j \in DOMAIN r : r[i] = r[j] => i = j}}

-----------------------------------------------------------------------------
(* Configs with a receiver and an exporter of one id. *)
SharedIdInit ==
  /\ answer = Unasked
  /\ task \in JudgeTasks
  /\ IdTyped("otlp") \in task.config.declared.receiver \cap task.config.declared.exporter

SharedIdSpec == SharedIdInit /\ [][ConfigStep]_asking
=============================================================================
