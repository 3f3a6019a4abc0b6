---------------------------- MODULE MCPureParts ----------------------------
(* Instances of PureParts for TLC: the tasks, part by part. *)
EXTENDS Settings, MCHarvest, MCConfigs, Numbers, Hints, Reports, TLC

-----------------------------------------------------------------------------
(* Settings files, flags and trees. *)

MCStdinMarker   == <<"-">>
MCElements == {"-", "r", "l", "l.yaml", "sub", ".git", "a.yaml", "b.txt", "c.yml", "d.yml", "x.yaml", "agent", "gateway", "c.yaml"}
MCDefaultOption == [collectorVersion |-> "latest", insecureSchemaLocation |-> "false"]

Glob(globs)      == [globs |-> globs, paths |-> {}, star |-> FALSE, inside |-> {}, parses |-> TRUE]
Exactly(paths)   == [Glob({}) EXCEPT !.paths = paths]
Anywhere(names)  == [Glob({}) EXCEPT !.star = TRUE, !.inside = names]
BadPattern       == [Glob({}) EXCEPT !.parses = FALSE]

-----------------------------------------------------------------------------
(* Trees: files, a directory, one that is skipped, links to a directory;    *)
(* any may be gone when the walk gets there, or not let itself be listed.   *)

Is(stat, lstat, lists, names) == [stat |-> stat, lstat |-> lstat, lists |-> lists, names |-> names]
There(stats, what) == IF stats THEN what ELSE "none"
File(stats) == Is(There(stats, "file"), There(stats, "file"), FALSE, <<>>)
Dir(stats, lists, names) == Is(There(stats, "dir"), There(stats, "dir"), lists, names)

R == <<"r">>   RA == <<"r", "a.yaml">>   RB == <<"r", "b.txt">>   RS == <<"r", "sub">>   RSC == <<"r", "sub", "c.yml">>
RG == <<"r", ".git">>   RGD == <<"r", ".git", "d.yml">>

Trees ==
  {R :> Dir(TRUE, rl, <<".git", "a.yaml", "b.txt", "sub">>) @@ RA :> File(a) @@ RB :> File(TRUE) @@
   RS :> Dir(s, sl, <<"c.yml">>) @@ RSC :> File(c) @@ RG :> Dir(TRUE, gl, <<"d.yml">>) @@ RGD :> File(TRUE) :
     rl, a, s, sl, c, gl \in BOOLEAN}

\* Links beside the directory they lead to or nowhere, a file whose link is
\* gone when the walk looks at it, a directory that is gone between two looks.
L == <<"l">>   LY == <<"l.yaml">>   RLY == <<"r", "l.yaml">>

LinkedTrees ==
  {R :> Is("dir", r, TRUE, <<"a.yaml", "l.yaml">>) @@ RA :> File(TRUE) @@ RLY :> Is(to, inner, FALSE, <<>>) @@
   L :> Is(to, "file", FALSE, <<>>) @@ LY :> Is(to, "file", FALSE, <<>>) :
     r \in {"dir", "none"}, to \in {"dir", "file", "none"}, inner \in {"file", "none"}}

At(path) == Spelled(path, FALSE)
Dotted(path) == Spelled(path, TRUE)

ScanTasks ==
  [of : {"scan"}, tree : Trees,
   paths : {<<At(R)>>, <<Dotted(RA), At(R)>>, <<At(RS), At(R)>>, <<At(MCStdinMarker), At(RB), At(RB)>>,
            <<At(RA), Dotted(RA)>>, <<Dotted(MCStdinMarker), At(RA)>>, <<At(RS)>>, <<At(RG)>>, <<At(R), At(<<"x.yaml">>)>>, <<>>},
   exclude : {{}, {Glob({"a.yaml"})}, {Anywhere({"sub"})}, {Exactly({RSC}), Glob({"b.txt"})}}]
    \cup
  [of : {"scan"}, tree : LinkedTrees,
   paths : {<<At(LY)>>, <<Dotted(LY)>>, <<At(L)>>, <<At(L), At(LY)>>, <<At(R), At(RLY)>>, <<Dotted(LY), At(LY)>>, <<At(R), Dotted(L)>>},
   exclude : {{}, {Exactly({LY})}, {Exactly({<<".", "l.yaml">>})}, {Glob({"l.yaml"})}, {Anywhere({"r"})}}]

-----------------------------------------------------------------------------
(* Commands and disks. *)

NoFlags == [scalars |-> [k \in ScalarKeys |-> Unset], lists |-> [k \in ListKeys |-> <<>>],
            noColor |-> Unset, kubernetes |-> Unset, request |-> Unset, limit |-> Unset]
Command == [config |-> FALSE, noConfig |-> FALSE, flags |-> NoFlags]

Saying(file) == [first |-> "file", second |-> "none", version |-> Unset, file |-> file]
ReadAs(text)   == [found |-> "text", text |-> text]
NotRead(why) == [found |-> why, text |-> Saying(EmptyFile)]

Here     == [files |-> {1}, git |-> TRUE]
Nothing  == [files |-> {}, git |-> FALSE]
Disk(chain, read) == [chain |-> chain, read |-> read]

Location(form) == [form |-> form, at |-> WorkingDir]
Versioned(v)   == [EmptyFile EXCEPT !.scalars["collectorVersion"] = v]
Locating(ls)   == [EmptyFile EXCEPT !.lists["schemaLocations"] = ls]

Someone == Locating(<<Location("relative")>>)
Another == Versioned("block")

StartTasks(commands, disks) == [of : {"start"}, command : commands, disks : disks, asked : {{MCStdinMarker}}]

\* Whose file it is: two directories and their parent, the file spelled either
\* way or both, repositories ending anywhere.
SearchTasks ==
  StartTasks({Command, [Command EXCEPT !.config = TRUE], [Command EXCEPT !.noConfig = TRUE]},
             {<<Disk(<<a, b, c>>, r)>> :
                a \in [files : SUBSET {1, 2}, git : BOOLEAN], b \in [files : SUBSET {1, 2}, git : BOOLEAN],
                c \in [files : {{}, {2}}, git : BOOLEAN],
                r \in {ReadAs(Saying(Someone)), NotRead("gone"), NotRead("unreadable")}})

\* What a text means, and what another command finds afterwards.
Texts == [first : {"file", "broken"}, second : {"none", "document", "broken"}, version : {Unset, "1", "2"},
          file : {Another}]
Later == {<<>>} \cup {<<Disk(<<Here>>, ReadAs(Saying(f)))>> : f \in {Someone, EmptyFile}}
         \cup {<<Disk(<<Nothing>>, NotRead("gone"))>>}
TextTasks ==
  StartTasks({Command, [Command EXCEPT !.config = TRUE]},
             {<<Disk(<<Here>>, r)>> \o later :
                r \in {ReadAs(t) : t \in Texts} \cup {ReadAs(Saying(Someone)), NotRead("gone")}, later \in Later})

\* Who wins, key by key.
Versions3 == {Unset, "flat"}
Forms(which) ==
  CASE which = "flag"  -> {<<>>, <<Location("relative")>>}
    [] which = "block" -> {<<>>, <<Location("relative"), Location("default")>>, <<Location("http")>>}
    [] which = "flat"  -> {<<>>, <<Location("absolute")>>}
FoldTasks ==
  StartTasks(
    {[Command EXCEPT !.flags.scalars = [collectorVersion |-> v, insecureSchemaLocation |-> i],
                     !.flags.lists["schemaLocations"] = l, !.flags.lists["exclude"] = IF l = <<>> THEN <<>> ELSE <<"flag">>,
                     !.flags.noColor = c] :
       v \in {Unset, "flag"}, i \in {Unset, "true"}, l \in Forms("flag"), c \in {Unset, "true", "false"}},
    {<<Disk(<<Here>>, ReadAs(Saying(
         [EmptyFile EXCEPT !.scalars = [collectorVersion |-> v, insecureSchemaLocation |-> i],
                           !.lists["schemaLocations"] = l, !.lists["exclude"] = IF l = <<>> THEN <<>> ELSE <<"block">>,
                           !.color = c,
                           !.flat.scalars["collectorVersion"] = fv,
                           !.flat.lists["schemaLocations"] = fl,
                           !.flat.lists["exclude"] = IF fl = <<>> THEN <<>> ELSE <<"flat">>])))>> :
       v \in {Unset, "block"}, i \in {Unset, "true", "false"}, l \in Forms("block"), c \in {Unset, "true", "false"},
       fv \in Versions3, fl \in Forms("flat")})

\* The environments of two workloads.
Agent == <<"agent", "c.yaml">>   Gateway == <<"gateway", "c.yaml">>
Over(paths, enabled, limit) ==
  [paths |-> paths, enabled |-> enabled, hostNetwork |-> Unset, request |-> Unset, limit |-> limit]
Overrides ==
  {<<>>, <<Over(<<>>, Unset, "256Mi")>>, <<Over(<<BadPattern>>, Unset, "256Mi")>>,
   <<Over(<<Anywhere({"agent"})>>, Unset, "bad")>>,
   <<Over(<<Anywhere({"agent"})>>, Unset, "256Mi")>>, <<Over(<<Anywhere({"agent"})>>, "false", "256Mi")>>,
   <<Over(<<Exactly({Gateway}), Anywhere({"agent"})>>, Unset, Unset), Over(<<Glob({"c.yaml", "-"})>>, "true", "4Gi")>>,
   <<Over(<<Glob({"c.yaml", "-"})>>, "true", Unset), Over(<<Anywhere({"agent"})>>, Unset, "256Mi")>>}
Blocks ==
  {[enabled |-> e, hostNetwork |-> h, request |-> Unset, limit |-> l, overrides |-> o] :
     e \in {Unset, "true", "false"}, h \in {Unset, "true"}, l \in {Unset, "512Mi"}, o \in Overrides}
EnvironmentTasks ==
  [of : {"start"}, asked : {{Agent, Gateway, MCStdinMarker}},
   command : {[Command EXCEPT !.flags.kubernetes = k, !.flags.request = r, !.flags.limit = l] :
                k \in {Unset, "true", "false"}, r \in {Unset, "bad"}, l \in {Unset, "1Gi"}},
   disks : {<<Disk(<<Here>>, ReadAs(Saying([EmptyFile EXCEPT !.kubernetes = b, !.flat.kubernetes = f])))>> :
              b \in Blocks, f \in {<<>>, <<[NoKubernetes EXCEPT !.limit = "64Mi"]>>}}]

-----------------------------------------------------------------------------
(* Versions: spelled short, long and wrong, released and not. *)

Num(n, bytes)  == [num |-> n, bytes |-> bytes]
Text(bytes)    == [num |-> NotDigits, bytes |-> bytes]
\* In the order of bytes: "" "02" "10" "1a" "2" "rc".
Padded == Num(2, 1)   Ten == Num(10, 2)   OneA == Text(3)   Two == Num(2, 4)
Empty  == Text(0)     Rc  == Text(5)

Version(nums, pre) == [nums |-> nums, pre |-> pre]

Spellings ==
  {Version(n, <<>>) : n \in {<<0, 1, 0>>, <<0, 1>>, <<0, 1, Unreadable>>, <<0, 1, 2, 5>>, <<0, 2, 0>>, <<Unreadable>>}}
  \cup {Version(<<0, 1, 0>>, p) : p \in {<<Rc>>, <<Rc, Two>>, <<Rc, Padded>>, <<Rc, Ten>>, <<Rc, OneA>>,
                                        <<Rc, Empty>>, <<Two>>, <<Ten>>}}

OrderTasks == [of : {"order"}, a : Spellings, b : Spellings, c : Spellings]

Releases == {Version(<<0, 1, 0>>, <<>>), Version(<<0, 2, 0>>, <<Rc, Two>>), Version(<<0, 2, 0>>, <<Rc, Ten>>),
             Version(<<0, 2, 0>>, <<>>), Version(<<0, 10, 0>>, <<>>)}

SpanTasks == UNION {[of : {"span"}, released : {r}, present : SUBSET r, served : SUBSET Releases] :
                    r \in SUBSET Releases}

-----------------------------------------------------------------------------
(* Schemas: what a release declares of three names. *)

Types == {"a", "b", "c"}
Pairs == {S \in SUBSET (Types \X (Types \cup {NoName})) :
            Declarable({[type |-> p[1], alias |-> p[2]] : p \in S})}
Schemas ==
  {FoldLeft(Add, NoComponents,
            [i \in DOMAIN seq |-> [type |-> seq[i][1], alias |-> seq[i][2], open |-> seq[i][1] \in open,
                                   level |-> IF seq[i][1] = "a" THEN level ELSE "alpha"]]) :
     seq \in UNION {SetToSeqs(S) : S \in Pairs}, open \in {{}, {"a"}}, level \in {"alpha", "beta", NoName}}

DiffTasks == [of : {"diff"}, old : Schemas, current : Schemas]

-----------------------------------------------------------------------------
(* Documents: three anchors under one mapping. *)

Leaf       == [kind |-> "scalar", items |-> <<>>]
Alias(n)   == [kind |-> "alias", items |-> <<[key |-> NoKey, at |-> n]>>]
Map(items) == [kind |-> "mapping", items |-> items]
List(of)   == [kind |-> "sequence", items |-> [i \in DOMAIN of |-> [key |-> NoKey, at |-> of[i]]]]
Item(k, f)   == [key |-> k, at |-> f]

RECURSIVE Nodes(_, _)
Nodes(n, form) ==
  LET into == [i \in DOMAIN form.items |-> IF form.kind = "alias" THEN form.items[i].at ELSE Append(n, i)]
      here == n :> [kind  |-> form.kind,
                    items |-> [i \in DOMAIN form.items |-> [key |-> form.items[i].key, node |-> into[i]]]]
  IN  IF form.kind = "alias" THEN here
      ELSE FoldLeftDomain(LAMBDA doc, i : doc @@ Nodes(into[i], form.items[i].at), here, form.items)

ToA == Alias(<<1>>)   ToB == Alias(<<2>>)   ToC == Alias(<<3>>)

FormsOfA == {Leaf, Map(<<Item("k", Leaf)>>), Map(<<Item("k", Leaf), Item("l", Leaf)>>), Map(<<Item("k", Map(<<Item("l", Leaf)>>))>>),
             Map(<<Item("k", ToA)>>), Map(<<Item(MergeKey, ToA)>>), List(<<Leaf>>), List(<<Map(<<Item("k", Leaf)>>)>>)}

FormsOfB ==
  {Map(<<Item(k, v)>>) : k \in {"k", "l", Complex}, v \in {Leaf, ToA, ToB}}
  \cup {Map(<<Item("k", ToA), Item("l", ToA)>>), List(<<ToA>>), List(<<ToA, ToB>>)}
  \cup UNION {{Map(<<Item(MergeKey, m)>>), Map(<<Item("k", Leaf), Item(MergeKey, m)>>), Map(<<Item(MergeKey, m), Item("k", Leaf)>>),
               Map(<<Item("l", Leaf), Item(MergeKey, m)>>)} :
              m \in {ToA, ToB, Leaf, List(<<ToA, ToA>>), List(<<Leaf>>), Map(<<Item("k", Leaf)>>), Map(<<Item(MergeKey, ToA)>>)}}

FormsOfC ==
  UNION {{Map(<<Item(MergeKey, m)>>), Map(<<Item("l", Leaf), Item(MergeKey, m)>>), Map(<<Item("m", m)>>)} :
         m \in {ToA, ToB, ToC, List(<<ToA, ToB>>), List(<<ToB, ToA>>), List(<<Map(<<Item("l", Leaf)>>), ToB>>),
                Map(<<Item("l", Leaf), Item(MergeKey, ToB)>>)}}
  \cup {Map(<<Item("k", ToB), Item("l", ToB)>>), List(<<ToB, ToB>>), List(<<ToB, ToC>>), Leaf}

ReadTasks == {[of |-> "read", doc |-> Nodes(Root, Map(<<Item("a", a), Item("b", b), Item("c", c)>>))] :
              a \in FormsOfA, b \in FormsOfB, c \in FormsOfC}

-----------------------------------------------------------------------------
(* Configs: whatever may be missing, written twice or supplied. *)

Id(type, name) == [type |-> type, name |-> name]
Fwd == Id("forward", "")   Check == Id("check", "")

MCSuppliedNames == {Otlp, Fwd, Check}

Refs(list) == [supplied |-> FALSE, refs |-> list]
AnyList    == [supplied |-> TRUE, refs |-> <<>>]
Lists == {AnyList} \cup {Refs(r) : r \in {<<>>, <<Otlp>>, <<Fwd>>, <<Otlp, Fwd>>, <<Otlp, Otlp>>,
                                         <<Expansion>>, <<Fwd, Expansion>>}}

Pipe(r, p, e) == [signal |-> "traces", supplied |-> FALSE, receiver |-> r, processor |-> p, exporter |-> e]
AnyPipe       == [Pipe(Refs(<<>>), Refs(<<>>), Refs(<<>>)) EXCEPT !.supplied = TRUE]
Through(r, e) == Pipe(Refs(<<r>>), Refs(<<>>), Refs(<<e>>))

MCSuppliedLists == {<<>>} \cup {<<n>> : n \in MCSuppliedNames}

MCSuppliedPipes == {Through(r, e) : r, e \in {Otlp, Fwd}} \cup {Pipe(Refs(<<>>), Refs(<<>>), Refs(<<Check>>))}

Declared == [receiver |-> {Otlp}, processor |-> {Batch}, exporter |-> {Otlp}, extension |-> {Check}, connector |-> {Fwd}]
Config == [declared |-> Declared, sectionsSupplied |-> {}, service |-> "written", pipelinesSupplied |-> FALSE,
           extensions |-> Refs(<<Check>>), named |-> {}, pipelines |-> <<>>]
Without(kind)  == [Config EXCEPT !.declared[kind] = {}]
Supplying(kind) == [Without(kind) EXCEPT !.sectionsSupplied = {kind}]

PipelineConfigs ==
  {[d EXCEPT !.pipelines = [A |-> Pipe(r, Refs(p), e)] @@ b] :
     d \in {Config, Without("receiver"), Without("connector"), Supplying("receiver"), Supplying("connector")},
     r \in Lists, e \in Lists, p \in {<<>>, <<Batch, Batch>>},
     b \in {<<>>, [B |-> Through(Otlp, Fwd)], [B |-> Through(Fwd, Otlp)], [B |-> AnyPipe]}}

ServiceConfigs ==
  {[d EXCEPT !.pipelinesSupplied = p, !.extensions = x, !.named = n,
             !.pipelines = IF p THEN <<>> ELSE [A |-> Through(Otlp, Otlp)]] :
     d \in {Config, Without("extension"), Supplying("extension")}, p \in BOOLEAN,
     x \in {AnyList} \cup {Refs(r) : r \in {<<>>, <<Check>>, <<Otlp>>, <<Expansion>>, <<Check, Expansion>>}},
     n \in {{}, {Check}, {Otlp}, {Expansion}, {Check, Expansion}}}
  \cup
  {[d EXCEPT !.service = s, !.extensions = Refs(<<>>), !.named = n] :
     d \in {Config, Without("extension"), Supplying("extension"), Supplying("receiver")},
     s \in {"absent", "supplied"}, n \in {{}, {Check}, {Expansion}}}

WireTasks == [of : {"wire"}, config : PipelineConfigs \cup ServiceConfigs]

-----------------------------------------------------------------------------
(* Graphs: two pipelines ahead of C, two forward connectors and a router. *)

F1 == Id("forward", "1")   F2 == Id("forward", "2")   Router == Id("routing", "")
MCConnectors == {"forward"}
MCBatchTypes == {"batch"}

Graph == [Config EXCEPT !.declared.connector = {F1, F2, Router}]
Ahead == {Pipe(Refs(r), Refs(p), Refs(e)) :
            r \in {<<Otlp>>, <<F1>>, <<F2>>, <<F2, Otlp>>}, p \in {<<>>, <<Batch>>},
            e \in {<<F1>>, <<F2>>, <<F1, F2>>}}
Last3 == {Pipe(Refs(r), Refs(p), Refs(<<e>>)) :
            r \in {<<>>, <<F1>>, <<F2, F1>>, <<F1, Otlp>>, <<Router>>}, p \in {<<>>, <<Batch>>}, e \in {Otlp, F2}}
          \cup {Pipe(Refs(<<F1>>), Refs(<<>>), Refs(<<Expansion>>)), Pipe(Refs(<<Expansion>>), Refs(<<Batch>>), Refs(<<>>)),
                Pipe(AnyList, Refs(<<Batch>>), Refs(<<>>))}

UpstreamTasks ==
  {[of |-> "upstream", from |-> "C",
    config |-> [Graph EXCEPT !.pipelines = [A |-> a, B |-> [b EXCEPT !.signal = s], C |-> c]]] :
     a \in Ahead, b \in Ahead, c \in Last3, s \in {"traces", "metrics"}}

-----------------------------------------------------------------------------
(* Numbers: an int64 of 16 bits, a uint32 of 8, 16 to a MiB. *)
MCUnitSizes == {4, 16, 64}
MCSuppliedNumbers == {0, 20, 300}

Figure(is, n) == [is |-> is, n |-> n, signed |-> n < 0]
Unwritten  == Figure("absent", 0)
Of(n)    == Figure("int", n)
Expanded == Figure("expansion", 0)
Minus0   == [is |-> "float", n |-> 0, signed |-> TRUE]
Plus(n)  == [is |-> "text", n |-> n, signed |-> TRUE]

Numbers16 == {Unwritten, Figure("null", 0), Expanded, Figure("word", 0), Minus0, Plus(12), Figure("text", 12), Figure("text", -1),
              Figure("float", 12), Of(-1), Of(0), Of(12), Of(20), Of(256), Of(3000), Of(40000)}
Shares   == {Unwritten, Expanded, Of(0), Of(50), Of(60), Of(101), Figure("text", 60), Figure("null", 0)}
Few      == {Unwritten, Of(12)}
Intervals == {Figure("duration", n) : n \in {-1, 0, 1, 10, 99}} \cup {Unwritten, Expanded, Figure("word", 0), Figure("null", 0), Of(10), Of(40000)}
Decodings == {"weak", "strict", "unknown"}
Usual == Figure("duration", 10)
Envs == [limit : {0, 100, 192, 240, 320, 1000}, request : {0, 64, 400}]
NoEnv == [limit : {0}, request : {0}]

Limiters(intervals, limits, percents, spikes, spikePercents) ==
  [interval : intervals, limit : limits, percent : percents, spike : spikes, spikePercent : spikePercents]
LimiterTasks ==
  [of : {"limiter"}, decoding : Decodings, env : NoEnv,
   written : Limiters({Usual}, Numbers16, {Unwritten, Of(60)}, Numbers16, {Unwritten, Of(60)})
             \cup Limiters({Usual}, Few, Shares, {Unwritten}, Shares) \cup Limiters(Intervals, Few, {Unwritten}, {Unwritten}, {Unwritten})]
SizingTasks ==
  [of : {"limiter"}, decoding : Decodings, env : Envs, written : Limiters({Usual}, Numbers16, Shares, {Unwritten}, {Unwritten})]
WideTasks ==
  [of : {"limiter"}, decoding : {"weak"}, env : [limit : {350, 5000, 20000, MaxInt - 1}, request : {0, 400}],
   written : Limiters({Usual}, Numbers16, Shares, {Unwritten}, {Unwritten})]

MetadataKey(folded, spelled, expands) == [folded |-> folded, spelled |-> spelled, expands |-> expands]
Keys == {<<>>, <<MetadataKey("a", "A", FALSE), MetadataKey("a", "a", FALSE)>>, <<MetadataKey("a", "a", FALSE), MetadataKey("b", "b", FALSE)>>,
         <<MetadataKey("e", "e", TRUE), MetadataKey("e", "e", TRUE)>>}
BatchTasks ==
  [of : {"batch"}, decoding : Decodings, nullIsZero : BOOLEAN,
   written : [size : Numbers16, most : Numbers16, timeout : {Unwritten, Usual, Expanded}, keys : {<<>>}]
             \cup [size : Few, most : Few, timeout : Intervals, keys : Keys]]

QuantityTasks == [of : {"quantity"}, tenths : 0..60 \cup {95, 100, 641, 3276, 32767, 327670, 327675}, factor : {1, 4, 10, 16, 64, 100, 1000}]
WaitTasks ==
  [of : {"wait"}, attempt : 0..1, base : {0 + 5, 500},
   header : [is : {"seconds"}, n : {-1, 0, 1, 3, 10, 11, 3276, 3277, 6553, 6554, 9830, 9831}] \cup [is : {"date"}, n : {-5, 0, 7, 2000}] \cup [is : {"none"}, n : {0}]]


-----------------------------------------------------------------------------
(* Hints: two siblings; names of up to four letters. *)
MCSiblingOrder == <<"contrib", "core">>
HintTasks == [of : {"hints"}, own : {"acme", "core"}, ships : [{"contrib", "core"} -> SUBSET HintedTypes]]

Finds(rule, severity, line) == [rule |-> rule, severity |-> severity, line |-> line]
ResultWith(path, status, findings, coverage) ==
  [path |-> path, status |-> status, findings |-> findings, coverage |-> coverage]

FailingFindings ==
  {<<>>, <<Finds(1, "error", 1)>>, <<Finds(1, "error", 1), Finds(2, "warning", 1), Finds(2, "info", 2)>>,
   <<Finds(1, "error", 1), Finds(1, "error", 2), Finds(2, "error", 3)>>, <<Finds(2, "warning", 1), Finds(1, "warning", 2)>>}

ResultsOf(path) ==
  {ResultWith(path, "error", <<>>, "none"), ResultWith(path, "skipped", <<>>, "none"), ResultWith(path, "valid", <<>>, "none")}
  \cup {ResultWith(path, "invalid", f, c) : f \in FailingFindings, c \in {"none", "partial"}}
  \cup {ResultWith(path, "valid", f, c) : f \in {<<>>, <<Finds(2, "warning", 1)>>, <<Finds(2, "info", 1), Finds(2, "info", 2)>>},
                                       c \in {"complete", "partial"}}

\* Standard input comes first and is shown under a name that sorts last; so may
\* a file be called.
ReportTasks ==
  [of : {"report"}, opts : [verbose : BOOLEAN, summary : BOOLEAN],
   results : {<<a, b, c>> : a \in ResultsOf(3), b \in ResultsOf(1), c \in ResultsOf(2) \cup ResultsOf(3)}
             \cup {<<>>} \cup {<<a>> : a \in ResultsOf(1)}]

-----------------------------------------------------------------------------
MCLowerCase == ("a" :> "a") @@ ("b" :> "b") @@ ("A" :> "a") @@ ("_" :> "_")
MCKindSuffixes == <<<<"a", "a">>, <<"a", "b">>>>
NamesOf(letters, sizes) == UNION {[1..n -> letters] : n \in sizes}
SuggestTasks ==
  [of : {"suggest"}, got : NamesOf({"a", "b", "A", "_"}, 0..3) \cup NamesOf({"a", "b"}, {4}),
   candidates : {<<>>} \cup {<<c, d>> : c \in NamesOf({"a", "b", "_"}, 1..2), d \in NamesOf({"a", "b"}, {2, 3}) \cup {<<"a", "_", "b">>}}]

-----------------------------------------------------------------------------
\* Only what may be asked is.
ASSUME AskableAssumption ==
  /\ LimiterTasks \cup SizingTasks \cup WideTasks \cup BatchTasks \cup QuantityTasks \cup WaitTasks \subseteq NumberQuestions
  /\ \A t \in ScanTasks : IsScan(t)
  /\ \A t \in SearchTasks \cup TextTasks \cup FoldTasks \cup EnvironmentTasks : IsStart(t)
  /\ \A t \in ReportTasks : IsReport(t)
  /\ HintTasks \subseteq HintQuestions /\ SpanTasks \subseteq SpanQuestions /\ SuggestTasks \subseteq SuggestQuestions

-----------------------------------------------------------------------------
MCMaxExpandedNodes == 36

Init ==
  /\ answer = Unasked
  /\ \/ task \in OrderTasks
     \/ task \in SpanTasks
     \/ task \in DiffTasks
     \/ task \in ReadTasks
     \/ task \in WireTasks
     \/ task \in UpstreamTasks
     \/ task \in ScanTasks
     \/ task \in SearchTasks
     \/ task \in TextTasks
     \/ task \in FoldTasks
     \/ task \in EnvironmentTasks
     \/ task \in FieldTasks
     \/ task \in HarvestTasks
     \/ task \in ManifestTasks
     \/ task \in PinTasks
     \/ task \in DeclareTasks
     \/ task \in DecoderTasks
     \/ task \in SettingsTasks
     \/ task \in WaysTasks
     \/ task \in ArrangeTasks
     \/ task \in LimiterTasks
     \/ task \in SizingTasks
     \/ task \in WideTasks
     \/ task \in BatchTasks
     \/ task \in QuantityTasks
     \/ task \in WaitTasks
     \/ task \in HintTasks
     \/ task \in JudgeTasks
     \/ task \in StructureTasks
     \/ task \in SecretTasks
     \/ task \in ReportTasks
     \/ task \in SuggestTasks

AnyPart == Next \/ StartStep \/ FieldStep \/ HarvestStep \/ InventoryStep
           \/ PipelineStep \/ NumberStep \/ HintStep \/ ConfigStep
           \/ ReportStep

Spec == Init /\ [][AnyPart]_asking
=============================================================================
