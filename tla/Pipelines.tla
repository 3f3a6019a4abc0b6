----------------------------- MODULE Pipelines ------------------------------
(***************************************************************************)
(* The rules that give advice on a pipeline: missing-batch and             *)
(* missing-memory-limiter, which ask what comes down from the pipelines    *)
(* ahead, no-persistent-queue, and processor-order.                        *)
(*                                                                         *)
(* A config is one of References with the settings of its exporters,       *)
(* settings[id]; a schema says of an exporter type what queue it takes,    *)
(* queue[type], and how scalars are decoded.                               *)
(***************************************************************************)
EXTENDS References, TLC

CONSTANTS
  ProcessorNames  \* the processors a provider may supply

-----------------------------------------------------------------------------
(* What an exporter writes of its sending queue. *)

\* readQueueBatching, readBatchBlock.
QueueBatchingAsWritten(settings) ==
  IF settings.form = "mapping" /\ settings.queue = "mapping" /\ settings.batch THEN "queue" ELSE "none"
QueueBatching(settings) ==
  IF settings.form # "mapping" \/ settings.queue \in {"absent", "null"} THEN "none"
  ELSE IF settings.queue # "mapping" THEN "unknown"
  ELSE IF settings.batch THEN "queue" ELSE "none"

\* acceptsQueueBatch: a queue left open may hold what it does not list.
AcceptsQueueBatchIfQueue(schema, type) == schema.queue[type] \in {"bare", "batching", "open"}
AcceptsQueueBatch(schema, type) == schema.queue[type] \in {"batching", "open"}

\* AcceptsQueue.
AcceptsQueue(schema, type, written) ==
  IF schema.queue[type] = "undescribed" THEN written ELSE schema.queue[type] # "none"

QueueIsWritten(settings) == settings.form = "mapping" /\ settings.queue # "absent"

\* readSendingQueue, readQueueBlock.
QueueIsUnresolvedAsQueue(schema, settings) ==
  settings.form = "expansion" \/ (QueueIsWritten(settings) /\ settings.queue = "expansion")
QueueIsUnresolved(schema, settings) ==
  \/ settings.form = "expansion"
  \/ /\ QueueIsWritten(settings)
     /\ \/ settings.queue = "expansion"
        \/ settings.queue = "mapping" /\ settings.enabled = "expansion"
        \/ settings.queue = "mapping" /\ settings.enabled = "quoted false" /\ schema.decoding = "unknown"
QueueIsDisabled(schema, settings) ==
  /\ QueueIsWritten(settings) /\ settings.queue = "mapping"
  /\ \/ settings.enabled = "false"
     \/ settings.enabled = "quoted false" /\ schema.decoding = "weak"
QueueIsPersisted(settings) ==
  QueueIsWritten(settings) /\ settings.queue = "mapping" /\ settings.storage \in {"named", "expansion"}

NoPersistentQueueDeclared(c, schema) ==
  {[rule |-> "no-persistent-queue", at |-> id] : id \in {i \in c.declared.exporter : ~QueueIsPersisted(c.settings[i])}}
NoPersistentQueue(c, schema) ==
  {[rule |-> "no-persistent-queue", at |-> id] :
     id \in {i \in c.declared.exporter :
               /\ i \in Used(c, "exporter")
               /\ ~QueueIsDisabled(schema, c.settings[i])
               /\ ~QueueIsPersisted(c.settings[i])
               /\ ~QueueIsUnresolved(schema, c.settings[i])
               /\ AcceptsQueue(schema, i.type, QueueIsWritten(c.settings[i]))}}

-----------------------------------------------------------------------------
(* Batching and backpressure. *)

LimiterType == "memory_limiter"
BatchType   == "batch"

HasProcessorType(c, p, types) == \E id \in RefsOf(c, p, "processor") : id.type \in types

\* exportLegs: a connector is no leg; an exporter nobody declared is one, but
\* has no settings to read.
Legs(c, p) == {id \in RefsOf(c, p, "exporter") : ResolvedKind(c, "exporter", id) # "connector"}
UnbatchedAll(c, p) == {id \in Legs(c, p) : ResolvedKind(c, "exporter", id) = "exporter"}
Unbatched(c, p) ==
  {id \in Legs(c, p) : ResolvedKind(c, "exporter", id) = "exporter" /\ QueueBatching(c.settings[id]) = "none"}

\* pipelineFix; of one leg it is exporterFix.
FixForAny(schema, legs) ==
  IF \E id \in legs : AcceptsQueueBatch(schema, id.type) THEN "queue" ELSE "processor"
FixFor(schema, legs) ==
  LET taking == {id \in legs : AcceptsQueueBatch(schema, id.type)}
  IN  IF taking = legs THEN "queue" ELSE IF taking = {} THEN "processor" ELSE "split"

\* One finding of the pipeline where no leg batches, else one of each leg.
BatchAdvice(c, schema, p) ==
  LET unbatched == Unbatched(c, p)
      Of(legs)  == [rule |-> "missing-batch", pipe |-> p, legs |-> legs, fix |-> FixFor(schema, legs)]
  IN  IF unbatched = {} THEN {}
      ELSE IF unbatched = Legs(c, p) THEN {Of(unbatched)}
      ELSE {Of({id}) : id \in unbatched}

BatchConnectors   == {"forward"}
LimiterConnectors == {"forward", "routing"}

\* additional: the types the settings of the rule declare to batch.
MissingBatch(c, schema, additional) ==
  UNION {BatchAdvice(c, schema, p) :
    p \in {q \in DOMAIN c.pipelines :
             /\ ~Supplied(c.pipelines[q].processor)
             /\ ~HasProcessorType(c, q, {BatchType} \cup additional)
             /\ c.pipelines[q].exporter.refs # <<>>
             /\ ~UpstreamCovered(c, [types |-> {BatchType} \cup additional, connectors |-> BatchConnectors], q)}}

\* missing-memory-limiter.
MissingMemoryLimiterBatching(c) ==
  {[rule |-> "missing-memory-limiter", pipe |-> p] :
     p \in {q \in DOMAIN c.pipelines :
              ~UpstreamCovered(c, [types |-> {LimiterType}, connectors |-> BatchConnectors], q)}}
MissingMemoryLimiter(c) ==
  {[rule |-> "missing-memory-limiter", pipe |-> p] :
     p \in {q \in DOMAIN c.pipelines :
              /\ ~Supplied(c.pipelines[q].processor)
              /\ ~HasProcessorType(c, q, {LimiterType})
              /\ c.pipelines[q].receiver.refs # <<>>
              /\ ~UpstreamCovered(c, [types |-> {LimiterType}, connectors |-> LimiterConnectors], q)}}

PipelineFindings(c, schema, additional) ==
  MissingBatch(c, schema, additional) \cup MissingMemoryLimiter(c) \cup NoPersistentQueue(c, schema)

-----------------------------------------------------------------------------
(* processor-order, of the list of one pipeline. *)

Enriching == {"k8sattributes", "k8s_attributes", "resourcedetection", "resource_detection", "resource"}
Sampling  == {"tail_sampling", "probabilistic_sampler"}

\* samplerBefore: the first one ahead of i.
LastSampler(refs, i) == {Max({0} \cup {j \in 1..(i - 1) : refs[j].type \in Sampling})} \ {0}
SamplersBefore(refs, i) == {j \in 1..(i - 1) : refs[j].type \in Sampling}

BatchIsOverrunByLimiter(refs, i) == i < Len(refs) - 1 /\ refs[i + 1].type # LimiterType
BatchIsOverrun(refs, i) == i < Len(refs) /\ refs[i + 1].type # LimiterType

\* Each finding with the place its hint moves the processor to.
ProcessorOrder(refs) ==
  {[rule |-> "limiter", at |-> i, to |-> 1] : i \in {j \in DOMAIN refs : refs[j].type = LimiterType /\ j > 1}}
  \cup {[rule |-> "batch", at |-> i, to |-> Len(refs)] :
          i \in {j \in DOMAIN refs : refs[j].type = BatchType /\ BatchIsOverrun(refs, j)}}
  \cup {[rule |-> "sampling", at |-> i, to |-> Min(SamplersBefore(refs, i))] :
          i \in {j \in DOMAIN refs : refs[j].type \in Enriching /\ SamplersBefore(refs, j) # {}}}

-----------------------------------------------------------------------------
(* The pipeline rules asked about one config, and processor-order about    *)
(* one list whose findings are then followed one by one.                   *)
Advise ==
  /\ Asked("advice")
  /\ answer' = [findings |-> PipelineFindings(task.config, task.schema, task.additional)]
  /\ UNCHANGED task

\* The list as written, then with the processor of one finding moved.
Arrange ==
  /\ Asked("arrange")
  /\ answer' = [refs |-> task.refs, moved |-> <<>>]
  /\ UNCHANGED task

Move ==
  /\ Answered("arrange")
  /\ \E f \in ProcessorOrder(answer.refs) :
       answer' = [refs  |-> InsertAt(RemoveAt(answer.refs, f.at), f.to, answer.refs[f.at]),
                  moved |-> Append(answer.moved, answer.refs[f.at])]
  /\ UNCHANGED task

PipelineStep == Advise \/ Arrange \/ Move

\* What may be asked: advice on any config with settings and any schema of the
\* types it declares, whether a pipeline is covered, and the order of any list
\* that names nothing twice and has one limiter and one batch at most.
FiniteConfigs == {c \in WrittenConfigs : IsFiniteSet(DOMAIN c.pipelines)}
WrittenSettings ==
  {s \in [form : {"mapping", "null", "scalar", "expansion"}, queue : {"absent", "null", "mapping", "scalar", "expansion"},
          batch : BOOLEAN, enabled : {"absent", "true", "false", "quoted false", "expansion"},
          storage : {"absent", "empty", "named", "expansion"}] :
     /\ s.form # "mapping" => s.queue = "absent"
     /\ s.queue # "mapping" => ~s.batch /\ s.enabled = "absent" /\ s.storage = "absent"}
WithSettings(c, s) ==
  [declared |-> c.declared, sectionsSupplied |-> c.sectionsSupplied, service |-> c.service,
   pipelinesSupplied |-> c.pipelinesSupplied, extensions |-> c.extensions, named |-> c.named,
   pipelines |-> c.pipelines, settings |-> s]
ExporterSchemas(types) ==
  [queue : [types -> {"undescribed", "none", "bare", "batching", "open"}], decoding : {"weak", "strict", "unknown"}]

AdviceQuestions ==
  UNION {[of : {"advice"}, additional : SUBSET STRING, schema : ExporterSchemas({id.type : id \in c.declared.exporter}),
          config : {WithSettings(c, s) : s \in [c.declared.exporter -> WrittenSettings]}] : c \in FiniteConfigs}
UpstreamQuestions ==
  {t \in [of : {"upstream"}, config : FiniteConfigs, from : STRING] : t.from \in DOMAIN t.config.pipelines}
OnceEach(refs) ==
  \A i, j \in DOMAIN refs :
    /\ refs[i] = refs[j] /\ refs[i] # Expansion => i = j
    /\ refs[i].type = refs[j].type /\ refs[i].type \in {LimiterType, BatchType} => i = j
ArrangeQuestions == {t \in [of : {"arrange"}, refs : Seq(WrittenIds)] : OnceEach(t.refs)}

PipelineInit == task \in AdviceQuestions \cup UpstreamQuestions \cup ArrangeQuestions /\ answer = Unasked
PipelineSpec == PipelineInit /\ [][PipelineStep \/ Upstream]_asking

-----------------------------------------------------------------------------
Advised(rule) == {f \in answer.findings : f.rule = rule}
BatchingTypes  == {BatchType} \cup task.additional
TypesOn(list)    == {id.type : id \in ToSet(list.refs)}

\* What an exporter's settings may be when the collector starts.
SettingsSupplied(s) ==
  IF s.form = "expansion" THEN {[s EXCEPT !.form = "mapping"]}
  ELSE {t \in [form : {s.form}, queue : {s.queue, "null", "mapping"}, batch : {s.batch, TRUE},
               enabled : {s.enabled, "true", "false"}, storage : {s.storage, "named"}] :
          /\ s.queue # "expansion" => t.queue = s.queue /\ t.batch = s.batch
          /\ s.queue = "expansion" => t.queue # "expansion"
          /\ s.queue # "expansion" /\ s.enabled # "expansion" => t.enabled = s.enabled
          /\ s.enabled = "expansion" => t.enabled # "expansion"
          /\ s.queue # "expansion" /\ s.storage # "expansion" => t.storage = s.storage}

Batches(s)  == s.form = "mapping" /\ s.queue = "mapping" /\ s.batch
Persists(s) == s.form = "mapping" /\ s.queue = "mapping" /\ s.storage \notin {"absent", "empty"}
\* Unless the release reads a quoted word as it stands, it may be false.
Declines(s) == /\ s.form = "mapping" /\ s.queue = "mapping"
               /\ s.enabled = "false" \/ (s.enabled = "quoted false" /\ task.schema.decoding # "strict")

\* Data is lost or sent unbatched as the finding says, whatever a provider
\* supplies: no processor it supplies batches or limits, and no setting it
\* supplies of the queue makes it batch, persist or go away.
AdviceSurvivesSupply ==
  LET c == task.config
      Processors(p) == ListSuppliedFrom(c.pipelines[p].processor, {<<>>} \cup {<<n>> : n \in ProcessorNames}, ProcessorNames)
  IN  /\ \A f \in Advised("missing-batch") :
           /\ \A list \in Processors(f.pipe) : TypesOn(list) \cap BatchingTypes = {}
           /\ \A id \in f.legs : c.settings[id].form = "expansion" \/ \A s \in SettingsSupplied(c.settings[id]) : ~Batches(s)
      /\ \A f \in Advised("missing-memory-limiter") : \A list \in Processors(f.pipe) : LimiterType \notin TypesOn(list)
      /\ \A f \in Advised("no-persistent-queue") :
           c.settings[f.at].form # "expansion" /\ \A s \in SettingsSupplied(c.settings[f.at]) : ~Persists(s) /\ ~Declines(s)

\* The pipelines whose data reaches one of S with no processor of the types on
\* its way, over the connectors that pass it on.
RawInto(c, p, types, connectors) ==
  {q \in DOMAIN c.pipelines :
     /\ ~HasProcessor(c, q, types)
     /\ \E id \in RefsOf(c, p, "receiver") :
          id.type \in connectors /\ q \in ConnectorPipelines(c, "exporter", id)
     /\ c.pipelines[q].signal = c.pipelines[p].signal}
ReachRaw(c, S, types, connectors) ==
  AllFrom([p \in DOMAIN c.pipelines |-> RawInto(c, p, types, connectors)], S)
EntersRaw(c, p, types, connectors) ==
  /\ TypesOn(c.pipelines[p].processor) \cap types = {} /\ ~Supplied(c.pipelines[p].processor)
  /\ \E q \in ReachRaw(c, {p}, types, connectors) : \E id \in RefsOf(c, q, "receiver") : ResolvedKind(c, "receiver", id) = "receiver"

\* No data gets from a receiver to an exporter unbatched, or past no limiter,
\* unremarked; nor does an exporter that a pipeline uses keep its queue in
\* memory so, where its type is known to have one.
EveryRawWayIsReported ==
  LET c == task.config
  IN  \A p \in DOMAIN c.pipelines :
        /\ EntersRaw(c, p, BatchingTypes, BatchConnectors) =>
             \A id \in Legs(c, p) \cap c.declared.exporter :
               (\A s \in SettingsSupplied(c.settings[id]) : ~Batches(s)) /\ c.settings[id].queue # "scalar" =>
                 \E f \in Advised("missing-batch") : f.pipe = p /\ id \in f.legs
        /\ EntersRaw(c, p, {LimiterType}, LimiterConnectors) =>
             \E f \in Advised("missing-memory-limiter") : f.pipe = p
        /\ \A id \in Legs(c, p) \cap c.declared.exporter :
             /\ task.schema.queue[id.type] \notin {"undescribed", "none"} /\ c.settings[id].form # "expansion"
             /\ \A s \in SettingsSupplied(c.settings[id]) : ~Persists(s) /\ ~Declines(s)
             => \E f \in Advised("no-persistent-queue") : f.at = id

\* A hint can be followed, and following it ends the finding: it names
\* sending_queue.batch only where every exporter it is about takes it, and the
\* config that does as it says is told nothing more of that pipeline and
\* nothing new of any other ("which unknown-field, reading the same schema,
\* would report in the same run", acceptsQueueBatch).
Told(findings) == UNION {{<<f.pipe, id>> : id \in f.legs} : f \in findings}
HintsCanBeFollowed ==
  LET c == task.config
      Batching(id) == [form |-> "mapping", queue |-> "mapping", batch |-> TRUE, enabled |-> "absent", storage |-> "absent"]
      Again(d) == MissingBatch(d, task.schema, task.additional)
      Appended(p) == Append(c.pipelines[p].processor.refs, [type |-> BatchType, name |-> ""])
  IN  \A f \in Advised("missing-batch") :
        IF f.fix = "queue"
        THEN LET again == Again([c EXCEPT !.settings = [id \in DOMAIN @ |-> IF id \in f.legs THEN Batching(id) ELSE @[id]]])
             IN  /\ \A id \in f.legs : task.schema.queue[id.type] \in {"batching", "open"}
                 /\ Told(again) \subseteq Told(Advised("missing-batch")) \ {<<f.pipe, id>> : id \in f.legs}
        ELSE LET again == Again([c EXCEPT !.pipelines[f.pipe].processor.refs = Appended(f.pipe)])
             IN  /\ f.fix = "processor" <=> \A id \in f.legs : task.schema.queue[id.type] \notin {"batching", "open"}
                 /\ Told(again) \subseteq Told({g \in Advised("missing-batch") : g.pipe # f.pipe})
                 /\ ~\E g \in ProcessorOrder(Appended(f.pipe)) : g.at = Len(Appended(f.pipe))

\* Moving processors as processor-order says, in any order, moves each at most
\* once and ends with a list it has nothing to say of: the limiter in front,
\* batch at the end, and no enrichment behind a sampler.
MovesEndInOrder ==
  Answered("arrange") =>
    LET refs == answer.refs
    IN  /\ \A i, j \in DOMAIN answer.moved : answer.moved[i] = answer.moved[j] => i = j
        /\ ProcessorOrder(refs) = {} =>
             \A i, j \in DOMAIN refs : i < j =>
               refs[j].type # LimiterType /\ refs[i].type # BatchType
               /\ ~(refs[i].type \in Sampling /\ refs[j].type \in Enriching)

\* The advice on a pipeline is warranted, complete and can be taken, and the
\* walk it rests on looks at every way in.
AdviceHolds ==
  /\ Answered("advice") => AdviceSurvivesSupply /\ EveryRawWayIsReported /\ HintsCanBeFollowed
  /\ MovesEndInOrder
  /\ CoverageIsEveryPath
=============================================================================
