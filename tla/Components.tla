----------------------------- MODULE Components -----------------------------
(***************************************************************************)
(* The rules that hold a config against what the release ships             *)
(* (signalsupport, unknowncomponent, deprecatedcomponent and               *)
(* componentstability under pkg/rule), and invalid-pipeline-key's reading  *)
(* of a pipeline's signal.                                                 *)
(*                                                                         *)
(* A schema gives each kind a function from the types the release ships to *)
(* what it says of them: the signals, a connector's pairs of them, the     *)
(* level recorded per signal ("" for an extension's), and whether it is    *)
(* deprecated.  Pipelines are read in the order their names are listed.    *)
(***************************************************************************)
EXTENDS References

CONSTANTS
  PipelineOrder,  \* the pipelines a config may have, as written
  Factories       \* what the release ships: a schema that states all of it

Signals == {"traces", "metrics", "logs", "profiles"}
NoLevel == "none"

ShipsAnything(s) == \E kind \in Kinds : DOMAIN s[kind] # {}
KnownType(s, kind, id) == id.type \in DOMAIN s[kind]

StatesSignalsAlways(comp, kind) == TRUE
StatesSignals(comp, kind) == comp.pairs # {} \/ (kind # "connector" /\ comp.signals # {})

Carries(comp, signal) == signal \in comp.signals \/ \E p \in comp.pairs : signal \in {p[1], p[2]}
\* A connector takes in at its exporter's end and gives out at its receiver's.
SupportsEitherEnd(comp, kind, slot, signal) == Carries(comp, signal)
SupportsIn(comp, kind, slot, signal) ==
  CASE kind # "connector" -> Carries(comp, signal)
    [] kind = "connector" /\ slot = "receiver" -> \E p \in comp.pairs : p[2] = signal
    [] kind = "connector" /\ slot = "exporter" -> \E p \in comp.pairs : p[1] = signal

StabilityFor(comp, signal) ==
  LET levels == comp.stability
  IN  IF signal \in DOMAIN levels THEN levels[signal]
      ELSE IF Cardinality(DOMAIN levels) = 1 THEN levels[CHOOSE s \in DOMAIN levels : TRUE]
      ELSE NoLevel

-----------------------------------------------------------------------------
(* Findings are records of a rule, a place and what it is about. *)

InvalidSignal(c) ==
  {[rule |-> "invalid-pipeline-key", pipe |-> p] : p \in {q \in DOMAIN c.pipelines : c.pipelines[q].signal \notin Signals}}

\* References to a declared component of a type the release ships; a slot is
\* asked about those that state their signals.
UnknownComponent(c, s) ==
  UNION {{[rule |-> "unknown-component", kind |-> kind, id |-> id] : id \in {i \in c.declared[kind] : ~KnownType(s, kind, i)}} :
         kind \in Kinds}

SignalMisfit(c, s, p, slot, id) ==
  LET signal == c.pipelines[p].signal
      kind   == ResolvedKind(c, slot, id)
  IN  /\ signal \in Signals
      /\ kind # NoKind /\ KnownType(s, kind, id)
      /\ StatesSignals(s[kind][id.type], kind)
      /\ ~SupportsIn(s[kind][id.type], kind, slot, signal)
SignalSupport(c, s) ==
  UNION {UNION {{[rule |-> "signal-support", pipe |-> p, slot |-> slot, id |-> id] :
                   id \in {i \in RefsOf(c, p, slot) : SignalMisfit(c, s, p, slot, i)}} :
                slot \in Slots} :
         p \in DOMAIN c.pipelines}

\* EachUsedComponent.
UsedComponents(c, s) ==
  {u \in UNION {{[kind |-> k, id |-> id] : id \in c.declared[k] \cap Used(c, k)} : k \in Kinds} : KnownType(s, u.kind, u.id)}

DeprecatedComponent(c, s) ==
  {[rule |-> "deprecated-component", kind |-> u.kind, id |-> u.id] :
     u \in {v \in UsedComponents(c, s) :
              LET comp == s[v.kind][v.id.type]
              IN  \/ comp.deprecated
                  \/ \E signal \in DOMAIN comp.stability : comp.stability[signal] \in {"deprecated", "unmaintained"}}}

\* usedSignals: those of the pipelines that name the id, by their places.
UsedSignals(c, kind, id) ==
  LET naming == {i \in DOMAIN PipelineOrder : /\ PipelineOrder[i] \in DOMAIN c.pipelines
                                              /\ \E slot \in Slots : id \in RefsOf(c, PipelineOrder[i], slot)}
  IN  IF kind = "extension" THEN <<"">> ELSE [i \in naming |-> c.pipelines[PipelineOrder[i]].signal]
Reportable(alpha) == {"development"} \cup IF alpha THEN {"alpha"} ELSE {}
Earliest(places) == CHOOSE i \in places : \A j \in places : i <= j

\* One finding, for the first signal worth one; reportAlpha is a setting.
StabilityAt(u, signals, comp, places) ==
  IF places = {} THEN {}
  ELSE LET signal == signals[Earliest(places)]
       IN  {[rule |-> "component-stability", kind |-> u.kind, id |-> u.id, signal |-> signal, level |-> StabilityFor(comp, signal)]}
StabilityOfFirst(c, s, alpha, u) ==
  LET comp    == s[u.kind][u.id.type]
      signals == UsedSignals(c, u.kind, u.id)
      first   == IF DOMAIN signals = {} THEN {} ELSE {Earliest(DOMAIN signals)}
  IN  StabilityAt(u, signals, comp, {i \in first : StabilityFor(comp, signals[i]) \in Reportable(alpha)})
StabilityOf(c, s, alpha, u) ==
  LET comp    == s[u.kind][u.id.type]
      signals == UsedSignals(c, u.kind, u.id)
  IN  StabilityAt(u, signals, comp, {i \in DOMAIN signals : StabilityFor(comp, signals[i]) \in Reportable(alpha)})
ComponentStability(c, s, alpha) == UNION {StabilityOf(c, s, alpha, u) : u \in UsedComponents(c, s)}

\* Without a schema the rules that consult it stay silent.
ComponentFindings(c, s, alpha) ==
  InvalidSignal(c) \cup
  IF ~ShipsAnything(s) THEN {}
  ELSE UnknownComponent(c, s) \cup SignalSupport(c, s) \cup DeprecatedComponent(c, s) \cup ComponentStability(c, s, alpha)

-----------------------------------------------------------------------------
(* The rules asked, with the schema generated of the release. *)

\* The release ships something; a connector joins pairs of signals, and all
\* else in a pipeline carries some.
ASSUME FactoriesAssumption ==
  /\ DOMAIN Factories = Kinds /\ \E kind \in Kinds : DOMAIN Factories[kind] # {}
  /\ \A kind \in Kinds : \A type \in DOMAIN Factories[kind] :
       LET comp == Factories[kind][type]
       IN  /\ DOMAIN comp = {"signals", "pairs", "stability", "deprecated"}
           /\ comp.signals \subseteq Signals /\ comp.pairs \subseteq Signals \X Signals
           /\ kind \in Slots => comp.signals # {}
           /\ kind = "connector" <=> comp.pairs # {}
ASSUME PipelineOrderAssumption == PipelineOrder \in Seq(STRING)

\* The schema generated of the release: some types' signals not stated, or
\* none of it.
GeneratedSchema(forgotten, ready) ==
  [kind \in Kinds |->
    IF ~ready THEN <<>>
    ELSE [type \in DOMAIN Factories[kind] |->
            IF <<kind, type>> \in forgotten THEN [Factories[kind][type] EXCEPT !.signals = {}, !.pairs = {}]
            ELSE Factories[kind][type]]]

Judge ==
  /\ Asked("judge")
  /\ answer' = [findings |-> ComponentFindings(task.config, GeneratedSchema(task.forgotten, task.ready), task.alpha),
                undefined |-> UndefinedReference(task.config)]
  /\ UNCHANGED task

-----------------------------------------------------------------------------
(* What the release can build. *)

KindsBehind(c, slot, id) ==
  {k \in {slot} \cup (IF slot = "processor" THEN {} ELSE {"connector"}) : id \in c.declared[k]}

\* There is a factory for the component at this end of a pipeline.
Builds(kind, type, slot, signal) ==
  IF kind = "connector"
  THEN \E pair \in Factories[kind][type].pairs : signal = (IF slot = "receiver" THEN pair[2] ELSE pair[1])
  ELSE signal \in Factories[kind][type].signals
CanBuild(c, p, slot, id) ==
  \E k \in KindsBehind(c, slot, id) :
    id.type \in DOMAIN Factories[k] /\ Builds(k, id.type, slot, c.pipelines[p].signal)

\* Some rule says why the reference does not work.
ToldOf(c, p, slot, id) ==
  \/ [rule |-> "invalid-pipeline-key", pipe |-> p] \in answer.findings
  \/ <<"undefined", p, slot, id>> \in answer.undefined
  \/ \E k \in KindsBehind(c, slot, id) : [rule |-> "unknown-component", kind |-> k, id |-> id] \in answer.findings
  \/ [rule |-> "signal-support", pipe |-> p, slot |-> slot, id |-> id] \in answer.findings

\* Each rule passes over what another reports ("invalid-pipeline-key reports
\* this", "undefined-reference reports this", "unknown-component reports
\* this"), and between them they keep the promise: a reference the release
\* cannot build is reported by one of them, unless its declaration is supplied
\* or the schema does not state it, and none that it can build is.
EveryMisfitIsTold ==
  Answered("judge") /\ task.ready =>
    LET c == task.config
    IN  \A p \in DOMAIN c.pipelines, slot \in Slots : \A id \in RefsOf(c, p, slot) \ {Expansion} :
          /\ ToldOf(c, p, slot, id) => ~CanBuild(c, p, slot, id)
          /\ ~CanBuild(c, p, slot, id) /\ task.forgotten = {} /\ ~HasDynamicDeclarations(c, slot)
             => ToldOf(c, p, slot, id)

StabilityFindings == {f \in answer.findings : f.rule = "component-stability"}

\* The signals of the pipelines that use the component of this kind.
WiredSignals(c, kind, id) ==
  {c.pipelines[p].signal : p \in {q \in DOMAIN c.pipelines :
     \E slot \in Slots : id \in RefsOf(c, q, slot) /\ ResolvedKind(c, slot, id) = kind}}
\* Wherever the id is named, it is the component of this kind.
NamedAs(c, kind, id) ==
  \A p \in DOMAIN c.pipelines, slot \in Slots : id \in RefsOf(c, p, slot) => ResolvedKind(c, slot, id) = kind

\* "usedSignals returns the signals a component is wired into, so stability can
\* be reported for the signals that matter" (componentstability/rule.go).
SignalsAreThoseWired ==
  Answered("judge") =>
    \A f \in StabilityFindings :
      f.kind # "extension" => f.signal \in WiredSignals(task.config, f.kind, f.id)

\* A component that is meant wherever its id is named is reported once, for a
\* signal it is wired into, exactly if it is not beta for one of those; and
\* hearing of alpha hides no component that is in development.
StabilityIsToldOnce ==
  Answered("judge") /\ task.ready =>
    LET c == task.config
        schema == GeneratedSchema(task.forgotten, TRUE)
        NotYetBeta(kind, id, signal) == StabilityFor(Factories[kind][id.type], signal) \in Reportable(task.alpha)
    IN  /\ \A f, g \in StabilityFindings : f.kind = g.kind /\ f.id = g.id => f = g
        /\ \A kind \in Kinds \ {"extension"} : \A id \in c.declared[kind] :
             id.type \in DOMAIN Factories[kind] /\ NamedAs(c, kind, id) =>
               ((\E signal \in WiredSignals(c, kind, id) : NotYetBeta(kind, id, signal)) <=>
                  \E f \in StabilityFindings :
                    f.kind = kind /\ f.id = id /\ f.signal \in WiredSignals(c, kind, id) /\ NotYetBeta(kind, id, f.signal))
        /\ {<<f.kind, f.id>> : f \in ComponentStability(c, schema, FALSE)}
             \subseteq {<<f.kind, f.id>> : f \in ComponentStability(c, schema, TRUE)}

\* References hold whatever is supplied, and against what the release ships.
ReferencesAreJudgedRight == FindingsSurviveSupply /\ EveryMisfitIsTold /\ StabilityIsToldOnce

-----------------------------------------------------------------------------
(* What may be asked: any config whose ids the collector tells apart, with  *)
(* any of the release's types forgotten.                                    *)

JudgeQuestions ==
  {q \in [of : {"judge"}, config : WrittenConfigs, forgotten : SUBSET (Kinds \X STRING), ready : BOOLEAN, alpha : BOOLEAN] :
     Unambiguous(q.config.declared) /\ DOMAIN q.config.pipelines \subseteq ToSet(PipelineOrder)}

JudgingStep == Wire \/ Judge
JudgingInit == task \in WireQuestions \cup JudgeQuestions /\ answer = Unasked
JudgingSpec == JudgingInit /\ [][JudgingStep]_asking
=============================================================================
