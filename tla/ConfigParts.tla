---------------------------- MODULE ConfigParts ----------------------------
(***************************************************************************)
(* The parser and the rules asked about one config: how it was written     *)
(* (Structure), what it says against what the release ships (Components)   *)
(* and the credentials it carries (Secrets).                               *)
(***************************************************************************)
EXTENDS PureParts, Components, Structure, Secrets

ReadStructure ==
  /\ Asked("structure")
  /\ LET file == ParseConfig(task.root)
     IN  answer' = [file |-> file, findings |-> StructureFindings(file)]
  /\ UNCHANGED task

SearchSecrets ==
  /\ Asked("secrets")
  /\ answer' = [hits |-> HardcodedSecrets(task.doc, task.components)]
  /\ UNCHANGED task

ConfigStep == JudgingStep \/ ReadStructure \/ SearchSecrets

-----------------------------------------------------------------------------
(* What was written, place by place. *)

RECURSIVE WrittenUnder(_, _)
WrittenUnder(n, place) ==
  UNION {LET e  == n.items[i]
             at == Append(place, IF n.kind = "mapping" THEN e.key ELSE ToString(i))
         IN  {[place |-> at, node |-> e.node, of |-> n, nth |-> i]} \cup WrittenUnder(e.node, at) :
         i \in DOMAIN n.items}

\* What a config may have at a place, by the path that leads there.
RoleOf(p) ==
  LET top == p[1]  inService == top = "service"
  IN  CASE Len(p) = 1 -> IF top \in SectionKeys THEN "mapping" ELSE IF inService THEN "service" ELSE "unknown"
        [] Len(p) = 2 /\ top \in SectionKeys -> "id"
        [] Len(p) = 2 /\ inService ->
             CASE p[2] = "extensions" -> "list" [] p[2] = "telemetry" -> "mapping"
               [] p[2] = "pipelines" -> "pipelines" [] OTHER -> "unknown"
        [] Len(p) = 3 /\ inService /\ p[2] = "extensions" -> "reference"
        [] Len(p) = 3 /\ inService /\ p[2] = "telemetry" /\ p[3] \in TelemetryKeys -> "mapping"
        [] Len(p) = 3 /\ inService /\ p[2] = "pipelines" -> "pipeline"
        [] Len(p) = 4 /\ inService /\ p[2] = "pipelines" -> IF p[4] \in PipelineKeys THEN "list" ELSE "unknown"
        [] Len(p) = 5 /\ inService /\ p[2] = "pipelines" /\ p[4] \in PipelineKeys -> "reference"
        [] OTHER -> "free"
Role(x) == IF (RoleOf(x.place) = "reference") = (x.of.kind = "sequence") THEN RoleOf(x.place) ELSE "free"

Shaped(n, kind) == n.kind \in {"null", kind} \/ IsExpansion(n)
IsAnId(raw) ==
  LET id == Identifier[raw] IN id.type \in TypeForms /\ (id.slash => id.name \in NameForms)
MalformedAt(x) ==
  LET key == Last(x.place)
  IN  CASE Role(x) = "unknown"   -> TRUE
        [] Role(x) = "mapping"   -> ~Shaped(x.node, "mapping")
        [] Role(x) = "list"      -> ~Shaped(x.node, "sequence")
        [] Role(x) = "id"        -> ~IsAnId(key)
        [] Role(x) = "pipeline"  -> ~IsAnId(key) \/ Identifier[key].type \notin SignalTypes
        [] Role(x) = "reference" -> ~Shaped(x.node, "scalar") \/ (~IsExpansion(x.node) /\ ~IsAnId(x.node.value))
        [] OTHER                 -> FALSE

\* Places the collector needs something at and has nothing.
Missing(all) ==
  LET In(place, role) == {x \in all : Role(x) = role /\ Front(x.place) = place}
      Is(place)       == {x.node : x \in {y \in all : y.place = place}}
      Somewhere(place) == \E n \in Is(place) : IsExpansion(n)
      pipelines == <<"service", "pipelines">>
  IN  (IF Somewhere(<<"service">>) \/ Is(pipelines) # {} THEN {} ELSE {<<"service">>})
      \cup (IF Is(pipelines) = {} \/ Somewhere(pipelines) \/ In(pipelines, "pipeline") # {} THEN {} ELSE {pipelines})
      \cup {end \in UNION {{Append(x.place, slot) : slot \in {"receivers", "exporters"}} :
                           x \in {y \in In(pipelines, "pipeline") : ~IsExpansion(y.node)}} :
              /\ ~Somewhere(end)
              /\ \A x \in In(end, "reference") : ~Shaped(x.node, "scalar")}

Repeated(all) ==
  {x.place : x \in {y \in all : y.of.kind = "mapping" /\ \E j \in 1..(y.nth - 1) : y.of.items[j].key = Last(y.place)}}

\* What the structure holds for the rules to go on, and nothing but.
HeldPlaces(f) ==
  UNION {{<<key, e.key>> : e \in ToSet(MappingEntries(f.sections[key]))} : key \in SectionKeys}
    \cup {PipelinePath(p) : p \in f.service.pipelines}
    \cup UNION {{Append(l[1], ToString(i)) : i \in ItemsRead(l[2])} : l \in SlotLists(f)}

\* The rules on structure report each place where something is written that
\* the collector does not take, or not written that it needs, and no other;
\* a key written twice is reported at any depth; and of a config they accept
\* nothing is lost on the way to the other rules: every component, pipeline
\* and reference is held, and two ids of one section are two components, but
\* for ids that differ in the spaces around their slash alone.
NothingIsPassedOver ==
  Answered("structure") =>
    LET all    == WrittenUnder(task.root, <<>>)
        places == {f[2] : f \in answer.findings}
        faults == {x.place : x \in {y \in all : MalformedAt(y)}} \cup Missing(all)
        Ids(key) == {e.key : e \in ToSet(MappingEntries(answer.file.sections[key]))}
    IN  /\ answer.file.duplicates = Repeated(all)
        /\ Repeated(all) = {} => places = faults
        /\ answer.findings = {} =>
             /\ HeldPlaces(answer.file) =
                  {x.place : x \in {y \in all : Role(y) \in {"id", "pipeline", "reference"}}}
             /\ \A key \in SectionKeys : \A a, b \in Ids(key) :
                  Identifier[a].type = Identifier[b].type /\ Identifier[a].name = Identifier[b].name
                  => a = b \/ Identifier[a].spaced # Identifier[b].spaced

-----------------------------------------------------------------------------
(* What may be read as a credential. *)

RECURSIVE ReadInContext(_, _)
ReadInContext(doc, states) ==
  LET Onward(s) == {[node |-> e.node,
                   key |-> IF doc[s.node].kind = "sequence" THEN s.key ELSE e.key,
                   inHeaders |-> s.inHeaders \/ (doc[s.node].kind = "mapping" /\ e.key = HeadersKey)] :
                  e \in ToSet(doc[s.node].items)}
      more == states \cup UNION {Onward(s) : s \in {t \in states : doc[t.node].kind # "scalar"}}
  IN  IF more = states THEN states ELSE ReadInContext(doc, more)

\* Where a path leads, from a component.
RECURSIVE Leads(_, _, _)
Leads(doc, nodes, path) ==
  IF path = <<>> THEN nodes
  ELSE Leads(doc, UNION {{e.node : e \in {x \in ToSet(doc[n].items) :
                            IF doc[n].kind = "sequence" THEN Head(path) = "[]" ELSE x.key = Head(path)}} :
                         n \in {m \in nodes : doc[m].kind # "scalar"}}, Tail(path))

\* "It is one credential in one place to edit, so it is reported once"
\* (hardcodedsecret): every value that some way through the settings reads as
\* a credential is reported, once, at a path that leads to it, however many
\* anchors it is behind and whatever other way was taken first.
SecretsFoundOnce ==
  Answered("secrets") =>
    LET starts == {[node |-> n, key |-> NoSettingKey, inHeaders |-> FALSE] : n \in ToSet(task.components)}
        secret == {s.node : s \in {t \in ReadInContext(task.doc, starts) :
                     task.doc[t.node].kind = "scalar" /\ IsHardcodedSecret(t.key, task.doc[t.node].value, t.inHeaders)}}
    IN  /\ {h.node : h \in ToSet(answer.hits)} = secret
        /\ Len(answer.hits) = Cardinality(secret)
        /\ \A h \in ToSet(answer.hits) : h.node \in Leads(task.doc, {Head(h.path)}, Tail(h.path))

\* A config is read as the collector reads it, aliases and merges resolved, and
\* judged as it was written, all of it.
ConfigIsReadWhole == ReadAsTheCollectorReads /\ NothingIsPassedOver /\ SecretsFoundOnce
=============================================================================
