------------------------------- MODULE Fields -------------------------------
(***************************************************************************)
(* Settings against their schema, as operators: what a schema file is read *)
(* as (pkg/schema), the walk the four field rules share (FieldWalker), the *)
(* coverage it leaves (pkg/lint/coverage.go), and the references to        *)
(* extensions that the schema finds in settings (refWalker).               *)
(*                                                                         *)
(* A node is a mapping or a list of items, or a scalar with its tag, the   *)
(* value it is written as, what that value can be read as, and whether it  *)
(* holds an expansion.  Aliases and merges are resolved before (Resolve).  *)
(* A field schema says the type, the children by key, "item" for a list,   *)
(* what is required, and of the field itself whether it is deprecated and  *)
(* the role of the extension it names.  Findings are pairs of rule and     *)
(* path, what is skipped is a set of pairs of path and reason.             *)
(***************************************************************************)
EXTENDS Integers, Sequences, FiniteSets, SequencesExt, Asking, TLC

CONSTANTS
  MaxSettingsDepth, \* the bound of the walks over written settings
  ExtensionFields,  \* the built-in settings that name an extension: [parent, key, role]
  UpstreamNames,    \* the distributions whose decoder follows from their release
  StrictFrom,       \* the release from which quoted numbers stay text
  FieldRuleNames,   \* the four rules
  Values,           \* the values tried in place of a written one
  Holes,            \* the fields that say nothing
  DecodingTargets   \* the releases and decoders a schema may be for

NoRole == "none"
NoEnum == {}

\* What childSchema and Lookup return for a key without a schema.
NoField   == [type |-> "none", open |-> TRUE, children |-> <<>>, required |-> {}, enum |-> NoEnum,
              deprecated |-> FALSE, ref |-> NoRole]
\* A child written with no definition.
NullField == [NoField EXCEPT !.type = "null"]

-----------------------------------------------------------------------------
(* Read, and what the schema says of the decoder. *)

ValidAtTop(field) == field # NullField
RECURSIVE ValidField(_)
ValidField(field) ==
  field # NullField /\ \A key \in DOMAIN field.children : ValidField(field.children[key])

\* One document, every component and every field defined.
SchemaError(text) ==
  IF text.documents # 1 THEN "documents"
  ELSE IF \E type \in DOMAIN text.components : ~ValidField(text.components[type]) THEN "null"
  ELSE "none"

\* A modified or incomplete decoder and an unknown distribution or release are
\* not guessed from.
ScalarDecoding(target) ==
  LET own     == target.decoder # <<>>
      release == IF own THEN target.decoder[1].release ELSE target.release
  IN  IF \/ own /\ (target.decoder[1].modified \/ target.decoder[1].incomplete)
         \/ ~own /\ target.distribution \notin UpstreamNames
         \/ release = 0
      THEN "unknown"
      ELSE IF release < StrictFrom THEN "weak" ELSE "strict"

-----------------------------------------------------------------------------
(* The type of a value. *)

\* decodeQuotedScalar, DecodeScalar.
Quoted(node, type) ==
  IF type \in {"int", "float", "bool"} /\ type \in node.reads THEN [node EXCEPT !.tag = type] ELSE node
DecodeScalar(decoding, node, type) ==
  IF decoding = "weak" /\ node.tag = "str" /\ ~node.expands THEN Quoted(node, type) ELSE node

\* A float is an integer, and a number a duration, as far as int64 goes.
ReadsAsDuration(node) ==
  /\ node.kind = "scalar" /\ ~node.expands
  /\ IF node.tag \in {"int", "float"} THEN "int" \in node.reads ELSE "duration" \in node.reads

MatchesType(field, node) ==
  CASE field.type = "map"      -> node.kind = "mapping"
    [] field.type = "list"     -> node.kind = "sequence"
    [] field.type = "string"   -> node.kind = "scalar" /\ node.tag = "str"
    [] field.type = "bool"     -> node.tag = "bool"
    [] field.type = "int"      -> node.tag = "int" \/ (node.tag = "float" /\ "int" \in node.reads)
    [] field.type = "float"    -> node.tag \in {"int", "float"}
    [] field.type = "duration" -> ReadsAsDuration(node)
    [] OTHER                   -> TRUE

\* A Go any and a map that could not be expanded are written alike.
ShapeAlways(field)   == FALSE
StatesNoShape(field) == field.type = "map" /\ field.open /\ DOMAIN field.children = {}

UnknownTakenStrictly(decoding, field, node) == FALSE
UnknownScalar(decoding, field, node) ==
  /\ node.tag = "str" /\ field.type \in {"int", "float", "bool"}
  /\ decoding = "unknown" /\ MatchesType(field, Quoted(node, field.type))

-----------------------------------------------------------------------------
(* The walk. *)

Silent == [findings |-> {}, skipped |-> {}]
Say(rule, path)     == [Silent EXCEPT !.findings = {<<rule, path>>}]
Skip(path, reason)  == [Silent EXCEPT !.skipped = {<<path, reason>>}]
When(cond, said)    == IF cond THEN said ELSE Silent
All(said) == [findings |-> UNION {s.findings : s \in said}, skipped |-> UNION {s.skipped : s \in said}]

CheckRequired(field, present, path) ==
  All({Say("required-field", Append(path, key)) : key \in field.required \ present})

TakenAsWritten(node) == FALSE
SuppliedLater(node) == node.kind = "scalar" /\ node.expands

\* Whether it is safe to descend, and what was said.
CheckType(decoding, field, node, path) ==
  LET stop(said) == [descend |-> FALSE, said |-> said]
  IN  IF field.type = "" \/ StatesNoShape(field) THEN [descend |-> TRUE, said |-> Silent]
      ELSE IF SuppliedLater(node) THEN stop(Silent)
      ELSE IF UnknownScalar(decoding, field, node) THEN stop(Skip(path, "unknown_decoder"))
      ELSE IF ~MatchesType(field, DecodeScalar(decoding, node, field.type)) THEN stop(Say("invalid-value", path))
      ELSE IF field.enum # NoEnum /\ node.kind = "scalar" /\ node.value \notin field.enum
           THEN stop(Say("invalid-value", path))
      ELSE [descend |-> TRUE, said |-> Silent]

OpenIfSaid(field) == field.open
OpenSchema(field) == field.open \/ (DOMAIN field.children = {} /\ field.type \in {"", "map"})

ItemPath(path, i) == Append(path, ToString(i))

RECURSIVE WalkField(_, _, _, _), WalkMap(_, _, _, _), WalkList(_, _, _, _)
WalkField(decoding, field, node, path) ==
  LET type == CheckType(decoding, field, node, path)
  IN  All({When(OpenSchema(field), Skip(path, "open_schema")),
           IF field = NullField THEN Say("panic", path)
           ELSE IF node.tag = "null" THEN CheckRequired(field, {}, path)
           ELSE IF ~type.descend THEN type.said
           ELSE CASE field.type \in {"map", ""} /\ node.kind = "mapping" -> WalkMap(decoding, field, node, path)
                  [] field.type = "list" /\ node.kind = "sequence" -> WalkList(decoding, field, node, path)
                  [] OTHER -> Silent})

WalkMap(decoding, field, node, path) ==
  LET present == {e.key : e \in ToSet(node.items)}
      Entry(e) ==
        LET at == Append(path, e.key)
        IN  IF e.key \in DOMAIN field.children
            THEN All({When(field.children[e.key].deprecated, Say("deprecated-field", at)),
                      WalkField(decoding, field.children[e.key], e.node, at)})
            ELSE When(~field.open /\ DOMAIN field.children # {}, Say("unknown-field", at))
  IN  All({Entry(e) : e \in ToSet(node.items)} \cup {CheckRequired(field, present, path)})

WalkListSilently(decoding, field, node, path) ==
  IF "item" \notin DOMAIN field.children THEN Silent
  ELSE All({WalkField(decoding, field.children["item"], node.items[i].node, ItemPath(path, i)) :
              i \in DOMAIN node.items})
WalkList(decoding, field, node, path) ==
  IF "item" \notin DOMAIN field.children THEN Skip(path, "missing_schema")
  ELSE All({WalkField(decoding, field.children["item"], node.items[i].node, ItemPath(path, i)) :
              i \in DOMAIN node.items})

\* SchemaReady: a schema with components.  A component without fields is
\* skipped as a whole.
SchemaReady(schema) == DOMAIN schema.components # {}

WalkComponents(schema, file) ==
  LET decoding == ScalarDecoding(schema.target)
      Component(c) ==
        IF c.type \notin DOMAIN schema.components \/ schema.components[c.type] = NoField
        THEN Skip(<<c.type>>, "missing_schema")
        ELSE WalkField(decoding, schema.components[c.type], c.node, <<c.type>>)
  IN  IF ~SchemaReady(schema) THEN Silent
      ELSE All({Component(c) : c \in file.components})

-----------------------------------------------------------------------------
(* Coverage. *)

NoRuntimeValue(node, path, depth) == {}
RECURSIVE RuntimeValues(_, _, _)
RuntimeValues(node, path, depth) ==
  IF depth > MaxSettingsDepth THEN {<<path, "unresolved_structure">>}
  ELSE CASE node.kind = "scalar" -> IF node.expands THEN {<<path, "runtime_value">>} ELSE {}
         [] node.kind = "mapping" ->
              UNION {RuntimeValues(e.node, Append(path, e.key), depth + 1) : e \in ToSet(node.items)}
         [] node.kind = "sequence" ->
              UNION {RuntimeValues(node.items[i].node, ItemPath(path, i), depth + 1) : i \in DOMAIN node.items}

\* The file's root has the sections, which have the components.
FileRuntimeValues(file) ==
  UNION {RuntimeValues(c.node, <<c.type>>, 2) : c \in file.components}
  \cup RuntimeValues(file.service, <<"service">>, 1)

Coverage(rules, schema, file) ==
  LET skipped ==
        (IF SchemaReady(schema) THEN WalkComponents(schema, file).skipped ELSE {<<<<>>, "missing_schema">>})
        \cup (IF SchemaReady(schema) /\ ScalarDecoding(schema.target) = "unknown"
              THEN {<<<<>>, "unknown_decoder">>} ELSE {})
        \cup FileRuntimeValues(file)
  IN  [skipped |-> skipped,
       status  |-> IF ~SchemaReady(schema) \/ rules \cap FieldRuleNames = {} THEN "not_checked"
                   ELSE IF skipped # {} THEN "partial" ELSE "complete"]

\* The configs embedded in one file share its result.
AddLatest(result, coverage, block) ==
  LET named == {<<block, s>> : s \in coverage.skipped}
  IN  IF result = <<>> THEN <<[skipped |-> named, status |-> coverage.status]>>
      ELSE <<[skipped |-> result[1].skipped \cup named, status |-> coverage.status]>>
AddCoverage(result, coverage, block) ==
  LET named == {<<block, s>> : s \in coverage.skipped}
  IN  IF result = <<>> THEN <<[skipped |-> named, status |-> coverage.status]>>
      ELSE <<[skipped |-> result[1].skipped \cup named,
              status  |-> IF coverage.status # "complete" THEN coverage.status ELSE result[1].status]>>

-----------------------------------------------------------------------------
(* The references to extensions in one component's settings. *)

ChildSchema(field, key) == IF key \in DOMAIN field.children THEN field.children[key] ELSE NoField
NeverMarked(field, key) == FALSE
Marked(field, key) == ChildSchema(field, key).ref # NoRole

\* ScalarName: a name worth resolving, as a sequence of one or none.
Recorded(node, path, role) ==
  IF node.kind = "scalar" /\ node.value # "" /\ ~node.expands
  THEN <<[name |-> node.value, path |-> path, role |-> role]>> ELSE <<>>

\* ScalarChild: ChildNode takes the first of the entries with the key.
RecordedChild(node, path, key, role) ==
  LET under == SelectSeq(node.items, LAMBDA e : e.key = key)
  IN  IF node.kind # "mapping" \/ under = <<>> THEN <<>>
      ELSE Recorded(under[1].node, Append(path, key), role)

RECURSIVE RefWalk(_, _, _, _)
RefWalk(field, node, path, depth) ==
  LET Entry(e) ==
        LET child   == ChildSchema(field, e.key)
            at      == Append(path, e.key)
            builtin == {f \in ExtensionFields : f.parent = e.key /\ ~Marked(child, f.key)}
        IN  IF child.ref # NoRole THEN Recorded(e.node, at, child.ref)
            ELSE (IF builtin = {} THEN <<>>
                  ELSE LET f == CHOOSE f \in builtin : TRUE IN RecordedChild(e.node, at, f.key, f.role))
                 \o RefWalk(child, e.node, at, depth + 1)
  IN  IF depth > MaxSettingsDepth THEN <<>>
      ELSE CASE node.kind = "mapping" ->
                  FlattenSeq([i \in DOMAIN node.items |-> Entry(node.items[i])])
             [] node.kind = "sequence" ->
                  FlattenSeq([i \in DOMAIN node.items |->
                    RefWalk(ChildSchema(field, "item"), node.items[i].node, ItemPath(path, i), depth + 1)])
             [] OTHER -> <<>>

\* settingsSchema: NoField for a component the release does not have.
ComponentExtensionRefs(schema, c) == RefWalk(ChildSchema([NoField EXCEPT !.children = schema.components], c.type),
                                             c.node, <<c.type>>, 0)

-----------------------------------------------------------------------------
(* The field rules over the configs embedded in one file, their coverage   *)
(* and the extensions the settings name, asked once and held against what  *)
(* other values, another decoder and less schema would have given.         *)
CheckSettings ==
  /\ Asked("fields")
  /\ LET schema  == [target |-> task.target, components |-> task.text.components]
         covered == FoldLeft(LAMBDA r, i : AddCoverage(r, Coverage(task.rules, schema, task.files[i]), i),
                             <<>>, [i \in DOMAIN task.files |-> i])
     IN  answer' = IF SchemaError(task.text) # "none" THEN [error |-> SchemaError(task.text)]
                   ELSE [error    |-> "none",
                         findings |-> [i \in DOMAIN task.files |-> WalkComponents(schema, task.files[i]).findings],
                         coverage |-> covered[1],
                         refs     |-> [i \in DOMAIN task.files |->
                           UNION {ToSet(ComponentExtensionRefs(schema, c)) : c \in task.files[i].components}],
                         count    |-> [i \in DOMAIN task.files |->
                           FoldSet(LAMBDA c, n : n + Len(ComponentExtensionRefs(schema, c)), 0,
                                   task.files[i].components)]]
  /\ UNCHANGED task

FieldStep == CheckSettings

-----------------------------------------------------------------------------
Schema == [target |-> task.target, components |-> task.text.components]
Linted == Answered("fields") /\ answer.error = "none"

\* Every node with its path.
RECURSIVE NodesOf(_)
NodesOf(node) ==
  {<<<<>>, node>>} \cup
  UNION {{<<<<IF node.kind = "sequence" THEN ToString(i) ELSE node.items[i].key>> \o n[1], n[2]>> :
            n \in NodesOf(node.items[i].node)} : i \in DOMAIN node.items}

RECURSIVE PutNode(_, _, _)
PutNode(node, path, value) ==
  IF path = <<>> THEN value
  ELSE [node EXCEPT !.items = [i \in DOMAIN @ |->
          IF Head(path) = (IF node.kind = "sequence" THEN ToString(i) ELSE node.items[i].key)
          THEN [@[i] EXCEPT !.node = PutNode(@, Tail(path), value)] ELSE @[i]]]

RECURSIVE FieldPaths(_)
FieldPaths(field) ==
  {<<>>} \cup UNION {{<<k>> \o p : p \in FieldPaths(field.children[k])} : k \in DOMAIN field.children}

RECURSIVE PutField(_, _, _)
PutField(field, path, value) ==
  IF path = <<>> THEN [value EXCEPT !.deprecated = field.deprecated, !.ref = field.ref]
  ELSE [field EXCEPT !.children[Head(path)] = PutField(@, Tail(path), value)]

\* What the findings of block i would be with one value of it replaced.
Replaced(i, c, path, value) ==
  WalkComponents(Schema, [task.files[i] EXCEPT
    !.components = (@ \ {c}) \cup {[c EXCEPT !.node = PutNode(@, path, value)]}]).findings

\* "Complete" is a promise: of every value written in any of the configs, no
\* part is left to a provider, and some other value in its place would have
\* drawn a finding there or above it.  A schema with a hole, a decoder nobody
\* knows and a structure too deep to look into take the promise back
\* (coverage, addCoverage).
CoverageIsHonest ==
  Linted /\ answer.coverage.status = "complete" =>
    \A i \in DOMAIN task.files :
      /\ \A n \in NodesOf(task.files[i].service) : ~SuppliedLater(n[2])
      /\ task.rules = FieldRuleNames =>
         \A c \in task.files[i].components : \A n \in NodesOf(c.node) :
           /\ ~(n[2].kind = "scalar" /\ n[2].expands)
           /\ \E v \in Values : \E f \in Replaced(i, c, n[1], v) : IsPrefix(f[2], <<c.type>> \o n[1])

\* A finding holds whatever a provider supplies in place of an expansion.
HoldsWhateverIsSupplied ==
  Linted =>
    \A i \in DOMAIN task.files : \A c \in task.files[i].components : \A n \in NodesOf(c.node), v \in Values :
      n[2].kind = "scalar" /\ n[2].expands => answer.findings[i] \subseteq Replaced(i, c, n[1], v)

\* "partial schema coverage never produces a false positive": saying less of
\* any field takes findings away and adds none (WalkComponents, statesNoShape).
HoldsWithMoreSchema ==
  Linted =>
    \A type \in DOMAIN Schema.components, hole \in Holes, i \in DOMAIN task.files :
      \A path \in FieldPaths(Schema.components[type]) :
        WalkComponents([Schema EXCEPT !.components[type] = PutField(@, path, hole)], task.files[i]).findings
          \subseteq answer.findings[i]

\* Where the decoder is not known, what is reported would be by any.
HoldsForEveryDecoder ==
  Linted /\ ScalarDecoding(task.target) = "unknown" =>
    \A target \in DecodingTargets, i \in DOMAIN task.files :
      answer.findings[i] \subseteq WalkComponents([Schema EXCEPT !.target = target], task.files[i]).findings

\* A schema that was read is one the walk can follow to the end.
NothingPanics == Linted => \A i \in DOMAIN task.files : \A f \in answer.findings[i] : f[1] # "panic"

\* A finding about a setting is one the collector would agree with.
FieldFindingsHold ==
  /\ HoldsWhateverIsSupplied
  /\ HoldsWithMoreSchema
  /\ HoldsForEveryDecoder
  /\ NothingPanics

\* The fields marked in the schema with the nodes written for them.
RECURSIVE MarkedNodes(_, _)
MarkedNodes(field, node) ==
  UNION {LET child == ChildSchema(field, IF node.kind = "sequence" THEN "item" ELSE node.items[i].key)
             step  == <<IF node.kind = "sequence" THEN ToString(i) ELSE node.items[i].key>>
         IN  (IF child.ref # NoRole THEN {<<step, node.items[i].node>>} ELSE {})
             \cup {<<step \o m[1], m[2]>> : m \in MarkedNodes(child, node.items[i].node)} :
         i \in DOMAIN node.items}

\* Every setting that names an extension is found once: what the schema marks,
\* and what the built-in list would have found without one, unless it stands in
\* a value reported to be of the wrong type.  A schema that marks more never
\* loses a name, and a name with both is not reported twice (walkMap, "taking both would report the same name twice").
NamedOnce ==
  Linted =>
    \A i \in DOMAIN task.files :
      LET paths == {r.path : r \in answer.refs[i]}
      IN  /\ answer.count[i] = Cardinality(paths)
          /\ \A c \in task.files[i].components :
               /\ \A r \in ToSet(RefWalk(NoField, c.node, <<c.type>>, 0)) :
                    \/ r.path \in paths
                    \/ \E f \in answer.findings[i] : f[1] = "invalid-value" /\ IsPrefix(f[2], r.path)
               /\ \A m \in MarkedNodes(ChildSchema([NoField EXCEPT !.children = Schema.components], c.type), c.node) :
                    /\ m[2].kind = "scalar" /\ ~m[2].expands /\ m[2].value # ""
                    /\ Len(m[1]) <= MaxSettingsDepth
                    => <<c.type>> \o m[1] \in paths

\* What is said of the settings of a run's configs is so: the findings, the
\* extensions named, and how much of them was looked at.
FieldsAreJudgedRight == FieldFindingsHold /\ NamedOnce /\ CoverageIsHonest
=============================================================================
