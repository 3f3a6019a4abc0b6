----------------------------- MODULE MCHarvest ------------------------------
(* The field tasks for TLC: one component's schema and settings; the      *)
(* harvest tasks: a Config, two structs it may be made of, and what       *)
(* upstream publishes of them; and the inventory tasks.                   *)
EXTENDS Inventory

MCExtensionFields == {[parent |-> "auth", key |-> "authenticator", role |-> "auth"]}
MCFieldRuleNames  == {"unknown-field", "required-field", "invalid-value", "deprecated-field"}

Release(n)      == [release |-> n, distribution |-> "core", decoder |-> <<>>]
Custom(decoder) == [release |-> 130, distribution |-> "acme", decoder |-> decoder]
Confmap(n, modified, incomplete) == <<[release |-> n, modified |-> modified, incomplete |-> incomplete]>>
MCDecodingTargets ==
  {Release(104), Release(105), Release(0), Custom(<<>>), Custom(Confmap(105, FALSE, FALSE)),
   Custom(Confmap(90, FALSE, FALSE)), Custom(Confmap(105, TRUE, FALSE)), Custom(Confmap(90, FALSE, TRUE))}

-----------------------------------------------------------------------------
(* Nodes. *)

Scalar(tag, value, reads) ==
  [kind |-> "scalar", tag |-> tag, value |-> value, reads |-> reads, expands |-> FALSE, items |-> <<>>]
Word     == Scalar("str", "x", {})
Storing  == Scalar("str", "file_storage", {})
Digits   == Scalar("str", "1", {"int", "float", "bool"})
Blank    == Scalar("str", "", {"int", "float", "bool"})
Whole    == Scalar("int", "1", {"int", "float"})
Huge     == Scalar("float", "1e30", {"float"})
Truth    == Scalar("bool", "true", {"bool"})
Null     == Scalar("null", "", {})
Seconds  == Scalar("str", "5s", {"duration"})
Later2   == [Scalar("str", "${env:X}", {}) EXCEPT !.expands = TRUE]
Scalars  == {Word, Storing, Digits, Blank, Whole, Huge, Truth, Null, Seconds, Later2}

MapOf(items)  == [Scalar("map", "", {}) EXCEPT !.kind = "mapping", !.items = items]
Key(k, node)  == [key |-> k, node |-> node]
ListOf(nodes) == [Scalar("seq", "", {}) EXCEPT !.kind = "sequence",
                                               !.items = [i \in DOMAIN nodes |-> Key("", nodes[i])]]

MCValues == {Word, Digits, Whole, Truth, MapOf(<<>>), MapOf(<<Key("zz", Word)>>), ListOf(<<Word>>)}

Written2 ==
  Scalars \cup {MapOf(<<>>), ListOf(<<>>)}
  \cup {MapOf(<<Key("a", v)>>) : v \in Scalars \cup {MapOf(<<Key("a", Later2)>>)}}
  \cup {MapOf(<<Key("z", Word)>>), MapOf(<<Key("a", Word), Key("z", Later2)>>),
        MapOf(<<Key("authenticator", Storing), Key("a", Whole)>>), MapOf(<<Key("authenticator", Later2)>>)}
  \cup {ListOf(<<v, w>>) : v, w \in {Word, Digits, Whole, Later2, MapOf(<<Key("auth", MapOf(<<Key("authenticator", Storing)>>))>>)}}

-----------------------------------------------------------------------------
(* Schemas. *)

Typed(type)    == [NoField EXCEPT !.type = type, !.open = FALSE]
MapWith(children) == [Typed("map") EXCEPT !.children = children]
ListWith(item) == [Typed("list") EXCEPT !.children = [item |-> item]]
Naming         == [Typed("string") EXCEPT !.ref = "auth"]
AnyValue            == Typed("")
Unexpanded     == [Typed("map") EXCEPT !.open = TRUE]
MCHoles        == {AnyValue, Unexpanded}

Leaves == {Typed(t) : t \in {"string", "int", "float", "bool", "duration"}}
          \cup {[Typed("string") EXCEPT !.enum = {"x"}], [Typed("int") EXCEPT !.enum = {"1"}]}
Shapes ==
  Leaves \cup MCHoles \cup
  {Typed("map"), Typed("list"), [Typed("string") EXCEPT !.deprecated = TRUE], Naming, ListWith(Typed("int")),
   ListWith(MapWith([auth |-> MapWith([authenticator |-> Naming])])), ListWith(MapWith([a |-> Typed("int")])),
   MapWith([a |-> Typed("int")]), [MapWith([a |-> Typed("string"), b |-> AnyValue]) EXCEPT !.open = TRUE],
   [MapWith([a |-> Typed("bool")]) EXCEPT !.required = {"a"}], [Unexpanded EXCEPT !.required = {"a"}],
   [MapWith([a |-> [Typed("string") EXCEPT !.deprecated = TRUE], z |-> Typed("string")]) EXCEPT !.required = {"a", "z"}],
   MapWith([a |-> MapWith([a |-> Typed("string")])]),
   MapWith([authenticator |-> Naming, a |-> Typed("int")]), MapWith([a |-> NullField])}

FieldTexts ==
  {[documents |-> 1, components |-> [c |-> [MapWith(k :> s) EXCEPT !.required = r]]] :
     k \in {"k", "auth"}, s \in Shapes, r \in {{}, {"k"}}}
  \cup {[documents |-> 1, components |-> cs] : cs \in {<<>>, [c |-> NoField], [d |-> AnyValue], [c |-> NullField]}}
  \cup {[documents |-> n, components |-> [c |-> AnyValue]] : n \in {0, 2}}

Settings1(key, node) == [components |-> {[type |-> "c", node |-> MapOf(<<Key(key, node)>>)]}, service |-> MapOf(<<>>)]
Plain == Settings1("k", Word)

FieldTasks ==
  [of : {"fields"}, target : {Release(104), Release(105), Custom(<<>>)}, rules : {MCFieldRuleNames}, text : FieldTexts,
   files : {<<Settings1(k, v)>> : k \in {"k", "auth"}, v \in Written2}]
  \cup
  [of : {"fields"}, target : MCDecodingTargets, rules : {MCFieldRuleNames, {"deprecated-field"}, {}},
   text : {t \in FieldTexts : DOMAIN t.components # {} /\ t.documents = 1},
   files : {<<Plain>>, <<Settings1("k", Digits)>>, <<[Plain EXCEPT !.service = Later2]>>,
            <<[Plain EXCEPT !.components = {}]>>, <<[Plain EXCEPT !.components = {[type |-> "c", node |-> Null]}]>>,
            <<Plain, Settings1("k", Later2)>>, <<Settings1("k", Later2), Plain>>}]

-----------------------------------------------------------------------------
(* Samples of what a field takes. *)

Sample(kind, tag, value) == [kind |-> kind, tag |-> tag, value |-> value, reads |-> {}, expands |-> FALSE, items |-> <<>>]
MCSampleOf ==
  [string |-> Sample("scalar", "str", "x"), int |-> Sample("scalar", "int", "1"), bool |-> Sample("scalar", "bool", "true"),
   duration |-> [Sample("scalar", "str", "5s") EXCEPT !.reads = {"duration"}],
   map |-> Sample("mapping", "map", ""), list |-> Sample("sequence", "seq", "")]

-----------------------------------------------------------------------------
(* Sources. *)

Expr(form, of) == [form |-> form, of |-> of, elt |-> <<>>]
Basic(kind) == Expr("basic", kind)
NamedType(name) == Expr("named", name)
ListType(elt) == [Expr("list", "") EXCEPT !.elt = <<elt>>]

FieldAs(as, key, type) == [as |-> as, key |-> key, type |-> type, bookkeeping |-> FALSE]
Tagged(key, type) == FieldAs("key", key, type)
Squash(name)      == FieldAs("squash", "", NamedType(name))
Unfilled          == FieldAs("none", "", Expr("other", ""))
Bookkeeping       == [Unfilled EXCEPT !.bookkeeping = TRUE]

Decl(struct, fields, under, textual, decodes) ==
  [struct |-> struct, fields |-> fields, under |-> under, textual |-> textual, decodes |-> decodes]
Struct(fields, decodes) == Decl(TRUE, fields, Expr("other", ""), FALSE, decodes)
Defined(under)          == Decl(FALSE, <<>>, under, FALSE, FALSE)
TextualType             == Decl(FALSE, <<>>, Basic("int"), TRUE, FALSE)

Fixed == [Level |-> TextualType, ID |-> [TextualType EXCEPT !.under = Expr("other", "")],
          Alias |-> Defined(NamedType("A")), Wait |-> Defined(Expr("duration", "")),
          Labels |-> Defined(Expr("map", "")), Chain |-> Defined(NamedType("Alias")),
          Vendored |-> Defined(NamedType("Foreign"))]

FieldTypes == {Basic("string"), Expr("duration", ""), Expr("map", ""), Expr("any", ""), NamedType("A"), NamedType("Alias"),
               NamedType("Chain"), NamedType("Wait"), NamedType("Labels"), NamedType("Level"), NamedType("ID"), NamedType("Foreign"),
               NamedType("Vendored"), ListType(NamedType("A")), ListType(NamedType("Foreign"))}

Configs ==
  {Struct(<<Tagged("k", t)>> \o more, d) : t \in FieldTypes, d \in BOOLEAN,
     more \in {<<>>, <<Unfilled>>, <<Bookkeeping>>, <<Squash("A")>>, <<Squash("A"), Tagged("a", Basic("int"))>>}}
  \cup {Struct(<<Squash("A")>>, FALSE), Defined(NamedType("A")), Struct(<<Squash("Foreign"), Tagged("k", Basic("int"))>>, FALSE)}
As == {Struct(<<Tagged("a", t)>>, FALSE) : t \in {Basic("string"), NamedType("B"), NamedType("A"), NamedType(ConfigType)}}
      \cup {Struct(<<Tagged("a", Basic("string")), Unfilled>>, TRUE), Struct(<<Squash("B")>>, FALSE), Struct(<<>>, FALSE)}
Bs == {Struct(<<Tagged("b", t)>>, FALSE) : t \in {Basic("int"), ListType(NamedType("A")), NamedType("Chain")}}
      \cup {Struct(<<Tagged("b", Basic("int")), Unfilled>>, TRUE)}

Worlds == {Fixed @@ (ConfigType :> c) @@ [A |-> a, B |-> b] : c \in Configs, a \in As, b \in Bs}
          \cup {Fixed @@ (ConfigType :> Struct(<<Tagged("k", NamedType("Verbosity"))>>, FALSE))
                @@ [Verbosity |-> Defined(NamedType("Level")), A |-> Struct(<<>>, FALSE), B |-> Struct(<<>>, FALSE)]}

-----------------------------------------------------------------------------
NotPublished == [spelling |-> "none", upstream |-> FALSE, whole |-> FALSE]
How(spelling, upstream, whole) == [spelling |-> spelling, upstream |-> upstream, whole |-> whole]

Spellings3 == {"relative", "rooted", "module"}
HarvestTasks ==
  [of : {"harvest"}, types : Worlds, sources : {TRUE}, file : {"c"},
   how : {NotPublished} \cup {How(s, up, whole) : s \in Spellings3, up, whole \in BOOLEAN}]
  \cup [of : {"harvest"}, types : Worlds, sources : {FALSE}, file : {"c"}, how : {How(s, TRUE, TRUE) : s \in Spellings3}]

-----------------------------------------------------------------------------
(* Manifests, module lists and directories. *)
Core    == <<"otel", "collector">>
Contrib == <<"github", "otel", "contrib">>
Acme    == <<"github", "acme", "repo">>
MCKindOrder == <<"receiver", "processor">>
MCRepositoryRoots == <<Core, Contrib>>
MCDecoderModules  == <<Append(Core, "confmap"), <<"github", "old", "mapstructure">>, <<"github", "new", "mapstructure">>>>
Spells(name, kind) == [name |-> name, kind |-> kind]
MCElementOf == [foorecv |-> Spells("foo", "receiver"), barrecv |-> Spells("bar", "receiver"), x |-> Spells("x", "none"),
                batchproc |-> Spells("batch", "processor")]

V(n) == [line |-> 0, n |-> n]
V1   == [line |-> 1, n |-> 30]
Wrong == [line |-> -2, n |-> 0]

Foo == Append(Acme, "foorecv")   Bar == Append(Contrib, "barrecv")   Batcher == Append(Core, "batchproc")
Deep == Append(Foo, "x")         Shared == Append(Acme, "x")         Sdk == <<"github", "aws", "sdk">>

Entry(module, version, name) == [splits |-> TRUE, module |-> module, version |-> version, name |-> name]
Unsplit == [splits |-> FALSE, module |-> <<>>, version |-> NoPin, name |-> NoWord]

Manifest(receivers, processors) ==
  [name |-> "dist", version |-> V(149), otelcol |-> NoPin, output |-> "relative",
   entries |-> [receiver |-> receivers, processor |-> processors]]

Meta(type, alias, parent) == [type |-> type, alias |-> alias, parent |-> parent, signals |-> {"traces"}, pairs |-> {}]
FileIn(dir, what, meta) == [dir |-> dir, what |-> what, meta |-> meta, limited |-> TRUE]
Says(meta)    == FileIn(<<>>, "metadata", meta)
Source(dir)   == FileIn(dir, "go", NoMeta)
Module(path, files) ==
  [path |-> path, main |-> FALSE, error |-> FALSE, onDisk |-> TRUE, version |-> V(150), replace |-> <<>>, files |-> files]
MainModule == [Module(<<"schemagen">>, {}) EXCEPT !.main = TRUE]
Listing(modules) == [modules |-> <<MainModule>> \o modules, failed |-> FALSE, cutShort |-> FALSE]

Tidy == <<Module(Foo, {Source(<<>>)}), Module(Bar, {}), Module(Batcher, {Says(Meta("batch", NoWord, NoWord))})>>
NotGenerated == [at |-> "nowhere", list |-> Listing(<<>>)]

Task(man, override, text, list, own) ==
  [of : {"inventory"}, man : man, override : override, text : text, list : list, own : own]

\* What a manifest may say.
ManifestTasks ==
  Task({[Manifest(<<Entry(Foo, V(1), NoWord)>>, p) EXCEPT !.name = n, !.version = v, !.otelcol = o] :
          p \in {<<>>, <<Entry(Batcher, V(150), NoWord)>>}, n \in {NoWord, "dist", "a/b"},
          v \in {NoPin, V(149), Wrong}, o \in {NoPin, V(151), Wrong}},
       {NoWord, "core", "a/b"}, {"yaml", "read", "decode"}, {Listing(Tidy)}, {NotGenerated})

\* What the release is: which pins are the commonest.
CoreEntries == {Entry(Append(Core, e), v, NoWord) : e \in {"batchproc", "x"}, v \in {V(149), V(150), V1}}
PinTasks ==
  Task({[Manifest(r, p) EXCEPT !.version = v] :
          r \in {<<>>, <<Entry(Bar, V(151), NoWord)>>, <<Unsplit>>}, v \in {NoPin, V(148)},
          p \in {<<a, b, c>> : a, b, c \in CoreEntries} \cup {<<a>> : a \in CoreEntries} \cup {<<>>}},
       {NoWord}, {"yaml"}, {Listing(Tidy \o <<Module(Append(Core, "x"), {Says(Meta("x", NoWord, NoWord))})>>)}, {NotGenerated})

\* What is declared, and what the modules say of themselves.
FooFiles ==
  {{}, {Says(Meta("foo", NoWord, NoWord)), Source(<<"internal">>)}, {Says(Meta("fresh", "foo", NoWord))}, {Says(Meta("foo", NoWord, "bar"))},
   {[Says(Meta("fresh", NoWord, NoWord)) EXCEPT !.limited = FALSE]}, {FileIn(<<"cmd">>, "metadata", Meta("sample", NoWord, NoWord))},
   {FileIn(<<"x">>, "metadata", Meta("nested", NoWord, NoWord)), Source(<<"testdata">>), Source(<<"x">>)}}
DeclareTasks ==
  Task({Manifest(r, p) :
          r \in {<<Entry(Foo, V(1), n)>> \o more : n \in {NoWord, "named"},
                   more \in {<<>>, <<Unsplit>>, <<Entry(Bar, V(150), NoWord)>>, <<Entry(Foo, V(1), NoWord)>>, <<Entry(Deep, V(1), NoWord)>>}},
          p \in {<<>>, <<Entry(Foo, V(1), NoWord)>>}},
       {NoWord}, {"yaml"},
       {[Listing(<<Module(Foo, f), [Module(Bar, b) EXCEPT !.error = e, !.onDisk = d], Module(Deep, {Says(Meta("deep", NoWord, NoWord))} \cap x),
                   Module(Shared, {Source(<<>>), Source(<<"internal", "a">>)}), Module(Sdk, {Source(<<>>)})>>)
           EXCEPT !.failed = failed, !.cutShort = cut] :
          f \in FooFiles, b \in {{}, {Says(Meta("bar", "oldbar", NoWord)), FileIn(<<"a">>, "schema", NoMeta)}},
          <<e, d>> \in {<<FALSE, TRUE>>, <<TRUE, TRUE>>, <<FALSE, FALSE>>},
          x \in {{}, {Says(Meta("deep", NoWord, NoWord))}}, <<failed, cut>> \in {<<FALSE, FALSE>>, <<TRUE, FALSE>>, <<FALSE, TRUE>>}},
       {NotGenerated})
  \cup Task({Manifest(<<Entry(Foo, V(1), NoWord)>>, <<>>)}, {NoWord}, {"yaml"},
            {[Listing(<<>>) EXCEPT !.failed = f, !.modules = m] : f \in BOOLEAN, m \in {<<>>, <<MainModule>>}}, {NotGenerated})

\* What the collector decodes with.
With(path, replace) == [Module(path, {}) EXCEPT !.replace = replace, !.version = V1]
Replacing(path) == {<<>>, <<[path |-> path, version |-> V1]>>, <<[path |-> path, version |-> NoPin]>>, <<[path |-> Sdk, version |-> V1]>>}
Decoding ==
  {<<>>} \cup {<<With(MCDecoderModules[1], r)>> \o s :
     r \in Replacing(MCDecoderModules[1]), s \in {<<>>} \cup {<<With(MCDecoderModules[3], q)>> : q \in Replacing(MCDecoderModules[3])}}
Graphs == {[Listing(d \o more) EXCEPT !.failed = f[1], !.cutShort = f[2]] :
             d \in Decoding, more \in {<<>>, <<Module(Sdk, {})>>, <<[Module(Sdk, {}) EXCEPT !.error = TRUE]>>},
             f \in {<<FALSE, FALSE>>, <<TRUE, FALSE>>, <<FALSE, TRUE>>}}
DecoderTasks ==
  Task({[Manifest(<<>>, <<Entry(Batcher, V(150), NoWord)>>) EXCEPT !.output = o] : o \in {"none", "relative", "absolute"}},
       {NoWord}, {"yaml"},
       {Listing(<<Module(Batcher, {})>>), Listing(<<Module(Batcher, {}), With(MCDecoderModules[1], <<>>)>>)},
       [at : {"nowhere", "manifest", "output", "output under manifest"}, list : Graphs])

-----------------------------------------------------------------------------
(* Harvesting where nothing is published beside the sources. *)
SquashedInit == answer = Unasked /\ task \in {t \in HarvestTasks : t.how = NotPublished}

SquashedSpec == SquashedInit /\ [][HarvestStep]_asking
=============================================================================
