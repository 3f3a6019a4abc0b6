------------------------------ MODULE Harvest -------------------------------
(***************************************************************************)
(* Where schemagen takes a component's field schema from, as operators:    *)
(* the Go sources (gosource.go) and the config schema upstream publishes   *)
(* beside them (fields.go), and how the second is folded into the first.   *)
(*                                                                         *)
(* The sources are a function from type names to declarations: a struct    *)
(* with its fields, or a type under another name.  Names are resolved to   *)
(* their package and the wrappers that change nothing are off (resolve,    *)
(* unwrap).  A published schema is a document whose parts refer to         *)
(* definitions of any file in up to four spellings.                        *)
(***************************************************************************)
EXTENDS Fields

CONSTANTS
  MaxFieldDepth, \* the backstop of both expansions
  MaxAliasHops,  \* how far a chain of type names is followed
  ComponentID,   \* the type of a setting that names an extension
  SampleDepth,   \* how deep the settings that are tried go
  SampleOf       \* SampleOf[kind]: a value of a basic kind, of text, of any type

Sized(type, open, children) ==
  [NoField EXCEPT !.type = type, !.open = open, !.children = children]

\* mergeChildren and merge: a name that is taken stays as it is.
Spliced(into, from) == [key \in DOMAIN into \cup DOMAIN from |->
                          IF key \in DOMAIN into THEN into[key] ELSE from[key]]

-----------------------------------------------------------------------------
(* The Go sources. *)

NoType == "no type"
Resolve(expr) == IF expr.form = "named" THEN expr.of ELSE NoType

\* derefKey: the declaration a chain ends on, as a sequence of one or none,
\* and its key.  A chain that leaves the sources ends on the last name in them.
RECURSIVE Deref(_, _, _)
Deref(types, key, hops) ==
  LET next == Resolve(types[key].under)
  IN  IF hops = 0 \/ key \notin DOMAIN types THEN [decl |-> <<>>, key |-> key]
      ELSE IF types[key].struct \/ next = key \/ next \notin DOMAIN types
           THEN [decl |-> <<types[key]>>, key |-> key]
      ELSE Deref(types, next, hops - 1)

\* A type that decodes itself from text is written as text.
NeverTextual(types, key) == FALSE
Textual(types, key) == key \in DOMAIN types /\ types[key].textual

KindOf(expr) ==
  CASE expr.form = "duration" -> "duration" [] expr.form = "basic" -> expr.of [] OTHER -> ""

\* scalar: a name that leads to no declaration, or to a struct, is a map.
ScalarOf(types, expr) ==
  LET d == Deref(types, Resolve(expr), MaxAliasHops)
  IN  IF expr.form # "named" THEN KindOf(expr)
      ELSE IF Textual(types, expr.of) THEN "string"
      ELSE IF d.decl # <<>> /\ ~d.decl[1].struct THEN KindOf(d.decl[1].under)
      ELSE "map"

ExtensionRole(key) ==
  CASE key = "storage" -> "storage" [] key = "authenticator" -> "auth" [] OTHER -> "extension"

MergeKeysOnly(into, from) == [into EXCEPT !.children = Spliced(@, from.children)]
MergeChildren(into, from) ==
  [into EXCEPT !.open = @ \/ from.open, !.children = Spliced(@, from.children)]

\* Whether what the tags name is not all a struct accepts: it decodes itself
\* and has a field its tags do not fill, but for the two of the HTTP configs
\* that hold no settings.
ClosedByTags(decl) == FALSE
PartlyResolved(decl) ==
  decl.decodes /\ \E i \in DOMAIN decl.fields : decl.fields[i].as = "none" /\ ~decl.fields[i].bookkeeping

RECURSIVE GoFields(_, _, _, _), GoField(_, _, _, _)

\* A type that cannot be resolved becomes an open map.
UnresolvedClosed == Sized("map", FALSE, <<>>)
Unresolved == Sized("map", TRUE, <<>>)

\* field.
GoField(types, expr, seen, depth) ==
  CASE expr.form = "list" -> Sized("list", FALSE, [item |-> GoField(types, expr.elt[1], seen, depth + 1)])
    [] expr.form = "map"  -> Sized("map", TRUE, <<>>)
    [] expr.form = "any"  -> Sized("", FALSE, <<>>)
    [] OTHER ->
         LET type   == ScalarOf(types, expr)
             nested == GoFields(types, Resolve(expr), seen, depth + 1)
         IN  IF type # "map" THEN Sized(type, FALSE, <<>>)
             ELSE IF nested = NoField THEN Unresolved
             ELSE Sized("map", nested.open, nested.children)

\* A squashed field gives its own keys, none if it cannot be resolved.
AddStructField(types, out, f, seen, depth) ==
  LET nested == GoFields(types, Resolve(f.type), seen, depth + 1)
      child  == GoField(types, f.type, seen, depth)
  IN  CASE f.as = "none"   -> out
        [] f.as = "squash" -> IF nested = NoField THEN out ELSE MergeChildren(out, nested)
        [] f.as = "key"    ->
             [out EXCEPT !.children =
                [k \in DOMAIN @ \cup {f.key} |->
                   IF k # f.key THEN @[k]
                   ELSE [child EXCEPT !.ref = IF Resolve(f.type) = ComponentID THEN ExtensionRole(f.key) ELSE @]]]

\* fields: NoField for what is being expanded already, is no struct or names
\* no settings.
GoFields(types, key, seen, depth) ==
  LET d   == Deref(types, key, MaxAliasHops)
      out == FoldLeft(LAMBDA o, f : AddStructField(types, o, f, seen \cup {key}, depth),
                      Sized("map", FALSE, <<>>), d.decl[1].fields)
  IN  IF \/ depth > MaxFieldDepth \/ key \in seen
         \/ d.decl = <<>> \/ ~d.decl[1].struct \/ DOMAIN out.children = {}
      THEN NoField
      ELSE [out EXCEPT !.open = @ \/ PartlyResolved(d.decl[1])]

-----------------------------------------------------------------------------
(* The published schemas. *)

\* A place is a file in one of the ways to spell it: under its module, from
\* the root of its repository, or that without the slash in front.  Only the
\* upstream repositories spell from their root (repositoryPath, add, def).
NoDoc == [absent |-> TRUE]
Place(spelling, file) == [spelling |-> spelling, file |-> file]

DefByModule(set, place, name) ==
  IF /\ place.spelling = "module" /\ place.file \in DOMAIN set /\ name \in DOMAIN set[place.file].defs
  THEN set[place.file].defs[name] ELSE NoDoc
Def(set, place, name) ==
  IF /\ place.file \in DOMAIN set /\ (place.spelling = "module" \/ set[place.file].upstream)
     /\ name \in DOMAIN set[place.file].defs
  THEN set[place.file].defs[name] ELSE NoDoc

\* refKey and lookup: where a reference leads, spelled as it is; refDir: where
\* those inside what it leads to start from.
RefPlace(ref, dir) ==
  CASE ref.form = "local"    -> dir
    [] ref.form = "relative" -> [dir EXCEPT !.file = ref.file]
    [] ref.form = "rooted"   -> Place("rooted", ref.file)
    [] ref.form = "module"   -> Place("module", ref.file)
RefDir(ref, dir) == IF ref.form = "rooted" THEN Place("bare", ref.file) ELSE RefPlace(ref, dir)

FieldType(doc) == doc.type   \* in the names of the linter's types

\* merge: the schema that refers wins.
MergeField(into, from) ==
  IF from = NoField THEN into
  ELSE [into EXCEPT !.type = IF @ = "" THEN from.type ELSE @,
                    !.enum = IF @ = NoEnum THEN from.enum ELSE @,
                    !.ref  = IF @ = NoRole THEN from.ref ELSE @,
                    !.open = @ \/ from.open,
                    !.children = Spliced(@, from.children)]

\* settleShape: an object with no keys says nothing, unless it says that any
\* key goes.
ShapeAsTyped(out, doc) == [out EXCEPT !.open = @ \/ doc.additional]
SettleShape(out, doc) ==
  LET type == IF DOMAIN out.children # {} /\ out.type = "" THEN "map" ELSE out.type
      bare == type = "map" /\ DOMAIN out.children = {}
  IN  [out EXCEPT !.open = @ \/ doc.additional \/ bare,
                  !.type = IF bare /\ ~doc.additional THEN "" ELSE type]

RECURSIVE Expand(_, _, _, _, _)
Expand(set, doc, dir, seen, depth) ==
  LET out  == [Sized(FieldType(doc), FALSE, <<>>) EXCEPT !.enum = doc.enum]
      ref  == doc.ref[1]
      key  == <<RefPlace(ref, dir), ref.name>>
      Into(part) == Expand(set, part, dir, seen, depth + 1)
      composed == FoldLeft(LAMBDA o, one : MergeField(o, Into(one)), out, doc.allOf)
      listed   == IF doc.items = <<>> THEN composed
                  ELSE [composed EXCEPT !.type = "list", !.children = [item |-> Into(doc.items[1])]]
      named    == {k \in DOMAIN doc.properties : Into(doc.properties[k]) # NoField}
  IN  IF doc = NoDoc \/ depth > MaxFieldDepth THEN NoField
      ELSE IF doc.ref # <<>> THEN
        IF key \in seen THEN [out EXCEPT !.type = "map", !.open = TRUE]
        ELSE MergeField(out, Expand(set, Def(set, RefPlace(ref, dir), ref.name), RefDir(ref, dir),
                                    seen \cup {key}, depth + 1))
      ELSE SettleShape(
             [listed EXCEPT !.children = [k \in DOMAIN @ \cup named |->
                IF k \in named THEN Into(doc.properties[k]) ELSE @[k]]], doc)

-----------------------------------------------------------------------------
(* The two together. *)

\* settleOpenness: the published schema closes what the sources left open only
\* where it knows a key they do not.
CloseIfPublished(primary, secondary) == secondary.open
SettleOpenness(primary, secondary) ==
  \/ secondary.open
  \/ /\ primary.open
     /\ DOMAIN secondary.children \subseteq DOMAIN primary.children

RECURSIVE Enrich(_, _)
EnrichReplacing(primary, secondary) ==
  [primary EXCEPT !.open = SettleOpenness(primary, secondary),
                  !.children = Spliced(secondary.children, @)]
Enrich(primary, secondary) ==
  LET both == DOMAIN primary.children \cap DOMAIN secondary.children
  IN  [primary EXCEPT
         !.enum     = IF @ = NoEnum THEN secondary.enum ELSE @,
         !.ref      = IF @ = NoRole THEN secondary.ref ELSE @,
         !.open     = SettleOpenness(primary, secondary),
         !.children = [k \in DOMAIN Spliced(@, secondary.children) |->
                         IF k \in both THEN Enrich(@[k], secondary.children[k])
                         ELSE Spliced(@, secondary.children)[k]]]

\* attachSourceFields, then attachFields, of the component whose module is the
\* file and whose settings are its Config.
ConfigType == "Config"
AttachSourceFields(types) == GoFields(types, ConfigType, {}, 0)
AttachFields(fields, set, file) ==
  LET f == Expand(set, set[file].root, Place("module", file), {}, 0)
  IN  IF file \notin DOMAIN set \/ f = NoField \/ DOMAIN f.children = {} THEN fields
      ELSE IF fields = NoField THEN f
      ELSE Enrich(fields, f)

HarvestFields(types, set, file) == AttachFields(AttachSourceFields(types), set, file)

-----------------------------------------------------------------------------
(* The harvest of one component, held against the collector built from the *)
(* same sources: the settings it accepts are written down from the types   *)
(* alone, and every one is walked against the schema that was made.        *)
\* The declaration behind a name, however long the chain.
RECURSIVE Behind(_, _)
Behind(types, expr) ==
  IF expr.form = "named" /\ expr.of \in DOMAIN types /\ ~types[expr.of].struct /\ ~types[expr.of].textual
  THEN Behind(types, types[expr.of].under) ELSE expr

HandRead(decl) == decl.decodes /\ \E i \in DOMAIN decl.fields : decl.fields[i].as = "none" /\ ~decl.fields[i].bookkeeping

-----------------------------------------------------------------------------
(* What upstream publishes of the same types, in two files: how the struct  *)
(* another one names is referred to, whether the files are of an upstream    *)
(* repository, and whether it states what is read by hand as well.          *)

Object == [ref |-> <<>>, type |-> "map", enum |-> NoEnum, properties |-> <<>>, items |-> <<>>, allOf |-> <<>>,
           additional |-> FALSE]
OfType(type) == [Object EXCEPT !.type = type]
HomeOf == [Config |-> "c", A |-> "a", B |-> "a"]
RefTo(name, from, spelling) ==
  [OfType("") EXCEPT !.ref = <<[name |-> name, file |-> IF name \in DOMAIN HomeOf THEN HomeOf[name] ELSE "nowhere",
                                form |-> IF name \in DOMAIN HomeOf /\ HomeOf[name] = from THEN "local" ELSE spelling]>>]

RECURSIVE DocOf(_, _, _, _)
DocOf(types, expr, from, spelling) ==
  LET t == Behind(types, expr)
  IN  CASE t.form \in {"basic", "duration"} -> OfType(KindOf(t))
        [] t.form = "list"  -> [OfType("list") EXCEPT !.items = <<DocOf(types, t.elt[1], from, spelling)>>]
        [] t.form = "map"   -> [Object EXCEPT !.additional = TRUE]
        [] t.form = "named" /\ t.of \in DOMAIN types ->
             IF types[t.of].textual THEN OfType("string") ELSE RefTo(t.of, from, spelling)
        [] OTHER -> Object

StructDoc(types, name, spelling, whole) ==
  LET decl == types[name]
      home == HomeOf[name]
      own  == {f \in ToSet(decl.fields) : f.as = "key"}
      Props == [k \in {f.key : f \in own} |-> DocOf(types, (CHOOSE f \in own : f.key = k).type, home, spelling)]
  IN  [Object EXCEPT
         !.properties = IF whole /\ HandRead(decl) THEN Props @@ [byhand |-> Object] ELSE Props,
         !.allOf = LET squashed == SelectSeq(decl.fields, LAMBDA f : f.as = "squash")
                   IN  [i \in DOMAIN squashed |-> RefTo(squashed[i].type.of, home, spelling)]]

File1(upstream, root, defs) == [upstream |-> upstream, root |-> root, defs |-> defs]
Publish(types, how) ==
  LET Doc(name) == IF types[name].struct THEN StructDoc(types, name, how.spelling, how.whole)
                   ELSE RefTo(Behind(types, [form |-> "named", of |-> name]).of, HomeOf[name], how.spelling)
  IN  IF how.spelling = "none" THEN <<>>
      ELSE [c |-> File1(how.upstream, Doc(ConfigType), [Config |-> Doc(ConfigType)]),
            a |-> File1(how.upstream, Object, [A |-> Doc("A"), B |-> Doc("B")])]

-----------------------------------------------------------------------------
HarvestComponent ==
  /\ Asked("harvest")
  /\ answer' = [fields |-> HarvestFields(IF task.sources THEN task.types ELSE <<>>, Publish(task.types, task.how), task.file)]
  /\ UNCHANGED task

HarvestStep == HarvestComponent

-----------------------------------------------------------------------------
(* What the collector accepts. *)

Mapping(items) == [SampleOf["map"] EXCEPT !.items = items]
Sequence1(node) == [SampleOf["list"] EXCEPT !.items = <<[key |-> "", node |-> node]>>]
Under1(key, node) == Mapping(<<[key |-> key, node |-> node]>>)

\* The settings of a type: a mapping with any one key its tags name, its own
\* or a squashed struct's, and with one its own Unmarshal reads by hand.
RECURSIVE Accepted(_, _, _)
Accepted(types, expr, depth) ==
  LET t     == Behind(types, expr)
      decl  == types[t.of]
      known == t.form = "named" /\ t.of \in DOMAIN types
      own   == {f \in ToSet(decl.fields) : f.as = "key"}
      Kept(n) == n.items = <<>> \/ n.items[1].key \notin {f.key : f \in own}
  IN  IF depth > SampleDepth THEN {}
      ELSE CASE t.form \in {"basic", "duration"} -> {SampleOf[KindOf(t)]}
             [] t.form = "list"  -> {Sequence1(n) : n \in Accepted(types, t.elt[1], depth + 1)}
             [] t.form = "map"   -> {Under1("free", n) : n \in {SampleOf["string"], SampleOf["int"]}}
             [] t.form = "any"   -> {SampleOf["string"], SampleOf["int"], Under1("free", SampleOf["string"])}
             [] t.form = "other" -> {}
             [] t.form = "named" /\ ~known -> {SampleOf["string"], Under1("foreign", SampleOf["int"])}
             [] known /\ decl.textual -> {SampleOf["string"]}
             [] OTHER ->
                  {Mapping(<<>>)}
                  \cup UNION {{Under1(f.key, n) : n \in Accepted(types, f.type, depth + 1)} : f \in own}
                  \cup UNION {{n \in Accepted(types, f.type, depth) : n.kind = "mapping" /\ Kept(n)} :
                              f \in {g \in ToSet(decl.fields) : g.as = "squash"}}
                  \cup (IF HandRead(decl) THEN {Under1("byhand", SampleOf["string"])} ELSE {})

ConfigExpr == [form |-> "named", of |-> ConfigType]

SaidOf(node) == WalkField("strict", answer.fields, node, <<>>).findings

Harvested == Answered("harvest") /\ answer.fields # NoField

\* Three things the harvest does not see: the keys of a struct squashed from
\* outside the sources; that a name is one for a type that decodes itself from
\* text; and, where the expansion of a circle was cut off, that the published
\* schema leaves out what is read by hand there.
Mentioned(expr) == IF expr.form = "list" THEN {expr.elt[1].of} ELSE {expr.of}
Mentions(types, names) ==
  UNION {Mentioned(types[t].under) \cup UNION {Mentioned(f.type) : f \in ToSet(types[t].fields)} :
         t \in names \cap DOMAIN types}
RECURSIVE Reachable(_, _)
Reachable(types, names) ==
  LET more == names \cup Mentions(types, names) IN IF more = names THEN names ELSE Reachable(types, more)

SquashedFromOutside(types) ==
  \E t \in DOMAIN types : \E f \in ToSet(types[t].fields) : f.as = "squash" /\ f.type.of \notin DOMAIN types
NamesText(types) ==
  \E t \in DOMAIN types :
    LET u == types[t].under
    IN  ~types[t].textual /\ u.form = "named" /\ u.of \in DOMAIN types /\ types[u.of].textual
CircleReadByHand(types) == \E t \in DOMAIN types : HandRead(types[t]) /\ t \in Reachable(types, Mentions(types, {t}))

\* "a key dropped here becomes a false report against a valid config": no
\* setting the collector accepts is reported, whatever the sources leave
\* unresolved, decode by hand or refer to in a circle, and whatever the
\* published schema knows of it (fields, settleOpenness, enrich).
ValidSettingsStaySilent ==
  /\ Harvested /\ ~SquashedFromOutside(task.types) /\ ~NamesText(task.types)
  /\ task.how.spelling = "none" \/ task.how.whole \/ ~CircleReadByHand(task.types)
  => \A n \in Accepted(task.types, ConfigExpr, 0) : SaidOf(n) = {}

\* "A type that cannot be resolved ... becomes an open map, so its keys are
\* left unchecked rather than reported as unknown" (field).
UnresolvedIsUnchecked ==
  Harvested /\ task.how.spelling = "none" =>
    \A n \in Accepted(task.types, ConfigExpr, 0) : \A f \in SaidOf(n) : f[1] # "unknown-field"

\* Nor is a schema made that checks nothing: where the tags name every key,
\* a key nobody declares is reported, and so is a mapping for a scalar.
RECURSIVE ClosedBySources(_, _)
ClosedBySources(types, name) ==
  /\ ~HandRead(types[name]) /\ \E f \in ToSet(types[name].fields) : f.as # "none"
  /\ \A f \in ToSet(types[name].fields) :
       f.as = "squash" => f.type.of \in DOMAIN types /\ types[f.type.of].struct /\ ClosedBySources(types, f.type.of)

TyposAreFound ==
  /\ Harvested /\ task.sources /\ task.types[ConfigType].struct /\ ClosedBySources(task.types, ConfigType)
  => /\ \E f \in SaidOf(Under1("typo", SampleOf["string"])) : f[1] = "unknown-field"
     /\ \A f \in ToSet(task.types[ConfigType].fields) :
          f.as = "key" /\ Behind(task.types, f.type).form = "basic" =>
            \E g \in SaidOf(Under1(f.key, Mapping(<<>>))) : g[1] = "invalid-value"

HarvestedAsBuilt == ValidSettingsStaySilent /\ TyposAreFound
=============================================================================
