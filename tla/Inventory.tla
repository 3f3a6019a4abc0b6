----------------------------- MODULE Inventory ------------------------------
(***************************************************************************)
(* What schemagen records of a distribution before its fields, as          *)
(* operators: the builder manifest (builder.go), the modules the go        *)
(* command resolves for it (module.go), what is read in their directories  *)
(* (harvest.go), the components that come of it, and the decoder the       *)
(* collector is built with (decoder.go).                                   *)
(*                                                                         *)
(* A module path, an import path and a directory are the sequences of      *)
(* their elements.  An entry of a manifest is a "gomod" line that splits   *)
(* in two or not, and a name or none.  A version is its line, 0 or 1, and  *)
(* a number.  What the go command lists is taken as given.                 *)
(***************************************************************************)
EXTENDS Harvest

CONSTANTS
  KindOrder,       \* the kinds, in the order of the manifest's sections
  ElementOf,       \* ElementOf[e]: the name and the kind that the path element e spells
  RepositoryRoots, \* the two upstream repositories, the collector's own first
  DecoderModules,  \* confmap first, and the two homes of mapstructure
  BadNames         \* what is no name for a distribution

NoWord    == ""
NoPin == [line |-> -1, n |-> 0]

-----------------------------------------------------------------------------
(* The manifest. *)

\* components: entries that do not split are left to requires.
Components(man) ==
  FlattenSeq([i \in DOMAIN KindOrder |->
    LET splits == SelectSeq(man.entries[KindOrder[i]], LAMBDA e : e.splits)
    IN  [j \in DOMAIN splits |->
           [kind |-> KindOrder[i], module |-> splits[j].module, version |-> splits[j].version, name |-> splits[j].name]]])

RequiresError(man) ==
  IF \E k \in DOMAIN man.entries : \E e \in ToSet(man.entries[k]) : ~e.splits THEN "gomod" ELSE "none"

CoreModuleRoot == RepositoryRoots[1]
Inside(module, root) == Len(module) > Len(root) /\ IsPrefix(root, module)

\* pinnedVersion: the commonest release of the 0.x line, the first of those
\* that are as common.
LastPinned(man) ==
  LET pins == SelectSeq(Components(man), LAMBDA d : Inside(d.module, CoreModuleRoot) /\ d.version.line = 0)
  IN  IF pins = <<>> THEN NoPin ELSE Last(pins).version
PinnedVersion(man) ==
  LET pins == SelectSeq(Components(man), LAMBDA d : Inside(d.module, CoreModuleRoot) /\ d.version.line = 0)
      Times(i) == Cardinality({j \in 1..i : pins[j].version = pins[i].version})
      most == {i \in DOMAIN pins : \A j \in DOMAIN pins : Times(j) <= Times(i)}
  IN  IF pins = <<>> THEN NoPin
      ELSE pins[CHOOSE i \in most : \A j \in most : i <= j].version

OwnVersionFirst(man) == IF man.version # NoPin THEN man.version ELSE man.otelcol
CollectorVersion(man) ==
  IF man.otelcol # NoPin THEN man.otelcol
  ELSE IF PinnedVersion(man) # NoPin THEN PinnedVersion(man)
  ELSE man.version

IsVersion(v) == v.line >= 0

\* readManifest, under the name --builder may give it.
ManifestError(text, man) ==
  IF text # "yaml" THEN text
  ELSE IF man.name = NoWord THEN "name"
  ELSE IF CollectorVersion(man) = NoPin THEN "version"
  ELSE IF man.name \in BadNames THEN "distribution"
  ELSE IF \E v \in {man.version, man.otelcol, CollectorVersion(man)} : v # NoPin /\ ~IsVersion(v) THEN "release"
  ELSE IF Components(man) = <<>> THEN "components"
  ELSE "none"
ReadManifest(man, override) == IF override = NoWord THEN man ELSE [man EXCEPT !.name = override]

\* replaceBase: where the builder generates the collector.
ReplaceBase(man) ==
  CASE man.output = "none" -> "manifest" [] man.output = "absolute" -> "output" [] OTHER -> "output under manifest"

-----------------------------------------------------------------------------
(* The modules. *)

\* readModuleSet, of what "go list" wrote, if it wrote anything: by path those
\* that are on disk, and whether any was not.
ReadModuleSet(list) ==
  LET others == {m \in ToSet(list.modules) : ~m.main}
      here   == {m \in others : ~m.error /\ m.onDisk}
  IN  IF list.cutShort THEN [error |-> "list"]
      ELSE IF here = {} THEN [error |-> "no modules"]
      ELSE [error |-> "none", modules |-> here, incomplete |-> here # others]

ResolveModules(man, list) ==
  IF RequiresError(man) # "none" THEN [error |-> RequiresError(man)]
  ELSE IF list.failed /\ list.modules = <<>> THEN [error |-> "resolve"]
  ELSE ReadModuleSet(list)

AtPath(set, path) == {m \in set.modules : m.path = path}

\* decoder, of one module set: replace is a sequence of one replacement or none.
ForksOnly(path, m) == m.replace # <<>> /\ m.replace[1].path # path
Modified(path, m) == m.replace # <<>> /\ (m.replace[1].path # path \/ m.replace[1].version = NoPin)
DecoderOf(set) ==
  LET confmap == AtPath(set, DecoderModules[1])
      Version(m) == IF m.replace # <<>> THEN m.replace[1].version ELSE m.version
  IN  [confmap    |-> IF confmap = {} THEN NoPin ELSE Version(CHOOSE m \in confmap : TRUE),
       modified   |-> \E i \in DOMAIN DecoderModules : \E m \in AtPath(set, DecoderModules[i]) :
                        Modified(DecoderModules[i], m),
       incomplete |-> set.incomplete]

\* The collector's own module says what it is built with, if it has been
\* generated and can be listed; the components alone do not.
ComponentsDecoder(man, set) == [DecoderOf(set) EXCEPT !.incomplete = TRUE]
DecoderFromComponents(man, set, own) == DecoderOf(set)
Decoder(man, set, own) ==
  LET graph == ReadModuleSet(own.list)
  IN  IF man.output = "none" \/ own.at # ReplaceBase(man) \/ own.list.failed \/ graph.error # "none"
      THEN ComponentsDecoder(man, set)
      ELSE DecoderOf(graph)

-----------------------------------------------------------------------------
(* Their directories. *)

RepositorySegments == 3
RepositoryRootOf(module) ==
  LET known == SelectSeq(RepositoryRoots, LAMBDA r : IsPrefix(r, module))
  IN  IF known # <<>> THEN Head(known)
      ELSE SubSeq(module, 1, IF Len(module) < RepositorySegments THEN Len(module) ELSE RepositorySegments)

\* Which modules can hold a component or a shared type.
ScannableDeclared(man, module) == \E d \in ToSet(Components(man)) : d.module = module
Scannable(man, module) ==
  \E root \in ToSet(RepositoryRoots) \cup {RepositoryRootOf(d.module) : d \in ToSet(Components(man))} :
    IsPrefix(root, module)

SkipModuleDir(name) == name \in {"testdata", "examples", ".git"}
DeclarableIn(dir) == \A i \in DOMAIN dir : dir[i] \notin {"cmd", "internal"}

ImportPathOf(m, f) == m.path \o f.dir

\* readMetadata: of a component of its own, neither a template nor a part.
IsMetadata(f) == f.what = "metadata" /\ f.meta.type # NoWord /\ f.meta.parent = NoWord

\* scanModule, one module after the other: what is read later under one import
\* path replaces what was read before.
ScanModule(m, scan) ==
  LET read  == {f \in m.files : f.limited /\ \A i \in DOMAIN f.dir : ~SkipModuleDir(f.dir[i])}
      metas == {f \in read : IsMetadata(f) /\ DeclarableIn(f.dir)}
      other == {f \in read : f.what \in {"schema", "go"}}
      Of(files, path) == {f \in files : ImportPathOf(m, f) = path}
  IN  [metas |-> [p \in DOMAIN scan.metas \cup {ImportPathOf(m, f) : f \in metas} |->
                    IF Of(metas, p) = {} THEN scan.metas[p] ELSE (CHOOSE f \in Of(metas, p) : TRUE).meta],
       read  |-> scan.read \cup {<<ImportPathOf(m, f), f.what>> : f \in other}]

NothingScanned == [metas |-> <<>>, read |-> {}]
ScanModules(man, order) ==
  FoldLeft(LAMBDA scan, m : IF Scannable(man, m.path) THEN ScanModule(m, scan) ELSE scan, NothingScanned, order)

-----------------------------------------------------------------------------
(* The components. *)

NoMeta == [type |-> NoWord, alias |-> NoWord, parent |-> NoWord, signals |-> {}, pairs |-> {}]

TypeName(d) ==
  LET last == ElementOf[Last(d.module)]
  IN  IF d.name # NoWord THEN d.name
      ELSE IF last.kind = d.kind THEN last.name ELSE Last(d.module)

NamedByManifest(d, meta) == TypeName(d)
TypeOf(d, meta) == IF meta.type # NoWord THEN meta.type ELSE TypeName(d)

\* convert: the metadata says the signals and the pairs, the manifest the rest.
Convert(d, meta) ==
  [type |-> TypeOf(d, meta), alias |-> meta.alias, aliasOf |-> NoWord, module |-> d.module,
   signals |-> meta.signals, pairs |-> meta.pairs]

\* add: of each kind, a component and the name it had; the first to have a
\* name keeps it.
AddWithoutAlias(cat, d, meta) ==
  LET c == Convert(d, meta)
  IN  IF c.type \in DOMAIN cat[d.kind] THEN cat
      ELSE [cat EXCEPT ![d.kind] = [t \in DOMAIN @ \cup {c.type} |-> IF t = c.type THEN c ELSE @[t]]]
AddDeclared(cat, d, meta) ==
  LET c    == Convert(d, meta)
      held == DOMAIN cat[d.kind]
      new  == {c.type} \cup (IF c.alias = NoWord THEN {} ELSE {c.alias} \ held)
  IN  IF c.type \in held THEN cat
      ELSE [cat EXCEPT ![d.kind] = [t \in held \cup new |->
              IF t \notin new THEN @[t]
              ELSE IF t = c.type THEN c
              ELSE [c EXCEPT !.type = c.alias, !.alias = NoWord, !.aliasOf = c.type]]]

NothingAdded == [k \in ToSet(KindOrder) |-> <<>>]

\* build, the modules read in some order: a declared module that is not there
\* fails it.
MissingPassedOver(man, set) == FALSE
MissingModule(man, set) == \E d \in ToSet(Components(man)) : AtPath(set, d.module) = {}

MetaOf(scan, d) == IF d.module \in DOMAIN scan.metas THEN scan.metas[d.module] ELSE NoMeta

Build(man, set, order, own) ==
  LET scan == ScanModules(man, order)
  IN  IF MissingModule(man, set) THEN [error |-> "missing"]
      ELSE [error        |-> "none",
            version      |-> CollectorVersion(man),
            distribution |-> man.name,
            decoder      |-> Decoder(man, set, own),
            read         |-> scan.read,
            components   |-> FoldLeft(LAMBDA cat, d : AddDeclared(cat, d, MetaOf(scan, d)),
                                      NothingAdded, Components(man))]

-----------------------------------------------------------------------------
(* One distribution harvested from its manifest (generate: readManifest,   *)
(* then build), held against what the manifest declares and what its       *)
(* modules hold.                                                           *)
\* The modules are read in the order of a map.
HarvestDistribution ==
  /\ Asked("inventory")
  /\ LET man   == ReadManifest(task.man, task.override)
         error == ManifestError(task.text, man)
         set   == ResolveModules(man, task.list)
     IN  IF error # "none" THEN answer' = [error |-> error]
         ELSE IF set.error # "none" THEN answer' = [error |-> set.error]
         ELSE \E order \in SetToSeqs(set.modules) : answer' = Build(man, set, order, task.own)
  /\ UNCHANGED task

InventoryStep == HarvestDistribution

-----------------------------------------------------------------------------
Built == Answered("inventory") /\ answer.error = "none"
Entries == UNION {{[kind |-> k, entry |-> e] : e \in ToSet(task.man.entries[k])} : k \in ToSet(KindOrder)}

ModuleOf(path) == {m \in ToSet(task.list.modules) : m.path = path /\ ~m.main /\ ~m.error /\ m.onDisk}

\* What a module's own metadata says, if it says anything.
OwnMeta(path) ==
  UNION {{f.meta : f \in {g \in m.files : g.dir = <<>> /\ g.limited /\ g.what = "metadata"
                                          /\ g.meta.type # NoWord /\ g.meta.parent = NoWord}} : m \in ModuleOf(path)}

\* A checkout may hold the directory of another module of the list; which of
\* the two is read last is the map's choice.
Nested ==
  \E m, n \in ToSet(task.list.modules) : Inside(n.path, m.path) /\ \E f \in m.files : IsPrefix(n.path, m.path \o f.dir)

TypesOf(e) ==
  IF OwnMeta(e.entry.module) # {} THEN {m.type : m \in OwnMeta(e.entry.module)}
  ELSE IF e.entry.name # NoWord THEN {e.entry.name}
  ELSE LET last == Last(e.entry.module)
       IN  {IF ElementOf[last].kind = e.kind THEN ElementOf[last].name ELSE last}
AliasesOf(e) == {m.alias : m \in OwnMeta(e.entry.module)} \ {NoWord}

\* No two components of a kind share a name, old ones included.
Distinct == \A e, f \in Entries : e # f /\ e.kind = f.kind => TypesOf(e) \cap (TypesOf(f) \cup AliasesOf(f)) = {}

\* "A schema missing a component reports every config that uses it as invalid,
\* which is worse than having no schema for the release": a schema is made with
\* every component the manifest declares, under its own name and its old one,
\* and with no other, or none is made (requires, build, add).
NothingDeclaredIsMissing ==
  Built /\ ~Nested /\ Distinct =>
    /\ \A e \in Entries :
         /\ e.entry.splits /\ ModuleOf(e.entry.module) # {}
         /\ \A t \in TypesOf(e) \cup AliasesOf(e) :
              /\ t \in DOMAIN answer.components[e.kind]
              /\ answer.components[e.kind][t].module = e.entry.module
              /\ \A m \in OwnMeta(e.entry.module) : answer.components[e.kind][t].signals = m.signals
    /\ \A k \in ToSet(KindOrder) : \A t \in DOMAIN answer.components[k] :
         \E e \in Entries : e.kind = k /\ t \in TypesOf(e) \cup AliasesOf(e)

\* "What the components are pinned at is the release": unless the manifest says
\* so itself, no release of the collector's own 0.x modules is commoner than the
\* one the schema is filed under, whatever the distribution's own version is.
Pinned(v) == Cardinality({e \in Entries : e.entry.splits /\ Inside(e.entry.module, CoreModuleRoot) /\ e.entry.version = v})
FiledUnderItsRelease ==
  Built =>
    LET pinned == {e.entry.version : e \in {f \in Entries : f.entry.splits /\ Inside(f.entry.module, CoreModuleRoot)}}
        zero   == {v \in pinned : v.line = 0}
    IN  IF task.man.otelcol # NoPin THEN answer.version = task.man.otelcol
        ELSE IF zero = {} THEN answer.version = task.man.version
        ELSE answer.version \in zero /\ \A v \in zero : Pinned(v) <= Pinned(answer.version)

\* Of every repository a declared module is from, and of the two upstream, all
\* that may define a type or publish a schema is read, internal packages too.
SharedTypesAreRead ==
  Built =>
    \A m \in ToSet(task.list.modules) : \A f \in m.files :
      /\ ModuleOf(m.path) # {} /\ f.limited /\ f.what # "metadata" /\ ToSet(f.dir) \cap {"testdata", "examples", ".git"} = {}
      /\ \/ \E r \in ToSet(RepositoryRoots) : IsPrefix(r, m.path)
         \/ \E e \in Entries : SubSeq(m.path, 1, 3) = SubSeq(e.entry.module, 1, 3) /\ Len(m.path) >= 3
      => <<m.path \o f.dir, f.what>> \in answer.read

\* What the linter takes for granted of the way scalars are decoded is so in
\* the collector that is built: its own module was listed to the end, and no
\* part of its decoder is a fork or a checkout (decoder, ScalarDecoding).
DecoderIsTheBuilt ==
  Built =>
    LET Number(v) == IF v = NoPin THEN 0 ELSE 1000 * v.line + v.n
        target    == [release |-> Number(answer.version), distribution |-> answer.distribution,
                      decoder |-> <<[release    |-> Number(answer.decoder.confmap), modified |-> answer.decoder.modified,
                                     incomplete |-> answer.decoder.incomplete]>>]
        graph     == {m \in ToSet(task.own.list.modules) : ~m.main}
        part      == {m \in graph : m.path \in ToSet(DecoderModules)}
        InUse(m)  == IF m.replace = <<>> THEN m.version ELSE m.replace[1].version
    IN  ScalarDecoding(target) # "unknown" =>
          /\ task.own.at = ReplaceBase(task.man) /\ task.man.output # "none"
          /\ ~task.own.list.failed /\ ~task.own.list.cutShort
          /\ \A m \in graph : ~m.error /\ m.onDisk
          /\ \A m \in part : m.replace = <<>> \/ (m.replace[1].path = m.path /\ m.replace[1].version # NoPin)
          /\ \E m \in part : m.path = DecoderModules[1] /\ InUse(m) = answer.decoder.confmap

\* A schema that is made describes the distribution that is built: what it
\* ships, under which release, how settings are decoded, and which they are.
SchemaIsWhatIsBuilt ==
  /\ NothingDeclaredIsMissing
  /\ FiledUnderItsRelease
  /\ SharedTypesAreRead
  /\ DecoderIsTheBuilt
  /\ HarvestedAsBuilt
=============================================================================
