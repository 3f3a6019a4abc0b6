----------------------------- MODULE SchemaDiff -----------------------------
(***************************************************************************)
(* What schemagen makes of the components a release declares (add, in      *)
(* pkg/cmd/schemagen/harvest.go) and what DiffSchemas reports of two       *)
(* releases (pkg/schema/diff.go), for the components of one kind.          *)
(*                                                                         *)
(* A declaration is [type, alias, open, level]: alias is the name it had   *)
(* before it was renamed, or NoName.  A schema is a function from the      *)
(* types it holds to [alias, aliasOf, open, level].  Lists are sets, as    *)
(* each is sorted; a component has one signal.                             *)
(***************************************************************************)
EXTENDS Versions, Integers, FiniteSets

NoName == "none"

\* Upstream gives two components of a kind neither one name nor one old name.
Declarable(decls) ==
  \A d \in decls :
    /\ d.alias # d.type
    /\ \A e \in decls \ {d} : d.type # e.type /\ (d.alias = NoName \/ d.alias # e.alias)

NoComponents == [t \in {} |-> NoName]

\* add: a component, and its old name beside it; a name taken already stays.
Add(cat, d) ==
  LET Entry(alias, aliasOf) == [alias |-> alias, aliasOf |-> aliasOf, open |-> d.open, level |-> d.level]
      added == [t \in (DOMAIN cat) \cup {d.type} |->
                  IF t = d.type THEN Entry(d.alias, NoName) ELSE cat[t]]
  IN  IF d.type \in DOMAIN cat THEN cat
      ELSE IF d.alias = NoName \/ d.alias \in DOMAIN added THEN added
      ELSE [t \in (DOMAIN added) \cup {d.alias} |->
              IF t = d.alias THEN Entry(NoName, d.type) ELSE added[t]]

AtLeastBeta(level) == level \in {"beta", "stable"}

\* aliasPairs: the old names, each with the name that replaced it.
AliasPairs(byType) ==
  {<<t, byType[t].aliasOf>> : t \in {u \in DOMAIN byType : byType[u].aliasOf # NoName}}
  \cup
  {<<byType[t].alias, t>> : t \in {u \in DOMAIN byType : /\ byType[u].aliasOf = NoName
                                                         /\ byType[u].alias # NoName}}

\* A pair is news when the previous release did not carry it and served the
\* old name; a component that arrives under both names is simply new.
RenamesInAll(old, current) == AliasPairs(current) \ AliasPairs(old)
RenamesIn(old, current) ==
  {p \in AliasPairs(current) \ AliasPairs(old) : p[1] \in DOMAIN old}

MissingFrom(base, have, skip) == (DOMAIN have \ DOMAIN base) \ skip

BothCarry(old, current) == DOMAIN old \cap DOMAIN current

RestabilisedIn(old, current) ==
  {t \in BothCarry(old, current) :
     /\ NoName \notin {old[t].level, current[t].level}
     /\ AtLeastBeta(old[t].level) # AtLeastBeta(current[t].level)}

OpenedIn(old, current) ==
  {t \in BothCarry(old, current) : ~old[t].open /\ current[t].open}
ClosedInNever(old, current) == {}
ClosedIn(old, current) == OpenedIn(current, old)

DiffReportingBoth(old, current) ==
  [renamed      |-> RenamesIn(old, current),
   added        |-> MissingFrom(old, current, {}),
   removed      |-> MissingFrom(current, old, {}),
   restabilised |-> RestabilisedIn(old, current),
   opened       |-> OpenedIn(old, current),
   closed       |-> ClosedIn(old, current)]
DiffSchemas(old, current) ==
  LET renamed == RenamesIn(old, current)
  IN  [renamed      |-> renamed,
       added        |-> MissingFrom(old, current, {p[2] : p \in renamed}),
       removed      |-> MissingFrom(current, old, {}),
       restabilised |-> RestabilisedIn(old, current),
       opened       |-> OpenedIn(old, current),
       closed       |-> ClosedIn(old, current)]

DiffIsEmpty(d) ==
  /\ d.added = {} /\ d.removed = {} /\ d.renamed = {}
  /\ d.restabilised = {} /\ d.opened = {} /\ d.closed = {}

Diff ==
  /\ Asked("diff")
  /\ answer' = DiffSchemas(task.old, task.current)
  /\ UNCHANGED task

CompareStep == Order \/ Diff

-----------------------------------------------------------------------------
(* The diff of two schemas. *)

\* Every type that came is added or is what a component was renamed to, every
\* type that went is removed, and "a renamed component appears in neither"
\* (Diff): upstream made one change and one is reported.
ChangesToldOnce ==
  Answered("diff") =>
    LET came == DOMAIN task.current \ DOMAIN task.old
        to   == {p[2] : p \in answer.renamed}
    IN  /\ answer.removed = DOMAIN task.old \ DOMAIN task.current
        /\ answer.added = came \ to
        /\ \A p \in answer.renamed :
             /\ p[1] \in DOMAIN task.old \cap DOMAIN task.current
             /\ p[2] \in DOMAIN task.current

\* A diff that says nothing changed is one of two schemas that hold the same
\* types, equally open and on the same side of beta; and a schema compared
\* with itself has none (Empty).
EmptyMeansSame ==
  Answered("diff") =>
    /\ DiffIsEmpty(answer) =>
         /\ DOMAIN task.old = DOMAIN task.current
         /\ \A t \in DOMAIN task.old :
              /\ task.old[t].open = task.current[t].open
              /\ NoName \notin {task.old[t].level, task.current[t].level} =>
                   AtLeastBeta(task.old[t].level) = AtLeastBeta(task.current[t].level)
    /\ task.old = task.current => DiffIsEmpty(answer)

\* Versions are in one order, however they are spelled, and a report says all
\* that changed between two releases, each change once.
ReleasesAreComparedRight == OrderIsTotal /\ ChangesToldOnce /\ EmptyMeansSame

-----------------------------------------------------------------------------
(* What may be asked: any three versions, and any two schemas each of which *)
(* holds the names its components speak of.                                 *)

OrderQuestions == [of : {"order"}, a : AnyVersion, b : AnyVersion, c : AnyVersion]

WellNamed(cat) == \A t \in DOMAIN cat : {cat[t].alias, cat[t].aliasOf} \subseteq (DOMAIN cat) \cup {NoName}
SchemaEntries == [alias : STRING, aliasOf : STRING, open : BOOLEAN, level : STRING]
AnySchema == {cat \in UNION {[types -> SchemaEntries] : types \in SUBSET (STRING \ {NoName})} : WellNamed(cat)}
DiffQuestions == [of : {"diff"}, old : AnySchema, current : AnySchema]

CompareInit == task \in OrderQuestions \cup DiffQuestions /\ answer = Unasked
CompareSpec == CompareInit /\ [][CompareStep]_asking
=============================================================================
