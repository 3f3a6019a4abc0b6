------------------------------ MODULE Settings ------------------------------
(***************************************************************************)
(* How a repository's settings file reaches a run, as operators: the file  *)
(* is searched for (pkg/settings), read and normalised once                *)
(* (pkg/cmdutil), folded under the flags of the command line, and made     *)
(* into the environment of each path (run, pkg/lint/environment.go).       *)
(*                                                                         *)
(* A file has one value per key in its blocks and one in the flat form of  *)
(* the first release; of the keys of one kind, which are treated alike,    *)
(* one or two stand for all.  Unset is a key that is not written and a     *)
(* flag that is not given.  The working directory and its parents are a    *)
(* sequence, 1 the working directory; At names where a relative schema     *)
(* location starts from.                                                   *)
(***************************************************************************)
EXTENDS Scan, FiniteSets, Integers, Asking

CONSTANTS
  ScalarKeys,    \* the keys with one value
  DefaultOption, \* DefaultOption[k]: the flag's default
  ExplicitDir,   \* the directory of a file named by --config
  WorkingDir     \* where a relative path on the command line starts from

Unset == "unset"
ListKeys == {"schemaLocations", "exclude"}

-----------------------------------------------------------------------------
(* Find: the nearest file, not past the repository. *)

Names == <<".otelcol-config-lint.yaml", ".otelcol-config-lint.yml">>
NoPath == [dir |-> 0, name |-> 0]

FirstName(dir) == CHOOSE n \in dir.files : \A m \in dir.files : n <= m

StopsPastGit(chain, i) == chain[i].files # {} \/ i = Len(chain)
Stops(chain, i) == chain[i].files # {} \/ chain[i].git \/ i = Len(chain)

Find(chain) ==
  LET i == CHOOSE i \in DOMAIN chain : Stops(chain, i) /\ \A j \in 1..(i - 1) : ~Stops(chain, j)
  IN  IF chain[i].files = {} THEN NoPath ELSE [dir |-> i, name |-> FirstName(chain[i])]

-----------------------------------------------------------------------------
(* Parse and Normalize. *)

NoKubernetes == [enabled |-> Unset, hostNetwork |-> Unset, request |-> Unset, limit |-> Unset,
                 overrides |-> <<>>]

NoFlat == [scalars |-> [k \in ScalarKeys |-> Unset], lists |-> [k \in ListKeys |-> <<>>],
           kubernetes |-> <<>>]

\* flat.kubernetes is a sequence of one block or none.
EmptyFile == [scalars |-> [k \in ScalarKeys |-> Unset], lists |-> [k \in ListKeys |-> <<>>],
              kubernetes |-> NoKubernetes, color |-> Unset, flat |-> NoFlat]

\* One document, with no key but the known ones, of the version this release
\* reads.  An empty text is a file that says nothing.
ParseError(text) ==
  IF text.first = "broken" THEN "decode"
  ELSE IF text.second = "document" THEN "documents"
  ELSE IF text.second = "broken" THEN "decode"
  ELSE IF text.version \notin {Unset, "1"} THEN "version"
  ELSE "none"

Written(k) ==
  \/ Unset # k.enabled \/ Unset # k.hostNetwork \/ Unset # k.request \/ Unset # k.limit
  \/ k.overrides # <<>>

\* "A key written in both forms keeps the block's value."
FoldedFlatFirst(block, flat, none) == IF flat = none THEN block ELSE flat
Folded(block, flat, none) == IF block = none THEN flat ELSE block

FoldedKubernetes(file) ==
  IF file.flat.kubernetes # <<>> /\ ~Written(file.kubernetes) THEN Head(file.flat.kubernetes)
  ELSE file.kubernetes

Normalize(file) ==
  [file EXCEPT
     !.scalars    = [k \in ScalarKeys |-> Folded(file.scalars[k], file.flat.scalars[k], Unset)],
     !.lists      = [k \in ListKeys |-> Folded(file.lists[k], file.flat.lists[k], <<>>)],
     !.kubernetes = FoldedKubernetes(file)]

-----------------------------------------------------------------------------
(* load and Prepare: the file is read once, however commands are nested. *)

\* A relative schema location of the file starts from the file's directory.
Anchored(location, dir) ==
  IF location.form = "relative" THEN [location EXCEPT !.at = dir] ELSE location

ResolveSchemaLocations(file, path) ==
  IF path = NoPath THEN file
  ELSE [file EXCEPT !.lists["schemaLocations"] =
          [i \in DOMAIN @ |-> Anchored(@[i], path.dir)]]

Loaded(error, file, path) == [error |-> error, file |-> file, path |-> path]

\* A discovered file may be gone again when it is read; a named one must be
\* there.  read is what ReadFile comes to: "gone", "unreadable" or the text.
ReadFrom(disk, path, named) ==
  LET read == disk.read
  IN  IF read.found = "gone" /\ ~named THEN Loaded("none", EmptyFile, NoPath)
      ELSE IF read.found # "text" THEN Loaded("read", EmptyFile, NoPath)
      ELSE IF ParseError(read.text) # "none" THEN Loaded(ParseError(read.text), EmptyFile, NoPath)
      ELSE Loaded("none", read.text.file, path)

Load(command, disk) ==
  LET found == Find(disk.chain)
  IN  IF command.noConfig THEN Loaded("none", EmptyFile, NoPath)
      ELSE IF command.config THEN ReadFrom(disk, [dir |-> ExplicitDir, name |-> 1], TRUE)
      ELSE IF found = NoPath THEN Loaded("none", EmptyFile, NoPath)
      ELSE ReadFrom(disk, found, FALSE)

\* The options before any Prepare.
Unprepared == [ready |-> FALSE, error |-> "none", file |-> EmptyFile, path |-> NoPath]

PrepareAgain(command, options, disk) ==
  LET got == Load(command, disk)
  IN  IF got.error # "none" THEN [options EXCEPT !.error = got.error]
      ELSE [ready |-> TRUE, error |-> "none", path |-> got.path,
            file  |-> ResolveSchemaLocations(Normalize(got.file), got.path)]
Prepare(command, options, disk) ==
  LET got == Load(command, disk)
  IN  IF options.ready \/ options.error # "none" THEN options
      ELSE IF got.error # "none" THEN [options EXCEPT !.error = got.error]
      ELSE [ready |-> TRUE, error |-> "none", path |-> got.path,
            file  |-> ResolveSchemaLocations(Normalize(got.file), got.path)]

-----------------------------------------------------------------------------
(* Fold: a flag that was given wins over the file, which wins over the     *)
(* flag's default.                                                         *)

FoldStr(changed, current, value) == IF changed \/ value = Unset THEN current ELSE value

FoldListBoth(changed, current, value) == current \o value
FoldList(changed, current, value) == IF changed THEN current ELSE current \o value

Negated(b) == CASE b = "true" -> "false" [] b = "false" -> "true" [] OTHER -> b

\* The file says whether to colour, the flag whether to stop.
NoColorAsWritten(flag, color) == FoldStr(flag # Unset, IF flag = Unset THEN "false" ELSE flag, color)
NoColor(flag, color) ==
  FoldStr(flag # Unset, IF flag = Unset THEN "false" ELSE flag, Negated(color))

ApplySettings(flags, file) ==
  [scalars |-> [k \in ScalarKeys |->
                  FoldStr(flags.scalars[k] # Unset,
                          IF flags.scalars[k] = Unset THEN DefaultOption[k] ELSE flags.scalars[k],
                          file.scalars[k])],
   lists   |-> [k \in ListKeys |-> FoldList(flags.lists[k] # <<>>, flags.lists[k], file.lists[k])],
   noColor |-> NoColor(flags.noColor, file.color)]

\* Store.Validate: a plain http:// location needs the opt-in.
StoreError(options) ==
  IF /\ options.scalars["insecureSchemaLocation"] # "true"
     /\ \E l \in ToSet(options.lists["schemaLocations"]) : l.form = "http"
  THEN "insecure" ELSE "none"

-----------------------------------------------------------------------------
(* The environment of a path. *)

SizeError(size) == IF size = "bad" THEN "size" ELSE "none"

\* An unstated "enabled" is inferred: the other values describe a pod.
KubernetesUnlessSaid(e) == e.enabled = "true"
KubernetesOn(e) ==
  IF e.enabled # Unset THEN e.enabled = "true"
  ELSE Unset # e.hostNetwork \/ Unset # e.request \/ Unset # e.limit

EnvironmentError(e) ==
  IF SizeError(e.request) # "none" THEN SizeError(e.request) ELSE SizeError(e.limit)
EnvironmentOf(e) ==
  [kubernetes |-> KubernetesOn(e), hostNetwork |-> e.hostNetwork,
   request |-> e.request, limit |-> e.limit]

\* The flags are the single-file convenience: they reach the defaults only.
DefaultsOf(flags, k) ==
  [enabled     |-> FoldStr(flags.kubernetes # Unset, flags.kubernetes, k.enabled),
   hostNetwork |-> k.hostNetwork,
   request     |-> FoldStr(flags.request # Unset, flags.request, k.request),
   limit       |-> FoldStr(flags.limit # Unset, flags.limit, k.limit)]

OverrideError(over) ==
  IF over.paths = <<>> THEN "paths" ELSE EnvironmentError(over)

PatternErrors(overrides) ==
  {i \in DOMAIN overrides : \E p \in ToSet(overrides[i].paths) : CheckPattern(p) # "none"}

PolicyError(defaults, overrides) ==
  LET bad == {i \in DOMAIN overrides : OverrideError(overrides[i]) # "none"}
      first == CHOOSE i \in bad : \A j \in bad : i <= j
  IN  IF EnvironmentError(defaults) # "none" THEN EnvironmentError(defaults)
      ELSE IF bad # {} THEN OverrideError(overrides[first])
      ELSE IF PatternErrors(overrides) # {} THEN "pattern"
      ELSE "none"

EnvironmentPolicy(defaults, overrides) ==
  [default   |-> EnvironmentOf(defaults),
   overrides |-> [i \in DOMAIN overrides |->
                    [paths |-> overrides[i].paths, env |-> EnvironmentOf(overrides[i])]]]

Matching(policy, path) ==
  {i \in DOMAIN policy.overrides : \E p \in ToSet(policy.overrides[i].paths) : Match(p, path)}

\* Standard input has the defaults, whatever a pattern would match.
ResolveEnvironment(policy, path) ==
  LET matching == Matching(policy, path)
  IN  IF path = StdinMarker \/ matching = {} THEN policy.default
      ELSE policy.overrides[CHOOSE i \in matching : \A j \in matching : i <= j].env

-----------------------------------------------------------------------------
(* prepare of the run command. *)

PrepareRun(command, options) ==
  LET folded    == ApplySettings(command.flags, options.file)
      defaults  == DefaultsOf(command.flags, options.file.kubernetes)
      overrides == options.file.kubernetes.overrides
      policy    == PolicyError(defaults, overrides)
      stop(why) == [error |-> why]
  IN  IF options.error # "none" THEN stop(options.error)
      ELSE IF StoreError(folded) # "none" THEN stop(StoreError(folded))
      ELSE IF policy # "none" THEN stop(policy)
      ELSE [error |-> "none", options |-> folded, policy |-> EnvironmentPolicy(defaults, overrides)]

-----------------------------------------------------------------------------
(* The start of a run: what the settings file and the flags come to        *)
(* (Settings), and which files are linted (Scan), each asked once and held *)
(* against what was written.                                               *)
\* The commands of one invocation each prepare the options they share, on the
\* disk as it is by then, and the last is the run.
Start ==
  /\ Asked("start")
  /\ LET options == FoldLeft(LAMBDA o, disk : Prepare(task.command, o, disk), Unprepared, task.disks)
     IN  answer' = [prepared |-> options, run |-> PrepareRun(task.command, options)]
  /\ UNCHANGED task

Discover ==
  /\ Asked("scan")
  /\ answer' = ScanAll(task.tree, task.exclude, task.paths)
  /\ UNCHANGED task

StartStep == Start \/ Discover

-----------------------------------------------------------------------------
(* What was written, read off the first disk. *)

\* Where the settings come from: the named file, or the first file of the
\* nearest directory with one, as long as no repository ends below it.
SettingsPaths(command, chain) ==
  IF command.noConfig THEN {}
  ELSE IF command.config THEN {[dir |-> ExplicitDir, name |-> 1]}
  ELSE {p \in [dir : DOMAIN chain, name : {1, 2}] :
          /\ p.name \in chain[p.dir].files
          /\ p.name = 2 => 1 \notin chain[p.dir].files
          /\ \A j \in 1..(p.dir - 1) : chain[j].files = {} /\ ~chain[j].git}

\* The file that governs the run, if there is one to govern it.
Governing(command, disk) ==
  {p \in SettingsPaths(command, disk.chain) : disk.read.found = "text"}

WrittenFile(command, disk) ==
  IF Governing(command, disk) = {} THEN EmptyFile ELSE disk.read.text.file

FirstWritten(values) ==
  LET given == {i \in DOMAIN values : values[i] # Unset}
  IN  IF given = {} THEN Unset ELSE values[CHOOSE i \in given : \A j \in given : i <= j]

FirstList(flag, block, flat) == IF flag # <<>> THEN flag ELSE IF block # <<>> THEN block ELSE flat

\* Why no settings are to be had, if so.
WrittenError(command, disk) ==
  IF Governing(command, disk) # {} THEN ParseError(disk.read.text)
  ELSE IF SettingsPaths(command, disk.chain) # {} /\ (command.config \/ disk.read.found = "unreadable")
       THEN "read" ELSE "none"

\* Key by key, what the flags and the file say, the file being in one of dirs.
ListAsWritten(got, k, flag, file, dirs) ==
  LET from == FirstList(flag, file.lists[k], file.flat.lists[k])
      Where(l) == IF l.form # "relative" \/ l.at # WorkingDir THEN {l.at} ELSE dirs
  IN  /\ Len(got) = Len(from)
      /\ k = "schemaLocations" /\ flag = <<>> =>
           \A i \in DOMAIN got : got[i].form = from[i].form /\ got[i].at \in Where(from[i])
      /\ k = "exclude" \/ flag # <<>> => got = from

OptionsAsWritten(options, flags, file, dirs) ==
  /\ options.scalars = [k \in ScalarKeys |->
                          FirstWritten(<<flags.scalars[k], file.scalars[k], file.flat.scalars[k],
                                         DefaultOption[k]>>)]
  /\ options.noColor = FirstWritten(<<flags.noColor, Negated(file.color), "false">>)
  /\ \A k \in ListKeys : ListAsWritten(options.lists[k], k, flags.lists[k], file, dirs)

\* A run departs from the committed file by its flags alone: every key has
\* the flag's value if there is one, else that of the nearest file's block,
\* else of its flat form, else the default; relative locations of the file
\* start at the file, those of a flag at the working directory; and what the
\* file said when it was first read is what counts, for every command.  A file
\* that cannot be read or means nothing to this release ends the run, unless
\* it was only found and is gone again.
FlagsThenFileThenDefault ==
  Answered("start") =>
    LET command == task.command
        disk    == task.disks[1]
    IN  /\ answer.prepared.error = WrittenError(command, disk)
        /\ answer.run.error = "none" =>
             OptionsAsWritten(answer.run.options, command.flags, WrittenFile(command, disk),
                              {p.dir : p \in Governing(command, disk)})

WrittenKubernetes(file) ==
  IF file.kubernetes = NoKubernetes /\ file.flat.kubernetes # <<>>
  THEN file.flat.kubernetes[1] ELSE file.kubernetes

BaseOf(flags, k) ==
  [enabled     |-> FirstWritten(<<flags.kubernetes, k.enabled>>),
   hostNetwork |-> k.hostNetwork,
   request     |-> FirstWritten(<<flags.request, k.request>>),
   limit       |-> FirstWritten(<<flags.limit, k.limit>>)]

PlaceOf(path, base, overrides) ==
  LET Hit(i) == \E p \in ToSet(overrides[i].paths) : Match(p, path)
  IN  IF path = StdinMarker \/ \A i \in DOMAIN overrides : ~Hit(i) THEN base
      ELSE overrides[CHOOSE i \in DOMAIN overrides : Hit(i) /\ \A j \in 1..(i - 1) : ~Hit(j)]

HasValuesOf(env, place) ==
  /\ <<env.hostNetwork, env.request, env.limit>> = <<place.hostNetwork, place.request, place.limit>>
  /\ env.kubernetes <=>
       \/ place.enabled = "true"
       \/ place.enabled = Unset /\ {place.hostNetwork, place.request, place.limit} # {Unset}

\* "what a file resolves to is stated in one place": a path has the values of
\* the first entry that matches it and of no other, standard input those of
\* the defaults; the flags reach the defaults only; a path runs in Kubernetes
\* when that place says so or, saying nothing of it, says anything else.  An
\* entry that could match nothing, or whose sizes mean nothing, ends the run
\* (environmentPolicy, Resolve).
EnvironmentOfOnePlace ==
  Answered("start") /\ answer.run.error = "none" =>
    LET k    == WrittenKubernetes(WrittenFile(task.command, task.disks[1]))
        base == BaseOf(task.command.flags, k)
    IN  /\ \A e \in {base} \cup ToSet(k.overrides) : "bad" \notin {e.request, e.limit}
        /\ \A e \in ToSet(k.overrides) : e.paths # <<>> /\ \A p \in ToSet(e.paths) : p.parses
        /\ \A path \in task.asked :
             HasValuesOf(ResolveEnvironment(answer.run.policy, path), PlaceOf(path, base, k.overrides))

\* The policy in effect is the one written.
PolicyIsAsWritten == FlagsThenFileThenDefault /\ EnvironmentOfOnePlace

-----------------------------------------------------------------------------
(* The files of a tree. *)

\* What a walk from root has to look at: below directories it may enter.
InWalk(tree, root, path) ==
  /\ Len(path) > Len(root) /\ SubSeq(path, 1, Len(root)) = root
  /\ \A n \in Len(root)..(Len(path) - 1) :
       LET above == SubSeq(path, 1, n)
       IN  /\ tree[above].lstat = "dir"
           /\ n > Len(root) => ~SkipDir(Base(above))

\* A scan that succeeds holds each file once: standard input and every named
\* file as it was named, and of every named directory the config files below,
\* those among them that could not be looked at included, so that they are
\* reported; a file is missing only for being excluded, for its name, or for a
\* directory's that is never entered.  A named link to a directory is not
\* followed: it stands for itself if its own name is a config file's, else for
\* nothing, without a word.  A path that is not there, a named directory gone
\* when the walk gets to it and a directory that cannot be listed fail the scan
\* rather than shorten it.
ScanFindsEveryFile ==
  Answered("scan") =>
    LET tree  == task.tree
        asked == ToSet(task.paths) \ {Stdin}
        named == {n.path : n \in asked}
        dirs  == {p \in named \cap DOMAIN tree : tree[p].stat = "dir"}
        links == {n \in asked : n.path \in dirs /\ tree[n.path].lstat = "file"}
        roots == {p \in dirs : tree[p].lstat = "dir"}
        seen  == {p \in DOMAIN tree : \E r \in roots : InWalk(tree, r, p)}
        files == {p \in seen : tree[p].lstat # "dir"}
        found == {f.path : f \in answer.files}
    IN  /\ answer.error # "none" <=>
             \/ \E p \in named : p \notin DOMAIN tree \/ tree[p].stat = "none"
             \/ \E p \in dirs : tree[p].lstat = "none"
             \/ \E p \in roots \cup {s \in seen : ~SkipDir(Base(s))} : tree[p].lstat = "dir" /\ ~tree[p].lists
        /\ answer.error = "none" =>
             /\ \A f, g \in answer.files : f.path = g.path => f = g
             /\ found = (named \ dirs) \cup
                        {p \in files : Wanted(Base(p)) /\ ~Excluded(task.exclude, p)} \cup
                        {n.path : n \in {l \in links : Wanted(Base(l.path)) /\ ~Excluded(task.exclude, AsTyped(l))}} \cup
                        {f.path : f \in {Stdin} \cap ToSet(task.paths)}

\* A run starts from what was written: its policy and its files.
RunStartsAsWritten == PolicyIsAsWritten /\ ScanFindsEveryFile

-----------------------------------------------------------------------------
(* What may be asked.  Patterns and values are whatever they are.  An      *)
(* entry of a tree is listed by the directory it is in, and some entry is  *)
(* as deep as any.                                                         *)
IsList(s) == s \in Seq(ToSet(s))

IsBlock(k) ==
  /\ k = [enabled |-> k.enabled, hostNetwork |-> k.hostNetwork, request |-> k.request,
          limit |-> k.limit, overrides |-> k.overrides]
  /\ IsList(k.overrides)
  /\ \A e \in ToSet(k.overrides) : IsList(e.paths) /\ \A p \in ToSet(e.paths) : p.parses \in BOOLEAN

\* A relative location is read as one from the working directory.
AreLocations(locations) ==
  \A l \in ToSet(locations) : /\ l = [form |-> l.form, at |-> l.at]
                              /\ l.form = "relative" => l.at = WorkingDir

IsFile(file) ==
  /\ file = [scalars |-> file.scalars, lists |-> file.lists, kubernetes |-> file.kubernetes,
             color |-> file.color, flat |-> file.flat]
  /\ \A k \in ListKeys : IsList(file.lists[k]) /\ IsList(file.flat.lists[k])
  /\ AreLocations(file.lists["schemaLocations"]) /\ AreLocations(file.flat.lists["schemaLocations"])
  /\ IsBlock(file.kubernetes)
  /\ IsList(file.flat.kubernetes) /\ \A k \in ToSet(file.flat.kubernetes) : IsBlock(k)

IsDisk(disk) ==
  /\ IsList(disk.chain) /\ disk.chain # <<>>
  /\ \A dir \in ToSet(disk.chain) : dir.files \subseteq {1, 2} /\ dir.git \in BOOLEAN
  /\ disk.read.found \in {"text", "gone", "unreadable"}
  /\ disk.read.found = "text" => IsFile(disk.read.text.file)

IsStart(t) ==
  /\ t.of = "start"
  /\ \A k \in ListKeys : IsList(t.command.flags.lists[k])
  /\ IsList(t.disks) /\ t.disks # <<>> /\ \A disk \in ToSet(t.disks) : IsDisk(disk)

IsTree(tree) ==
  /\ DOMAIN tree \subseteq Seq(Elements) \ {<<>>}
  /\ \A p \in DOMAIN tree :
       /\ {tree[p].stat, tree[p].lstat} \subseteq {"dir", "file", "none"}
       /\ tree[p].lists \in BOOLEAN
       /\ tree[p].names \in Seq(Elements)
       /\ \A i \in DOMAIN tree[p].names : Append(p, tree[p].names[i]) \in DOMAIN tree
       /\ \A n \in 1..(Len(p) - 1) :
            /\ SubSeq(p, 1, n) \in DOMAIN tree
            /\ p[n + 1] \in ToSet(tree[SubSeq(p, 1, n)].names)
  /\ DOMAIN tree = {} \/ \E p \in DOMAIN tree : \A q \in DOMAIN tree : Len(q) <= Len(p)

IsScan(t) ==
  /\ t.of = "scan"
  /\ IsTree(t.tree)
  /\ IsList(t.paths) /\ \A n \in ToSet(t.paths) : n = Spelled(n.path, n.dotted) /\ n.path \in Seq(Elements) \ {<<>>}

StartInit == (IsStart(task) \/ IsScan(task)) /\ answer = Unasked
StartSpec == StartInit /\ [][StartStep]_asking
=============================================================================
