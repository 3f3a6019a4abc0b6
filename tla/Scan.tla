-------------------------------- MODULE Scan --------------------------------
(***************************************************************************)
(* pkg/scanner: which files the paths on a command line stand for, as      *)
(* operators, and the path patterns that excludes and the per-path         *)
(* policies share.                                                         *)
(*                                                                         *)
(* A path is the sequence of its elements.  A directory tree is a function *)
(* from paths to entries.  An entry is looked at twice over: stat, by Scan *)
(* of a path it is given, follows links; lstat, by the walk of everything  *)
(* including its root, does not, and a link is a file to it.  Each says    *)
(* "dir", "file" or, when there is no telling, "none": what a walk sees    *)
(* may change under it, so they need not agree, and a name that is listed  *)
(* may not stat.  A directory can be listed or not, and lists its names in *)
(* order.                                                                  *)
(***************************************************************************)
EXTENDS Integers, Sequences, SequencesExt

CONSTANTS
  Elements,     \* what a path is made of
  StdinMarker,  \* "-", as a path
  Yaml,         \* the names with an extension a walk picks up, in any case
  SkippedNames  \* the names starting with a dot, vendor and node_modules

Base(path) == Last(path)

\* A pattern: what it matches as a glob, among names and whole paths; whether
\* it has a star; the elements that contain what is left of it without its
\* outer stars; whether it parses.
Match(pattern, path) ==
  \/ Base(path) \in pattern.globs
  \/ path \in pattern.paths
  \/ pattern.star /\ \E i \in DOMAIN path : path[i] \in pattern.inside

CheckPattern(pattern) == IF pattern.parses THEN "none" ELSE "pattern"

Wanted(name) == name \in Yaml
Excluded(exclude, path) == \E p \in exclude : Match(p, path)
SkipDir(name) == name \in SkippedNames

\* filepath.Clean: "./x" and "x" are one path.
Spelled(path, dotted) == [path |-> path, dotted |-> dotted]
Clean(named) == [named EXCEPT !.dotted = FALSE]

\* insert: the name is all it goes on.
Insert(exclude, path) ==
  IF ~Wanted(Base(path)) \/ Excluded(exclude, path) THEN {} ELSE {Spelled(path, FALSE)}

\* What looking somewhere comes to: the files found, or why it failed.
Going(files) == [error |-> "none", files |-> files]
Failed(why)  == [error |-> why, files |-> {}]

\* One after the other, as far as the first that fails.
Failing(parts) == {i \in DOMAIN parts : parts[i].error # "none"}
InTurn(parts) ==
  IF Failing(parts) = {} THEN Going(UNION {parts[i].files : i \in DOMAIN parts})
  ELSE Failed(parts[CHOOSE i \in Failing(parts) : \A j \in Failing(parts) : i <= j].error)

-----------------------------------------------------------------------------
(* The walk. *)

\* afero.Walk calls back with the entry's info, or with the error that kept it
\* from having one.  An entry that cannot be stat'd comes without info: below
\* the root it is inserted by its name.
NoInfoEndsScan(exclude, path, root) == Failed("walk")
NoInfo(exclude, path, root) ==
  IF path = root THEN Failed("walk") ELSE Going(Insert(exclude, path))

\* A directory that cannot be listed comes with its info and ends the scan.
NoListingPassedOver == Going({})
NoListing == Failed("walk")

Walk(tree, exclude, root) ==
  LET walk[path \in DOMAIN tree] ==
        LET entry == tree[path]
        IN  IF entry.lstat = "none" THEN NoInfo(exclude, path, root)
            ELSE IF entry.lstat = "file" THEN Going(Insert(exclude, path))
            ELSE IF path # root /\ SkipDir(Base(path)) THEN Going({})
            ELSE IF ~entry.lists THEN NoListing
            ELSE InTurn([i \in DOMAIN entry.names |-> walk[Append(path, entry.names[i])]])
  IN  walk[root]

-----------------------------------------------------------------------------
(* Scan. *)

\* The marker is taken as it is written: "./-" is looked up as a file, though
\* what is kept of it, cleaned, is spelled like the marker again.
Stdin == Spelled(StdinMarker, FALSE)

\* A named file is kept whatever its name and whatever is excluded.
NamedIfWanted(exclude, named) == Insert(exclude, named.path)
NamedAsSpelled(exclude, named) == {named}
NamedFile(exclude, named) == {Clean(named)}

\* A named link to a directory is one to Stat and none to the walk, which goes
\* no further than the link: a file like any other it meets, though its path
\* is not cleaned before the excludes are tried on it.
AsTyped(named) == IF named.dotted THEN <<".">> \o named.path ELSE named.path
LinkedAsNamed(exclude, named) == NamedFile(exclude, named)
LinkedRoot(exclude, named) ==
  IF ~Wanted(Base(named.path)) \/ Excluded(exclude, AsTyped(named)) THEN {} ELSE {Clean(named)}

ScanPath(tree, exclude, named) ==
  IF named = Stdin THEN Going({named})
  ELSE IF named.path \notin DOMAIN tree \/ tree[named.path].stat = "none" THEN Failed("read")
  ELSE IF tree[named.path].stat = "file" THEN Going(NamedFile(exclude, named))
  ELSE IF tree[named.path].lstat = "file" THEN Going(LinkedRoot(exclude, named))
  ELSE Walk(tree, exclude, named.path)

ScanAll(tree, exclude, paths) ==
  InTurn([i \in DOMAIN paths |-> ScanPath(tree, exclude, paths[i])])
=============================================================================
