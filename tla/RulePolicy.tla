----------------------------- MODULE RulePolicy -----------------------------
(***************************************************************************)
(* Which rules run on a file, and at which level: the settings file's      *)
(* rules block and the command's rule flags (pkg/settings/rules.go,        *)
(* overrides.go), held to the rules there are (pkg/ruleset/selection.go),  *)
(* and the view of them one file gets (pkg/lint/policy.go).                *)
(*                                                                         *)
(* A map from rule names to levels is a function on a set of names, and    *)
(* maps.Copy(m, over) is over @@ m.  Lists of names are sets.  A settings  *)
(* file is a record [default, enable, disable, severity, overrides], flags *)
(* are one without overrides, and an override is [paths, disable,          *)
(* severity], its paths the files its patterns match.                      *)
(***************************************************************************)
EXTENDS Integers, Sequences, FiniteSets

CONSTANTS
  RuleList,  \* the built-in rules, in the order they run
  OwnLevel,  \* OwnLevel[r]: the severity r reports at unless told otherwise
  Ignorable, \* the rule --ignore-missing-schemas silences
  Stdin      \* scanner.StdinMarker

Rules    == {RuleList[i] : i \in DOMAIN RuleList}
Severity == {"error", "warning", "info", "off"}

ASSUME RuleAssumption ==
  /\ RuleList \in Seq(STRING)
  /\ OwnLevel \in [Rules -> Severity \ {"off"}]
  /\ Ignorable \in Rules

\* diag.Severity.AtLeast, by rank.
Rank(s) == CASE s = "error" -> 0 [] s = "warning" -> 1 [] s = "info" -> 2 [] OTHER -> 3
AtLeast(s, floor) == Rank(s) <= Rank(floor)

\* m with over copied into it.
Copied(over, m) ==
  [r \in DOMAIN over \cup DOMAIN m |-> IF r \in DOMAIN over THEN over[r] ELSE m[r]]

AllAt(level, names) == [r \in names |-> level]
Without(m, names)   == [r \in DOMAIN m \ names |-> m[r]]

-----------------------------------------------------------------------------
(* ruleset.Resolve *)

\* A starting set not on offer, a rule named on both sides, or no such rule.
RejectedAnyName(sel) ==
  \/ sel.default \notin {"unset", "all", "none"}
  \/ sel.enable \cap sel.disable # {}
Rejected(sel) ==
  \/ sel.default \notin {"unset", "all", "none"}
  \/ sel.enable \cap sel.disable # {}
  \/ ~ (sel.enable \cup sel.disable \cup DOMAIN sel.severity \subseteq Rules)

\* The default set, then enable, then disable, then the levels.
Resolve(sel) ==
  Copied(sel.severity,
    Copied(AllAt("off", sel.disable),
      Copied([r \in sel.enable |-> OwnLevel[r]],
             IF sel.default = "none" THEN AllAt("off", Rules) ELSE AllAt("off", {}))))

-----------------------------------------------------------------------------
(* settings.File *)

\* RuleSelection: the lists merge, and a flag's level wins over the file's.
RuleSelection(file, flags) ==
  [default  |-> IF flags.default = "unset" THEN file.default ELSE flags.default,
   enable   |-> file.enable \cup flags.enable,
   disable  |-> file.disable \cup flags.disable,
   severity |-> Copied(flags.severity, file.severity)]

\* overrideLevels: an override disables and relevels, no more.
AsSelection(over) ==
  [default |-> "unset", enable |-> {}, disable |-> over.disable, severity |-> over.severity]
OverrideRejected(over) == over.paths = {} \/ Rejected(AsSelection(over))
OverrideLevels(over) == Resolve(AsSelection(over))

PolicyRejected(file, flags) ==
  \/ \E i \in DOMAIN file.overrides : OverrideRejected(file.overrides[i])
  \/ ~ (DOMAIN file.severity \cup DOMAIN flags.severity \subseteq Rules)

\* The entry that decides for a path is the first one that matches it.
Deciding(file, path) ==
  {i \in DOMAIN file.overrides :
     /\ path \in file.overrides[i].paths
     /\ \A j \in 1..(i - 1) : path \notin file.overrides[j].paths}

\* What the file's overrides say of a path.  Standard input has none, and
\* names the flags enable or disable are left out.
Exceptions(file, flags, path) ==
  IF path = Stdin \/ Deciding(file, path) = {}
  THEN AllAt("off", {})
  ELSE LET over == file.overrides[CHOOSE i \in Deciding(file, path) : TRUE]
       IN  Without(OverrideLevels(over), flags.enable \cup flags.disable)

\* RulePolicy: the file's levels, then the exceptions, then the flags' levels.
Policy(file, flags, path) ==
  Copied(flags.severity, Copied(Exceptions(file, flags, path), file.severity))

-----------------------------------------------------------------------------
(* lint.Linter *)

\* New: the ignorable rule is silenced unless something named it.
Global(sel, ignoreMissing) ==
  LET resolved == Resolve(sel)
  IN  IF ignoreMissing /\ Ignorable \notin DOMAIN resolved
      THEN Copied(AllAt("off", {Ignorable}), resolved)
      ELSE resolved

IsOff(levels, r) == r \in DOMAIN levels /\ levels[r] = "off"

\* forPath: what the policy says of a rule counts unless it is globally off.
ExplicitAnyway(global, policy) == policy
Explicit(global, policy) == Without(policy, {r \in DOMAIN policy : IsOff(global, r)})
ForPath(global, policy)  == Copied(Explicit(global, policy), global)

\* SeverityFor
LevelOf(levels, r) == IF r \in DOMAIN levels THEN levels[r] ELSE OwnLevel[r]
=============================================================================
