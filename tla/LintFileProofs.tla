--------------------------- MODULE LintFileProofs ---------------------------
(***************************************************************************)
(* For any rules, settings, flags and files: a file is checked at the      *)
(* levels the documentation promises, and a Result that is no error is the *)
(* whole verdict on the file.  Then what becomes of the results: for any   *)
(* of them, and any options, the reports of a run say what was found.      *)
(* Last what some of the findings say: for any config the advice on its    *)
(* pipelines is warranted, complete and can be taken.                      *)
(***************************************************************************)
EXTENDS LintFile, Reports, Pipelines, FiniteSetTheorems, SequenceTheorems,
        WellFoundedInduction, TLAPS

-----------------------------------------------------------------------------
(* Maps. *)

\* A map copied into another decides where it is defined, the other elsewhere.
LEMMA CopiedDomain ==
  ASSUME NEW f, NEW g
  PROVE  DOMAIN Copied(f, g) = DOMAIN f \cup DOMAIN g
  BY DEF Copied

LEMMA CopiedOver ==
  ASSUME NEW f, NEW g, NEW r, r \in DOMAIN f
  PROVE  r \in DOMAIN Copied(f, g) /\ Copied(f, g)[r] = f[r]
  BY DEF Copied

LEMMA CopiedUnder ==
  ASSUME NEW f, NEW g, NEW r, r \notin DOMAIN f
  PROVE  /\ r \in DOMAIN Copied(f, g) <=> r \in DOMAIN g
         /\ r \in DOMAIN g => Copied(f, g)[r] = g[r]
  BY DEF Copied

-----------------------------------------------------------------------------
(* The levels. *)

\* Where a map read from the selection says something of a rule, it is one of
\* four things, in this order.
LEMMA ResolveLevel ==
  ASSUME NEW sel, NEW r \in Rules
  PROVE  /\ r \in DOMAIN sel.severity => r \in DOMAIN Resolve(sel) /\ Resolve(sel)[r] = sel.severity[r]
         /\ r \notin DOMAIN sel.severity =>
              /\ r \in sel.disable => r \in DOMAIN Resolve(sel) /\ Resolve(sel)[r] = "off"
              /\ r \notin sel.disable =>
                   /\ r \in sel.enable => r \in DOMAIN Resolve(sel) /\ Resolve(sel)[r] = OwnLevel[r]
                   /\ r \notin sel.enable =>
                        /\ sel.default = "none" => r \in DOMAIN Resolve(sel) /\ Resolve(sel)[r] = "off"
                        /\ sel.default # "none" => r \notin DOMAIN Resolve(sel)
<1> DEFINE none == IF sel.default = "none" THEN AllAt("off", Rules) ELSE AllAt("off", {})
           en   == Copied([x \in sel.enable |-> OwnLevel[x]], none)
           dis  == Copied(AllAt("off", sel.disable), en)
<1>1. Resolve(sel) = Copied(sel.severity, dis)
  BY DEF Resolve
<1>2. /\ sel.default = "none" => r \in DOMAIN none /\ none[r] = "off"
      /\ sel.default # "none" => r \notin DOMAIN none
  BY DEF AllAt
<1>3. /\ r \in sel.enable => r \in DOMAIN en /\ en[r] = OwnLevel[r]
      /\ r \notin sel.enable =>
           /\ sel.default = "none" => r \in DOMAIN en /\ en[r] = "off"
           /\ sel.default # "none" => r \notin DOMAIN en
  <2> HIDE DEF none
  <2> QED BY <1>2, CopiedOver, CopiedUnder
<1>4. /\ r \in sel.disable => r \in DOMAIN dis /\ dis[r] = "off"
      /\ r \notin sel.disable =>
           /\ r \in sel.enable => r \in DOMAIN dis /\ dis[r] = OwnLevel[r]
           /\ r \notin sel.enable =>
                /\ sel.default = "none" => r \in DOMAIN dis /\ dis[r] = "off"
                /\ sel.default # "none" => r \notin DOMAIN dis
  <2>1. DOMAIN AllAt("off", sel.disable) = sel.disable
        /\ (r \in sel.disable => AllAt("off", sel.disable)[r] = "off")
    BY DEF AllAt
  <2> HIDE DEF en
  <2> QED BY <1>3, <2>1, CopiedOver, CopiedUnder
<1> HIDE DEF dis
<1> QED BY <1>1, <1>4, CopiedOver, CopiedUnder

\* What New makes of the merged selection is what is promised of it.
LEMMA GlobalIsPromised ==
  ASSUME NEW c, NEW r \in Rules
  PROVE  LevelOf(Global(Selection(c), c.ignoreMissing), r) = PromisedGlobal(c, r)
<1> DEFINE sel == Selection(c)
           res == Resolve(sel)
           ign == c.ignoreMissing /\ Ignorable \notin DOMAIN res
<1>1. /\ sel.default = Starting(c)
      /\ sel.enable = c.file.enable \cup c.flags.enable
      /\ sel.disable = c.file.disable \cup c.flags.disable
      /\ sel.severity = Copied(c.flags.severity, c.file.severity)
  BY DEF Selection, RuleSelection, Starting
<1>2. /\ r \in DOMAIN c.flags.severity => r \in DOMAIN sel.severity /\ sel.severity[r] = c.flags.severity[r]
      /\ r \notin DOMAIN c.flags.severity =>
           /\ r \in DOMAIN sel.severity <=> r \in DOMAIN c.file.severity
           /\ r \in DOMAIN c.file.severity => sel.severity[r] = c.file.severity[r]
  BY <1>1, CopiedOver, CopiedUnder
<1>3. Global(sel, c.ignoreMissing) = IF ign THEN Copied(AllAt("off", {Ignorable}), res) ELSE res
  BY DEF Global
<1>0. /\ r \in DOMAIN sel.severity => r \in DOMAIN res /\ res[r] = sel.severity[r]
      /\ r \notin DOMAIN sel.severity =>
           /\ r \in sel.disable => r \in DOMAIN res /\ res[r] = "off"
           /\ r \notin sel.disable =>
                /\ r \in sel.enable => r \in DOMAIN res /\ res[r] = OwnLevel[r]
                /\ r \notin sel.enable =>
                     /\ sel.default = "none" => r \in DOMAIN res /\ res[r] = "off"
                     /\ sel.default # "none" => r \notin DOMAIN res
  BY ResolveLevel
<1>4. CASE r \in DOMAIN res
  <2>1. LevelOf(Global(sel, c.ignoreMissing), r) = res[r]
    <3>1. CASE ign
      <4>1. r \notin DOMAIN AllAt("off", {Ignorable})
        BY <1>4, <3>1 DEF AllAt
      <4> HIDE DEF res
      <4> QED BY <1>3, <1>4, <3>1, <4>1, CopiedUnder DEF LevelOf
    <3>2. CASE ~ign
      BY <1>3, <1>4, <3>2 DEF LevelOf
    <3> QED BY <3>1, <3>2
  <2> HIDE DEF sel, res
  <2>2. res[r] = PromisedGlobal(c, r)
    BY <1>0, <1>1, <1>2, <1>4 DEF PromisedGlobal
  <2> QED BY <2>1, <2>2 DEF sel
<1>5. CASE r \notin DOMAIN res
  <2>1. LevelOf(Global(sel, c.ignoreMissing), r)
          = IF c.ignoreMissing /\ r = Ignorable THEN "off" ELSE OwnLevel[r]
    <3>1. CASE ign
      <4>1. /\ r \in DOMAIN AllAt("off", {Ignorable}) <=> r = Ignorable
            /\ r = Ignorable => AllAt("off", {Ignorable})[r] = "off"
        BY DEF AllAt
      <4> HIDE DEF res
      <4> QED BY <1>3, <1>5, <3>1, <4>1, CopiedOver, CopiedUnder DEF LevelOf
    <3>2. CASE ~ign
      BY <1>3, <1>5, <3>2 DEF LevelOf
    <3> QED BY <3>1, <3>2
  <2> HIDE DEF sel, res
  <2>2. PromisedGlobal(c, r) = IF c.ignoreMissing /\ r = Ignorable THEN "off" ELSE OwnLevel[r]
    BY <1>0, <1>1, <1>2, <1>5 DEF PromisedGlobal
  <2> QED BY <2>1, <2>2 DEF sel
<1> QED BY <1>4, <1>5

\* What an override says of a rule: its level, or off, or nothing.
LEMMA OverrideLevel ==
  ASSUME NEW over, NEW r \in Rules
  PROVE  /\ r \in DOMAIN OverrideLevels(over) <=> r \in over.disable \cup DOMAIN over.severity
         /\ r \in DOMAIN OverrideLevels(over) =>
              OverrideLevels(over)[r] = IF r \in DOMAIN over.severity THEN over.severity[r] ELSE "off"
<1> DEFINE sel == AsSelection(over)
<1>1. /\ sel.default # "none" /\ sel.enable = {}
      /\ sel.disable = over.disable /\ sel.severity = over.severity
      /\ OverrideLevels(over) = Resolve(sel)
  BY DEF AsSelection, OverrideLevels
<1> HIDE DEF sel
<1> QED BY <1>1, ResolveLevel

\* The exceptions a policy holds for a path are the promised ones.
LEMMA ExceptionIsPromised ==
  ASSUME NEW c \in Cases, NEW r \in Rules
  PROVE  LET e == Exceptions(c.file, c.flags, c.path)
         IN  /\ r \in DOMAIN e => ExceptionFor(c, r) = {e[r]}
             /\ r \notin DOMAIN e => ExceptionFor(c, r) = {}
<1> DEFINE o == c.file.overrides
           D == Deciding(c.file, c.path)
           e == Exceptions(c.file, c.flags, c.path)
           k == CHOOSE i \in D : TRUE
           says(x) == IF r \in DOMAIN x.severity THEN x.severity[r] ELSE "off"
           named(x) == r \in x.disable \cup DOMAIN x.severity
           free == r \notin c.flags.enable \cup c.flags.disable
<1>1. DOMAIN o = 1..Len(o) /\ Len(o) \in Nat
  BY CaseAssumption DEF IsSeq
<1>2. \A i, j \in D : i = j
  <2> SUFFICES ASSUME NEW i \in D, NEW j \in D, i # j PROVE FALSE
    OBVIOUS
  <2>1. /\ i \in Nat /\ j \in Nat
        /\ c.path \in o[i].paths /\ c.path \in o[j].paths
        /\ \A n \in 1..(i - 1) : c.path \notin o[n].paths
        /\ \A n \in 1..(j - 1) : c.path \notin o[n].paths
        /\ i >= 1 /\ j >= 1
    BY <1>1 DEF Deciding
  <2>2. j \in 1..(i - 1) \/ i \in 1..(j - 1)
    BY <2>1
  <2> QED BY <2>1, <2>2
<1>3. ExceptionFor(c, r) =
        {says(x) : x \in {o[i] : i \in {n \in D : c.path # Stdin /\ named(o[n]) /\ free}}}
  <2>1. {n \in D : c.path # Stdin /\ named(o[n]) /\ free}
          = {n \in DOMAIN o : /\ c.path # Stdin
                              /\ c.path \in o[n].paths
                              /\ \A j \in 1..(n - 1) : c.path \notin o[j].paths
                              /\ r \in o[n].disable \cup DOMAIN o[n].severity
                              /\ r \notin c.flags.enable \cup c.flags.disable}
    BY DEF Deciding
  <2> QED BY <2>1 DEF ExceptionFor
<1>4. CASE c.path = Stdin \/ D = {}
  <2>1. e = AllAt("off", {})
    BY <1>4 DEF Exceptions
  <2>2. r \notin DOMAIN e
    BY <2>1 DEF AllAt
  <2>3. ExceptionFor(c, r) = {}
    BY <1>3, <1>4
  <2> QED BY <2>2, <2>3
<1>5. CASE ~ (c.path = Stdin \/ D = {})
  <2>1. k \in D /\ D = {k}
    BY <1>2, <1>5
  <2>2. e = Without(OverrideLevels(o[k]), c.flags.enable \cup c.flags.disable)
    BY <1>5 DEF Exceptions
  <2>3. /\ r \in DOMAIN e <=> named(o[k]) /\ free
        /\ r \in DOMAIN e => e[r] = says(o[k])
    BY <2>2, OverrideLevel DEF Without
  <2>4. {n \in D : c.path # Stdin /\ named(o[n]) /\ free} = IF named(o[k]) /\ free THEN {k} ELSE {}
    BY <1>5, <2>1
  <2>5. ExceptionFor(c, r) = IF named(o[k]) /\ free THEN {says(o[k])} ELSE {}
    <3> DEFINE N == {n \in D : c.path # Stdin /\ named(o[n]) /\ free}
    <3>1. ExceptionFor(c, r) = {says(x) : x \in {o[i] : i \in N}}
      BY <1>3
    <3>2. N = IF named(o[k]) /\ free THEN {k} ELSE {}
      BY <2>4
    <3> HIDE DEF N, D, k, says, named, free, o
    <3> QED BY <3>1, <3>2
  <2> HIDE DEF D, k, e
  <2> QED BY <2>3, <2>5 DEF e
<1> QED BY <1>4, <1>5

\* A file's view of the Linter holds the promised levels, and its explicit
\* ones are those written for it.
LEMMA ViewIsPromised ==
  ASSUME NEW c \in Cases, NEW r \in Rules
  PROVE  LET g == Global(Selection(c), c.ignoreMissing)
             p == Policy(c.file, c.flags, c.path)
             x == Explicit(g, p)
         IN  /\ LevelOf(ForPath(g, p), r) = PromisedLevel(c, r)
             /\ PromisedLevel(c, r) # "off" =>
                  /\ r \in DOMAIN x <=> Written(c, r)
                  /\ r \in DOMAIN x => x[r] = PromisedLevel(c, r)
<1> DEFINE g == Global(Selection(c), c.ignoreMissing)
           e == Exceptions(c.file, c.flags, c.path)
           p == Policy(c.file, c.flags, c.path)
           x == Explicit(g, p)
<1>1. LevelOf(g, r) = PromisedGlobal(c, r)
  BY GlobalIsPromised
<1>2. /\ r \in DOMAIN e => ExceptionFor(c, r) = {e[r]}
      /\ r \notin DOMAIN e => ExceptionFor(c, r) = {}
  BY ExceptionIsPromised
<1>3. p = Copied(c.flags.severity, Copied(e, c.file.severity))
  BY DEF Policy
<1>4. /\ r \in DOMAIN c.flags.severity => r \in DOMAIN p /\ p[r] = c.flags.severity[r]
      /\ r \notin DOMAIN c.flags.severity =>
           /\ r \in DOMAIN e => r \in DOMAIN p /\ p[r] = e[r]
           /\ r \notin DOMAIN e =>
                /\ r \in DOMAIN p <=> r \in DOMAIN c.file.severity
                /\ r \in DOMAIN c.file.severity => p[r] = c.file.severity[r]
  <2> HIDE DEF e, p
  <2>1. /\ r \in DOMAIN e => r \in DOMAIN Copied(e, c.file.severity)
                             /\ Copied(e, c.file.severity)[r] = e[r]
        /\ r \notin DOMAIN e =>
             /\ r \in DOMAIN Copied(e, c.file.severity) <=> r \in DOMAIN c.file.severity
             /\ r \in DOMAIN c.file.severity => Copied(e, c.file.severity)[r] = c.file.severity[r]
    BY CopiedOver, CopiedUnder
  <2> QED BY <1>3, <2>1, CopiedOver, CopiedUnder
<1>5. /\ r \in DOMAIN x <=> r \in DOMAIN p /\ ~IsOff(g, r)
      /\ r \in DOMAIN x => x[r] = p[r]
  BY DEF Explicit, Without
<1>6. ForPath(g, p) = Copied(x, g)
  BY DEF ForPath
<1>7. LevelOf(ForPath(g, p), r) = IF r \in DOMAIN p /\ ~IsOff(g, r) THEN p[r] ELSE LevelOf(g, r)
  <2> HIDE DEF x, g, p
  <2> QED BY <1>5, <1>6, CopiedOver, CopiedUnder DEF LevelOf
<1>8. IsOff(g, r) <=> PromisedGlobal(c, r) = "off"
  <2>1. OwnLevel[r] # "off"
    BY RuleAssumption
  <2> HIDE DEF g
  <2> QED BY <1>1, <2>1 DEF IsOff, LevelOf
<1>9. PromisedLevel(c, r) =
        IF r \in DOMAIN c.flags.severity \/ PromisedGlobal(c, r) = "off" \/ r \notin DOMAIN e
        THEN PromisedGlobal(c, r) ELSE e[r]
  <2> HIDE DEF e
  <2> QED BY <1>2 DEF PromisedLevel
<1>10. /\ r \in DOMAIN c.flags.severity => PromisedGlobal(c, r) = c.flags.severity[r]
       /\ r \notin DOMAIN c.flags.severity /\ r \in DOMAIN c.file.severity =>
            PromisedGlobal(c, r) = c.file.severity[r]
  BY DEF PromisedGlobal
<1>11. Written(c, r) <=> r \in DOMAIN p
  <2> HIDE DEF e, p
  <2> QED BY <1>2, <1>4 DEF Written
<1> HIDE DEF g, e, p, x
<1>12. LevelOf(ForPath(g, p), r) = PromisedLevel(c, r)
  BY <1>1, <1>4, <1>7, <1>8, <1>9, <1>10
<1>13. PromisedLevel(c, r) # "off" =>
         /\ r \in DOMAIN x <=> Written(c, r)
         /\ r \in DOMAIN x => x[r] = PromisedLevel(c, r)
  <2>1. IsOff(g, r) => LevelOf(g, r) = "off"
    BY DEF IsOff, LevelOf
  <2> QED BY <2>1, <1>5, <1>7, <1>11, <1>12
<1> QED BY <1>12, <1>13 DEF g, p, x

-----------------------------------------------------------------------------
(* Findings and verdicts. *)

\* The verdict on a set of findings.
Verdict(c, all) ==
  Result(IF \E d \in all : AtLeast(d.severity, c.failOn) THEN "invalid" ELSE "valid",
         {d \in all : AtLeast(d.severity, c.minSeverity)})

\* The promised findings of the first k rules in one config.
FindingsUpTo(c, p, k) ==
  BadDirectives(p, ConfigAt(c, p))
    \cup UNION {Surviving(c, p, ConfigAt(c, p), RuleList[i]) : i \in 1..k}

\* What lintConfig should return for one config.
Checked(c, p) ==
  IF ConfigAt(c, p).broken THEN Result("invalid", {SyntaxFinding(p)}) ELSE Verdict(c, Findings(c, p))

LEMMA AddToVerdict ==
  ASSUME NEW A, NEW B
  PROVE  AddFindings(Verdict(case, A), B) = Verdict(case, A \cup B)
<1> DEFINE old == Verdict(case, A)
<1>1. /\ old.status = IF \E d \in A : AtLeast(d.severity, case.failOn) THEN "invalid" ELSE "valid"
      /\ old.diagnostics = {d \in A : AtLeast(d.severity, case.minSeverity)}
  BY DEF Verdict, Result
<1>2. ASSUME NEW d \in B
      PROVE  /\ AddFinding(old, d).status = IF AtLeast(d.severity, case.failOn) THEN "invalid" ELSE old.status
             /\ AddFinding(old, d).diagnostics
                  = IF AtLeast(d.severity, case.minSeverity) THEN old.diagnostics \cup {d} ELSE old.diagnostics
  BY DEF AddFinding, Result
<1> HIDE DEF old
<1>3. (IF \E d \in B : AddFinding(old, d).status = "invalid" THEN "invalid" ELSE old.status)
        = IF \E d \in A \cup B : AtLeast(d.severity, case.failOn) THEN "invalid" ELSE "valid"
  BY <1>1, <1>2
<1>4. old.diagnostics \cup UNION {AddFinding(old, d).diagnostics : d \in B}
        = {d \in A \cup B : AtLeast(d.severity, case.minSeverity)}
  <2>1. ASSUME NEW d \in B
        PROVE  old.diagnostics \cup AddFinding(old, d).diagnostics
                 = old.diagnostics \cup {e \in {d} : AtLeast(e.severity, case.minSeverity)}
    BY <1>2
  <2>2. old.diagnostics \cup UNION {AddFinding(old, d).diagnostics : d \in B}
          = old.diagnostics \cup {e \in B : AtLeast(e.severity, case.minSeverity)}
    <3>1. ASSUME NEW x, x \in UNION {AddFinding(old, d).diagnostics : d \in B}
          PROVE  x \in old.diagnostics \/ (x \in B /\ AtLeast(x.severity, case.minSeverity))
      BY <1>2, <3>1
    <3>2. ASSUME NEW x \in B, AtLeast(x.severity, case.minSeverity)
          PROVE  x \in UNION {AddFinding(old, d).diagnostics : d \in B}
      <4>1. x \in AddFinding(old, x).diagnostics
        BY <1>2, <3>2
      <4> QED BY <4>1
    <3> QED BY <3>1, <3>2
  <2> QED BY <1>1, <2>2
<1> QED BY <1>3, <1>4 DEF AddFindings, Verdict, old

LEMMA AddToNothing ==
  ASSUME NEW B
  PROVE  AddFindings(Result("valid", {}), B) = Verdict(case, B)
<1>1. Result("valid", {}) = Verdict(case, {})
  BY DEF Verdict
<1>2. {} \cup B = B
  OBVIOUS
<1> QED BY <1>1, <1>2, AddToVerdict

LEMMA FindingsStep ==
  ASSUME NEW c, NEW p
  PROVE  /\ FindingsUpTo(c, p, 0) = BadDirectives(p, ConfigAt(c, p))
         /\ \A k \in Nat : FindingsUpTo(c, p, k + 1)
              = FindingsUpTo(c, p, k) \cup Surviving(c, p, ConfigAt(c, p), RuleList[k + 1])
         /\ FindingsUpTo(c, p, Len(RuleList)) = Findings(c, p)
<1> DEFINE S(i) == Surviving(c, p, ConfigAt(c, p), RuleList[i])
<1>1. FindingsUpTo(c, p, 0) = BadDirectives(p, ConfigAt(c, p))
  BY DEF FindingsUpTo
<1>2. ASSUME NEW k \in Nat
      PROVE  UNION {S(i) : i \in 1..(k + 1)} = (UNION {S(i) : i \in 1..k}) \cup S(k + 1)
  <2>1. 1..(k + 1) = 1..k \cup {k + 1}
    OBVIOUS
  <2> HIDE DEF S
  <2> QED BY <2>1
<1>3. UNION {S(i) : i \in 1..Len(RuleList)}
        = UNION {Surviving(c, p, ConfigAt(c, p), r) : r \in Rules}
  <2>1. DOMAIN RuleList = 1..Len(RuleList)
    BY RuleAssumption
  <2>2. {S(i) : i \in 1..Len(RuleList)} = {Surviving(c, p, ConfigAt(c, p), r) : r \in Rules}
    BY <2>1 DEF Rules
  <2> QED BY <2>2
<1>4. ASSUME NEW k \in Nat
      PROVE  FindingsUpTo(c, p, k + 1) = FindingsUpTo(c, p, k) \cup S(k + 1)
  BY <1>2 DEF FindingsUpTo
<1>5. FindingsUpTo(c, p, Len(RuleList)) = Findings(c, p)
  BY <1>3 DEF FindingsUpTo, Findings
<1> QED BY <1>1, <1>4, <1>5

LEMMA MergeResults ==
  ASSUME NEW s, NEW A, NEW t, NEW B
  PROVE  /\ s = "skipped" \/ t = "invalid" => Merged(Result(s, A), Result(t, B)) = Result(t, A \cup B)
         /\ ~ (s = "skipped" \/ t = "invalid") => Merged(Result(s, A), Result(t, B)) = Result(s, A \cup B)
<1>1. /\ Result(s, A).status = s /\ Result(s, A).diagnostics = A
      /\ Result(t, B).status = t /\ Result(t, B).diagnostics = B
  BY DEF Result
<1> QED BY <1>1 DEF Merged

\* One more config checked and merged is what is promised of one more place.
LEMMA MergeOne ==
  ASSUME NEW c, NEW P, NEW p, p \notin P
  PROVE  /\ PromisedOf(c, P \cup {p}) = Merged(PromisedOf(c, P), Checked(c, p))
         /\ PromisedOf(c, {p}) = Checked(c, p)
<1> DEFINE whole(Q) == {q \in Q : ~ConfigAt(c, q).broken}
           all(Q)   == UNION {Findings(c, q) : q \in whole(Q)}
           bad(Q)   == \E d \in all(Q) : AtLeast(d.severity, c.failOn)
           shown(Q) == {d \in all(Q) : AtLeast(d.severity, c.minSeverity)}
           syn(Q)   == {SyntaxFinding(q) : q \in Q \ whole(Q)}
<1>1. ASSUME NEW Q
      PROVE  PromisedOf(c, Q) = IF Q = {} THEN Skipped
               ELSE Result(IF whole(Q) # Q \/ bad(Q) THEN "invalid" ELSE "valid", shown(Q) \cup syn(Q))
  BY DEF PromisedOf
<1>2. CASE ConfigAt(c, p).broken
  <2>1. ASSUME NEW Q, p \notin Q
        PROVE  whole(Q \cup {p}) = whole(Q) /\ whole(Q) # Q \cup {p}
    BY <1>2, <2>1
  <2>2. ASSUME NEW Q, p \notin Q
        PROVE  all(Q \cup {p}) = all(Q) /\ syn(Q \cup {p}) = syn(Q) \cup {SyntaxFinding(p)}
    <3>1. (Q \cup {p}) \ whole(Q \cup {p}) = (Q \ whole(Q)) \cup {p}
      BY <2>1, <2>2
    <3> QED BY <2>1, <2>2, <3>1
  <2>3. Checked(c, p) = Result("invalid", {SyntaxFinding(p)})
    BY <1>2 DEF Checked
  <2>4. /\ whole({p}) = {} /\ {} \cup {p} = {p} /\ whole({}) = {} /\ all({}) = {} /\ syn({}) = {}
    BY <1>2
  <2>5. PromisedOf(c, {p}) = Checked(c, p)
    <3>1. all({p}) = {} /\ syn({p}) = {SyntaxFinding(p)} /\ whole({p}) # {p}
      BY <2>4
    <3>2. shown({p}) = {}
      BY <3>1
    <3> HIDE DEF whole, all, syn, shown
    <3> QED BY <1>1, <2>3, <3>1, <3>2
  <2>6. CASE P = {}
    <3>1. PromisedOf(c, P) = Skipped /\ P \cup {p} = {p}
      BY <2>6 DEF PromisedOf
    <3> QED BY <2>3, <2>5, <3>1 DEF Merged, Skipped, Result
  <2>7. CASE P # {}
    <3>1. shown(P \cup {p}) = shown(P)
      BY <2>2
    <3>2. PromisedOf(c, P \cup {p}) = Result("invalid", shown(P) \cup (syn(P) \cup {SyntaxFinding(p)}))
      <4> HIDE DEF whole, all, syn, shown, bad
      <4> QED BY <1>1, <2>1, <2>2, <3>1
    <3> HIDE DEF whole, all, syn, shown, bad
    <3>3. PromisedOf(c, P)
            = Result(IF whole(P) # P \/ bad(P) THEN "invalid" ELSE "valid", shown(P) \cup syn(P))
      BY <1>1, <2>7
    <3>4. Merged(PromisedOf(c, P), Checked(c, p))
            = Result("invalid", (shown(P) \cup syn(P)) \cup {SyntaxFinding(p)})
      <4> DEFINE s == IF whole(P) # P \/ bad(P) THEN "invalid" ELSE "valid"
                 A == shown(P) \cup syn(P)
      <4>1. PromisedOf(c, P) = Result(s, A)
        BY <3>3
      <4> HIDE DEF s, A
      <4>2. Merged(Result(s, A), Result("invalid", {SyntaxFinding(p)}))
              = Result("invalid", A \cup {SyntaxFinding(p)})
        BY MergeResults
      <4> QED BY <2>3, <4>1, <4>2 DEF A
    <3>5. shown(P) \cup (syn(P) \cup {SyntaxFinding(p)}) = (shown(P) \cup syn(P)) \cup {SyntaxFinding(p)}
      OBVIOUS
    <3>6. PromisedOf(c, P \cup {p}) = Merged(PromisedOf(c, P), Checked(c, p))
      BY <3>2, <3>4, <3>5
    <3> QED BY <2>5, <3>6
  <2> QED BY <2>5, <2>6, <2>7
<1>3. CASE ~ConfigAt(c, p).broken
  <2>1. ASSUME NEW Q, p \notin Q
        PROVE  /\ whole(Q \cup {p}) = whole(Q) \cup {p}
               /\ (Q \cup {p}) \ whole(Q \cup {p}) = Q \ whole(Q)
               /\ whole(Q \cup {p}) # Q \cup {p} <=> whole(Q) # Q
    BY <1>3, <2>1
  <2>2. ASSUME NEW Q, p \notin Q
        PROVE  all(Q \cup {p}) = all(Q) \cup Findings(c, p) /\ syn(Q \cup {p}) = syn(Q)
    BY <2>1, <2>2
  <2>3. Checked(c, p) = Verdict(c, Findings(c, p))
    BY <1>3 DEF Checked
  <2>4. PromisedOf(c, {p}) = Checked(c, p)
    <3>1. whole({p}) = {p} /\ all({p}) = Findings(c, p) /\ syn({p}) = {}
      BY <1>3
    <3>2. shown({p}) = {d \in Findings(c, p) : AtLeast(d.severity, c.minSeverity)}
          /\ (bad({p}) <=> \E d \in Findings(c, p) : AtLeast(d.severity, c.failOn))
      BY <3>1
    <3> HIDE DEF whole, all, syn, shown, bad
    <3> QED BY <1>1, <2>3, <3>1, <3>2 DEF Verdict
  <2> DEFINE worse == \E d \in Findings(c, p) : AtLeast(d.severity, c.failOn)
             more  == {d \in Findings(c, p) : AtLeast(d.severity, c.minSeverity)}
  <2>7. Checked(c, p) = Result(IF worse THEN "invalid" ELSE "valid", more)
    BY <2>3 DEF Verdict
  <2>5. CASE P = {}
    <3>1. PromisedOf(c, P) = Result("skipped", {}) /\ P \cup {p} = {p}
      BY <2>5 DEF PromisedOf, Skipped
    <3> HIDE DEF whole, all, syn, shown, bad, worse, more
    <3>2. Merged(PromisedOf(c, P), Checked(c, p)) = Checked(c, p)
      <4> DEFINE t == IF worse THEN "invalid" ELSE "valid"
      <4>1. Checked(c, p) = Result(t, more)
        BY <2>7
      <4> HIDE DEF t
      <4>2. Merged(Result("skipped", {}), Result(t, more)) = Result(t, {} \cup more)
        BY MergeResults
      <4>3. {} \cup more = more
        OBVIOUS
      <4> QED BY <3>1, <4>1, <4>2, <4>3
    <3> QED BY <2>4, <3>1, <3>2
  <2>6. CASE P # {}
    <3>1. /\ shown(P \cup {p}) = shown(P) \cup more
          /\ bad(P \cup {p}) <=> bad(P) \/ worse
      BY <2>2
    <3> HIDE DEF whole, all, syn, shown, bad, worse, more
    <3>2. PromisedOf(c, P \cup {p})
            = Result(IF whole(P) # P \/ bad(P) \/ worse THEN "invalid" ELSE "valid",
                     (shown(P) \cup more) \cup syn(P))
      BY <1>1, <2>1, <2>2, <3>1
    <3>3. PromisedOf(c, P)
            = Result(IF whole(P) # P \/ bad(P) THEN "invalid" ELSE "valid", shown(P) \cup syn(P))
      BY <1>1, <2>6
    <3>4. Merged(PromisedOf(c, P), Checked(c, p))
            = Result(IF whole(P) # P \/ bad(P) \/ worse THEN "invalid" ELSE "valid",
                     (shown(P) \cup syn(P)) \cup more)
      <4> DEFINE s == IF whole(P) # P \/ bad(P) THEN "invalid" ELSE "valid"
                 t == IF worse THEN "invalid" ELSE "valid"
                 A == shown(P) \cup syn(P)
                 u == IF s = "skipped" \/ t = "invalid" THEN t ELSE s
      <4>1. PromisedOf(c, P) = Result(s, A) /\ Checked(c, p) = Result(t, more)
        BY <2>7, <3>3
      <4>2. u = IF whole(P) # P \/ bad(P) \/ worse THEN "invalid" ELSE "valid"
        OBVIOUS
      <4>3. Merged(Result(s, A), Result(t, more)) = Result(u, A \cup more)
        <5>1. CASE s = "skipped" \/ t = "invalid"
          <6>1. u = t
            BY <5>1
          <6> HIDE DEF s, t, u, A, more
          <6> QED BY <5>1, <6>1, MergeResults
        <5>2. CASE ~ (s = "skipped" \/ t = "invalid")
          <6>1. u = s
            BY <5>2
          <6> HIDE DEF s, t, u, A, more
          <6> QED BY <5>2, <6>1, MergeResults
        <5> QED BY <5>1, <5>2
      <4> HIDE DEF s, t, u
      <4> QED BY <4>1, <4>2, <4>3
    <3>5. (shown(P) \cup more) \cup syn(P) = (shown(P) \cup syn(P)) \cup more
      OBVIOUS
    <3>6. PromisedOf(c, P \cup {p}) = Merged(PromisedOf(c, P), Checked(c, p))
      BY <3>2, <3>4, <3>5
    <3> QED BY <2>4, <3>6
  <2> QED BY <2>4, <2>5, <2>6
<1> QED BY <1>2, <1>3

-----------------------------------------------------------------------------
(* The rules of one config. *)

\* The Linter and the file's view of it, made of the case.
LinterOf(c) == Global(Selection(c), c.ignoreMissing)
PolicyOf(c) == Policy(c.file, c.flags, c.path)
ViewMade ==
  /\ global = LinterOf(case)
  /\ explicit = Explicit(global, PolicyOf(case))
  /\ view = ForPath(global, PolicyOf(case))

\* What a rule's findings are reported as, and the directives spare, is what
\* is promised of the rule.
LEMMA FoundIsSurviving ==
  ASSUME case \in Cases, ViewMade,
         NEW place, NEW config, IsConfig(config), NEW r \in Rules
  PROVE  {d \in Found(place, config, r) : r \notin Suppressed(config, d.line)}
           = Surviving(case, place, config, r)
<1> DEFINE spared(line) == ~ \E l \in DOMAIN config.directives : l + 1 = line /\ config.directives[l] = r
           sev(f) == IF r \in DOMAIN explicit THEN explicit[r]
                     ELSE IF f[2] # "rule" THEN f[2] ELSE LevelOf(view, r)
           due(f) == IF f[2] = "rule" \/ Written(case, r) THEN PromisedLevel(case, r) ELSE f[2]
<1>1. /\ LevelOf(view, r) = PromisedLevel(case, r)
      /\ PromisedLevel(case, r) # "off" =>
           /\ r \in DOMAIN explicit <=> Written(case, r)
           /\ r \in DOMAIN explicit => explicit[r] = PromisedLevel(case, r)
  BY ViewIsPromised DEF ViewMade, LinterOf, PolicyOf
<1>2. ASSUME NEW line \in Int
      PROVE  r \notin Suppressed(config, line) <=> spared(line)
  <2>1. DOMAIN config.directives \subseteq Int
    BY DEF IsConfig
  <2>2. r \in Suppressed(config, line)
          <=> line - 1 \in DOMAIN config.directives /\ config.directives[line - 1] = r
    BY DEF Suppressed
  <2>3. \A l \in DOMAIN config.directives : l + 1 = line <=> l = line - 1
    BY <2>1
  <2> QED BY <2>1, <2>2, <2>3
<1>3. CASE PromisedLevel(case, r) = "off"
  BY <1>1, <1>3 DEF Found, Surviving
<1>4. CASE PromisedLevel(case, r) # "off"
  <2>1. Found(place, config, r) = {Diagnostic(place, r, f[1], sev(f)) : f \in config.finds[r]}
    BY <1>1, <1>4 DEF Found
  <2>2. Surviving(case, place, config, r)
          = {Diagnostic(place, r, f[1], due(f)) : f \in {g \in config.finds[r] : spared(g[1])}}
    BY <1>4 DEF Surviving
  <2>3. \A f \in config.finds[r] : f[1] \in Int
    BY DEF IsConfig
  <2>4. ASSUME NEW f \in config.finds[r]
        PROVE  /\ Diagnostic(place, r, f[1], sev(f)) = Diagnostic(place, r, f[1], due(f))
               /\ Diagnostic(place, r, f[1], due(f)).line = f[1]
               /\ r \notin Suppressed(config, f[1]) <=> spared(f[1])
    <3>1. sev(f) = due(f)
      BY <1>1, <1>4
    <3>2. Diagnostic(place, r, f[1], due(f)).line = f[1]
      BY DEF Diagnostic
    <3> HIDE DEF sev, due, spared
    <3> QED BY <1>2, <2>3, <3>1, <3>2
  <2> HIDE DEF sev, due, spared
  <2> QED BY <2>1, <2>2, <2>4
<1> QED BY <1>3, <1>4

-----------------------------------------------------------------------------
(* The configs taken up so far, in the order they are. *)

\* The configs of the documents before d, and the first b of d.
UpTo(c, d, b) == {q \in Places(c) : q[1] < d \/ (q[1] = d /\ q[2] <= b)}

LEMMA PlacesAre ==
  ASSUME NEW c \in Cases, NEW q
  PROVE  q \in Places(c) <=> \E d \in 1..Len(c.docs) : \E b \in DOMAIN c.docs[d] : q = <<d, b>>
  BY CaseAssumption DEF Places, IsSeq

LEMMA DocumentIsSeq ==
  ASSUME NEW c \in Cases
  PROVE  /\ Len(c.docs) \in Nat
         /\ \A d \in 1..Len(c.docs) : c.docs[d] # Malformed =>
              /\ Len(c.docs[d]) \in Nat
              /\ DOMAIN c.docs[d] = 1..Len(c.docs[d])
              /\ \A b \in DOMAIN c.docs[d] : IsConfig(c.docs[d][b])
  BY CaseAssumption DEF IsSeq

LEMMA NoneYet ==
  ASSUME NEW c \in Cases
  PROVE  UpTo(c, 0, 0) = {}
<1> SUFFICES ASSUME NEW q \in Places(c), q[1] < 0 \/ (q[1] = 0 /\ q[2] <= 0)
             PROVE  FALSE
  BY DEF UpTo
<1>1. PICK d \in 1..Len(c.docs) : \E b \in DOMAIN c.docs[d] : q = <<d, b>>
  BY PlacesAre
<1>2. q[1] \in Nat /\ q[1] >= 1
  BY <1>1, DocumentIsSeq
<1> QED BY <1>2

LEMMA NextConfig ==
  ASSUME NEW c \in Cases, NEW d \in 1..Len(c.docs), c.docs[d] # Malformed,
         NEW b \in DOMAIN c.docs[d]
  PROVE  /\ UpTo(c, d, b) = UpTo(c, d, b - 1) \cup {<<d, b>>}
         /\ <<d, b>> \notin UpTo(c, d, b - 1)
<1>1. /\ d \in Nat /\ b \in Nat /\ DOMAIN c.docs[d] = 1..Len(c.docs[d])
  BY DocumentIsSeq
<1>2. <<d, b>> \in Places(c)
  BY PlacesAre
<1>3. ASSUME NEW q \in Places(c), q[1] = d
      PROVE  q[2] \in Nat /\ q = <<d, q[2]>>
  BY <1>1, <1>3, PlacesAre
<1>4. ASSUME NEW q \in Places(c)
      PROVE  q \in UpTo(c, d, b) <=> q \in UpTo(c, d, b - 1) \/ q = <<d, b>>
  <2>1. CASE q[1] = d
    <3>1. q \in UpTo(c, d, b) <=> q[2] <= b
      BY <1>1, <2>1 DEF UpTo
    <3>2. q \in UpTo(c, d, b - 1) <=> q[2] <= b - 1
      BY <1>1, <2>1 DEF UpTo
    <3>3. q = <<d, b>> <=> q[2] = b
      BY <1>3, <2>1
    <3> QED BY <1>1, <1>3, <2>1, <3>1, <3>2, <3>3
  <2>2. CASE q[1] # d
    BY <2>2 DEF UpTo
  <2> QED BY <2>1, <2>2
<1>5. UpTo(c, d, b) \subseteq Places(c) /\ UpTo(c, d, b - 1) \subseteq Places(c)
  BY DEF UpTo
<1>6. <<d, b>> \notin UpTo(c, d, b - 1)
  BY <1>1 DEF UpTo
<1> QED BY <1>2, <1>4, <1>5, <1>6

\* A document's last config is followed by the next document's first.
LEMMA NextDocumentUp ==
  ASSUME NEW c \in Cases, NEW d \in 0..Len(c.docs), NEW b \in Nat,
         \A e \in 1..d : c.docs[e] # Malformed,
         d = 0 => b = 0, d > 0 => b = Len(c.docs[d])
  PROVE  /\ d < Len(c.docs) /\ c.docs[d + 1] # Malformed => UpTo(c, d, b) = UpTo(c, d + 1, 0)
         /\ d = Len(c.docs) => UpTo(c, d, b) = Places(c)
<1>1. Len(c.docs) \in Nat /\ d \in Nat
  BY DocumentIsSeq
<1>2. ASSUME NEW q \in Places(c), q[1] = d
      PROVE  q[2] <= b
  <2>1. PICK e \in 1..Len(c.docs) : \E y \in DOMAIN c.docs[e] : q = <<e, y>>
    BY PlacesAre
  <2>2. e = d /\ d \in 1..Len(c.docs) /\ c.docs[d] # Malformed /\ b = Len(c.docs[d])
    BY <1>1, <1>2, <2>1
  <2>3. q[2] \in DOMAIN c.docs[d]
    BY <2>1, <2>2
  <2> QED BY <2>2, <2>3, DocumentIsSeq
<1>3. ASSUME NEW q \in Places(c)
      PROVE  q[1] \in 1..Len(c.docs)
  BY PlacesAre
<1>4. ASSUME d < Len(c.docs), c.docs[d + 1] # Malformed, NEW q \in Places(c), q[1] = d + 1
      PROVE  q[2] \in Nat /\ q[2] >= 1
  <2>1. d + 1 \in 1..Len(c.docs)
    BY <1>1, <1>4
  <2>2. PICK e \in 1..Len(c.docs) : \E y \in DOMAIN c.docs[e] : q = <<e, y>>
    BY PlacesAre
  <2>3. q[2] \in DOMAIN c.docs[d + 1]
    BY <1>4, <2>2
  <2>4. Len(c.docs[d + 1]) \in Nat /\ DOMAIN c.docs[d + 1] = 1..Len(c.docs[d + 1])
    BY <1>4, <2>1, DocumentIsSeq
  <2> QED BY <2>3, <2>4
<1>5. ASSUME d < Len(c.docs), c.docs[d + 1] # Malformed
      PROVE  UpTo(c, d, b) = UpTo(c, d + 1, 0)
  <2>1. ASSUME NEW q \in Places(c)
        PROVE  q[1] < d \/ (q[1] = d /\ q[2] <= b) <=> q[1] < d + 1 \/ (q[1] = d + 1 /\ q[2] <= 0)
    <3>1. q[1] \in Nat
      BY <1>1, <1>3
    <3>2. CASE q[1] = d
      BY <1>1, <1>2, <3>2
    <3>3. CASE q[1] = d + 1
      BY <1>1, <1>4, <1>5, <3>3
    <3>4. CASE q[1] # d /\ q[1] # d + 1
      BY <1>1, <3>1, <3>4
    <3> QED BY <3>2, <3>3, <3>4
  <2> QED BY <2>1 DEF UpTo
<1>6. ASSUME d = Len(c.docs)
      PROVE  UpTo(c, d, b) = Places(c)
  <2>1. ASSUME NEW q \in Places(c)
        PROVE  q[1] < d \/ (q[1] = d /\ q[2] <= b)
    BY <1>1, <1>2, <1>3, <1>6
  <2> QED BY <2>1 DEF UpTo
<1> QED BY <1>5, <1>6

LEMMA OnlyPlace ==
  ASSUME NEW c \in Cases, ~c.embedded
  PROVE  Places(c) = {<<1, 1>>}
<1>1. Len(c.docs) = 1 /\ c.docs[1] # Malformed /\ Len(c.docs[1]) = 1
  BY CaseAssumption
<1>2. DOMAIN c.docs[1] = 1..1
  BY <1>1, DocumentIsSeq
<1>3. ASSUME NEW q
      PROVE  q \in Places(c) <=> q = <<1, 1>>
  BY <1>1, <1>2, PlacesAre
<1> QED BY <1>3

-----------------------------------------------------------------------------
(* The inductive invariant. *)

Start     == {"flags", "linter", "read", "lint"}
Between   == {"doc", "decode", "block"}
InConfig  == {"parse", "rules", "checked"}
Place     == <<doc, at>>

\* Where the run is in the documents.
PlaceInv ==
  /\ case \in Cases
  /\ pc \in Start \cup Between \cup InConfig \cup {"rejected", "done"}
  /\ doc \in 0..Len(case.docs) /\ at \in Nat
  /\ \A d \in 1..doc : case.docs[d] # Malformed
  /\ pc \in Start => doc = 0 /\ at = 0
  /\ pc \in Between => case.embedded /\ (doc = 0 => at = 0 /\ pc # "block")
  /\ pc \in {"doc", "decode"} /\ doc > 0 /\ ~cancelled => at = Len(case.docs[doc])
  /\ pc = "block" => at <= Len(case.docs[doc])
  /\ pc \in InConfig =>
       /\ doc > 0 /\ at \in DOMAIN case.docs[doc]
       /\ ~case.embedded => Place = <<1, 1>> /\ ~case.manifest

\* The Linter is the promised one, and so is the file's view of it.
LevelInv ==
  /\ pc \notin {"flags", "rejected"} => global = LinterOf(case)
  /\ pc = "rules" => ViewMade

\* What has been found in the config being checked.
CurInv ==
  /\ pc = "rules" =>
       /\ ran \in 0..Len(RuleList)
       /\ ~Config.broken
       /\ cur = Verdict(case, FindingsUpTo(case, Place, ran))
  /\ pc = "checked" /\ ~cancelled =>
       ~Config.broken /\ cur = Verdict(case, Findings(case, Place))

\* What the configs before it came to.
ResultInv ==
  /\ pc \in Start => result = Skipped
  /\ ~cancelled /\ pc \in Between => result = PromisedOf(case, UpTo(case, doc, at))
  /\ ~cancelled /\ case.embedded /\ pc \in InConfig =>
       result = PromisedOf(case, UpTo(case, doc, at - 1))
  /\ VerdictIsWhole

IInv == PlaceInv /\ LevelInv /\ CurInv /\ ResultInv

LEMMA AtConfig ==
  ASSUME PlaceInv, pc \in InConfig
  PROVE  /\ doc \in 1..Len(case.docs) /\ case.docs[doc] # Malformed
         /\ at \in DOMAIN case.docs[doc] /\ at <= Len(case.docs[doc])
         /\ IsConfig(Config) /\ Config = ConfigAt(case, Place)
         /\ UpTo(case, doc, at) = UpTo(case, doc, at - 1) \cup {Place}
         /\ Place \notin UpTo(case, doc, at - 1)
<1>1. Len(case.docs) \in Nat /\ doc \in 1..Len(case.docs)
  BY DocumentIsSeq DEF PlaceInv
<1>2. case.docs[doc] # Malformed /\ at \in DOMAIN case.docs[doc]
  BY <1>1 DEF PlaceInv
<1>3. case \in Cases
  BY DEF PlaceInv
<1>4. at <= Len(case.docs[doc]) /\ IsConfig(Config)
  <2>1. /\ DOMAIN case.docs[doc] = 1..Len(case.docs[doc])
        /\ \A b \in DOMAIN case.docs[doc] : IsConfig(case.docs[doc][b])
    BY <1>1, <1>2, <1>3, DocumentIsSeq
  <2> QED BY <1>2, <2>1 DEF Config
<1>5. Config = ConfigAt(case, Place)
  BY DEF Config, ConfigAt, Place
<1>6. /\ UpTo(case, doc, at) = UpTo(case, doc, at - 1) \cup {Place}
      /\ Place \notin UpTo(case, doc, at - 1)
  BY <1>1, <1>2, <1>3, NextConfig DEF Place
<1> QED BY <1>1, <1>2, <1>4, <1>5, <1>6

\* The config's Result, whole or an error, is let out.
LEMMA ConcludeKeeps ==
  ASSUME IInv, pc \in InConfig, UNCHANGED <<input, cancelled, levels>>,
         NEW checked, Conclude(checked),
         cancelled => checked.status = "error",
         ~cancelled => checked = Checked(case, Place)
  PROVE  IInv'
<1> USE DEF input, levels
<1>1. PlaceInv /\ LevelInv /\ ResultInv /\ case \in Cases
  BY DEF IInv, PlaceInv
<1>2. CASE case.embedded
  <2>1. pc' = "block" /\ result' = Merged(result, checked)
    BY <1>2 DEF Conclude
  <2>2. PlaceInv'
    BY <1>1, <1>2, <2>1, AtConfig DEF PlaceInv, Start, Between, InConfig
  <2>3. LevelInv' /\ CurInv'
    BY <1>1, <2>1 DEF LevelInv, CurInv, InConfig
  <2>4. ~cancelled => result' = PromisedOf(case, UpTo(case, doc, at))
    <3> SUFFICES ASSUME ~cancelled PROVE result' = PromisedOf(case, UpTo(case, doc, at))
      OBVIOUS
    <3>1. result = PromisedOf(case, UpTo(case, doc, at - 1))
      BY <1>1, <1>2 DEF ResultInv
    <3>2. PromisedOf(case, UpTo(case, doc, at - 1) \cup {Place})
            = Merged(PromisedOf(case, UpTo(case, doc, at - 1)), Checked(case, Place))
      BY <1>1, AtConfig, MergeOne
    <3> QED BY <1>1, <2>1, <3>1, <3>2, AtConfig
  <2>5. ResultInv'
    BY <2>1, <2>4 DEF ResultInv, VerdictIsWhole, Start, Between, InConfig
  <2> QED BY <2>2, <2>3, <2>5 DEF IInv
<1>3. CASE ~case.embedded
  <2>1. pc' = "done" /\ result' = checked
    BY <1>3 DEF Conclude, Done
  <2>2. PlaceInv'
    BY <1>1, <2>1, AtConfig DEF PlaceInv, Start, Between, InConfig
  <2>3. LevelInv' /\ CurInv'
    BY <1>1, <2>1 DEF LevelInv, CurInv, InConfig
  <2>4. ~cancelled => checked = Promised(case)
    <3> SUFFICES ASSUME ~cancelled PROVE checked = Promised(case)
      OBVIOUS
    <3>1. Place = <<1, 1>> /\ ~case.manifest
      BY <1>1, <1>3 DEF PlaceInv
    <3>2. Places(case) = {Place}
      BY <1>1, <1>3, <3>1, OnlyPlace
    <3>3. PromisedOf(case, {Place}) = Checked(case, Place)
      <4>1. Place \notin {}
        OBVIOUS
      <4> QED BY <4>1, MergeOne
    <3> QED BY <3>1, <3>2, <3>3 DEF Promised
  <2>5. ResultInv'
    BY <2>1, <2>4 DEF ResultInv, VerdictIsWhole, Start, Between, InConfig
  <2> QED BY <2>2, <2>3, <2>5 DEF IInv
<1> QED BY <1>2, <1>3

-----------------------------------------------------------------------------
(* One lemma for each action that does more than move on. *)

LEMMA DecodeKeeps ==
  ASSUME IInv, Decode
  PROVE  IInv'
<1> USE DEF input, levels
<1>1. PlaceInv /\ LevelInv /\ ResultInv /\ case \in Cases /\ pc = "decode" /\ case.embedded
  BY DEF IInv, PlaceInv, Decode, Between
<1>2. /\ UNCHANGED <<case, cancelled, global, view, explicit, ran, cur>>
      /\ Len(case.docs) \in Nat /\ doc \in 0..Len(case.docs) /\ at \in Nat
  BY <1>1, DocumentIsSeq DEF Decode, PlaceInv
<1>3. CASE pc' = "done" /\ result'.status = "error" /\ UNCHANGED <<doc, at>>
  <2>1. PlaceInv'
    BY <1>1, <1>2, <1>3 DEF PlaceInv, Start, Between, InConfig
  <2>2. LevelInv' /\ CurInv' /\ ResultInv'
    BY <1>1, <1>2, <1>3 DEF LevelInv, CurInv, ResultInv, VerdictIsWhole, Start, Between, InConfig
  <2> QED BY <2>1, <2>2 DEF IInv
<1>4. CASE ~cancelled /\ doc = Len(case.docs) /\ Done(result) /\ UNCHANGED <<doc, at>>
  <2>1. PlaceInv'
    BY <1>1, <1>2, <1>4 DEF PlaceInv, Start, Between, InConfig, Done
  <2>2. UpTo(case, doc, at) = Places(case)
    BY <1>1, <1>2, <1>4, NextDocumentUp DEF PlaceInv, Between
  <2>3. result' = Promised(case)
    BY <1>1, <1>4, <2>2 DEF ResultInv, Between, Promised, Done
  <2>4. LevelInv' /\ CurInv' /\ ResultInv'
    BY <1>1, <1>2, <1>4, <2>3 DEF LevelInv, CurInv, ResultInv, VerdictIsWhole, Start, Between, InConfig, Done
  <2> QED BY <2>1, <2>4 DEF IInv
<1>5. CASE /\ ~cancelled /\ doc < Len(case.docs) /\ case.docs[doc + 1] # Malformed
           /\ Goto("block") /\ doc' = doc + 1 /\ at' = 0
  <2>1. Len(case.docs[doc + 1]) \in Nat
    BY <1>1, <1>2, <1>5, DocumentIsSeq
  <2>2. PlaceInv'
    BY <1>1, <1>2, <1>5, <2>1 DEF PlaceInv, Start, Between, InConfig, Goto
  <2>3. UpTo(case, doc, at) = UpTo(case, doc + 1, 0)
    BY <1>1, <1>2, <1>5, NextDocumentUp DEF PlaceInv, Between
  <2>4. LevelInv' /\ CurInv' /\ ResultInv'
    BY <1>1, <1>2, <1>5, <2>3 DEF LevelInv, CurInv, ResultInv, VerdictIsWhole, Start, Between, InConfig, Goto
  <2> QED BY <2>2, <2>4 DEF IInv
<1> QED
  <2>1. ErrorResult.status = "error"
    BY DEF ErrorResult, Result
  <2> QED BY <1>2, <1>3, <1>4, <1>5, <2>1 DEF Decode, Done

LEMMA ParseKeeps ==
  ASSUME IInv, Parse
  PROVE  IInv'
<1> USE DEF input, levels
<1>1. PlaceInv /\ LevelInv /\ ResultInv /\ case \in Cases /\ pc = "parse" /\ pc \in InConfig
  BY DEF IInv, PlaceInv, Parse, InConfig
<1>2. UNCHANGED <<case, doc, at, cancelled>>
  BY DEF Parse
<1>3. ErrorResult.status = "error"
  BY DEF ErrorResult, Result
<1>4. CASE cancelled
  <2>1. Conclude(ErrorResult) /\ UNCHANGED levels
    BY <1>4 DEF Parse
  <2> QED BY <1>1, <1>2, <1>3, <1>4, <2>1, ConcludeKeeps
<1>5. CASE ~cancelled /\ Config.broken
  <2>1. Conclude(Result("invalid", {SyntaxFinding(Place)})) /\ UNCHANGED levels
    BY <1>5 DEF Parse, Place
  <2>2. Checked(case, Place) = Result("invalid", {SyntaxFinding(Place)})
    BY <1>1, <1>5, AtConfig DEF Checked
  <2> QED BY <1>1, <1>2, <1>5, <2>1, <2>2, ConcludeKeeps
<1>6. CASE ~cancelled /\ ~Config.broken
  <2>1. /\ explicit' = Explicit(global, PolicyOf(case))
        /\ view' = ForPath(global, PolicyOf(case))
        /\ ran' = 0
        /\ cur' = AddFindings(Result("valid", {}), BadDirectives(Place, Config))
        /\ pc' = "rules" /\ UNCHANGED <<result, global>>
    BY <1>6 DEF Parse, Goto, PolicyOf, Place, OwnAfter
  <2>2. PlaceInv'
    BY <1>1, <1>2, <2>1 DEF PlaceInv, Start, Between, InConfig, Place
  <2>3. LevelInv'
    BY <1>1, <1>2, <2>1 DEF LevelInv, ViewMade
  <2>4. cur' = Verdict(case, FindingsUpTo(case, Place, 0))
    BY <1>1, <2>1, AddToNothing, AtConfig, FindingsStep
  <2>5. CurInv'
    <3>1. 0 \in 0..Len(RuleList)
      BY RuleAssumption
    <3> QED BY <1>2, <1>6, <2>1, <2>4, <3>1 DEF CurInv, Config, Place
  <2>6. ResultInv'
    BY <1>1, <1>2, <2>1 DEF ResultInv, VerdictIsWhole, Start, Between, InConfig
  <2> QED BY <2>2, <2>3, <2>5, <2>6 DEF IInv
<1> QED BY <1>4, <1>5, <1>6

LEMMA CheckRuleKeeps ==
  ASSUME IInv, CheckRule
  PROVE  IInv'
<1> USE DEF input, levels
<1>1. PlaceInv /\ LevelInv /\ ResultInv /\ case \in Cases /\ pc = "rules" /\ pc \in InConfig
  BY DEF IInv, PlaceInv, CheckRule, InConfig
<1>2. UNCHANGED <<case, doc, at, cancelled, global, view, explicit, result>>
  BY DEF CheckRule, Goto
<1>3. pc' \in {"rules", "checked"} /\ (pc' = "checked" => cancelled)
  BY DEF CheckRule, Goto
<1>4. PlaceInv'
  BY <1>1, <1>2, <1>3 DEF PlaceInv, Start, Between, InConfig, Place
<1>5. LevelInv' /\ ResultInv'
  BY <1>1, <1>2, <1>3 DEF LevelInv, ResultInv, ViewMade, VerdictIsWhole, Start, Between, InConfig
<1>6. CASE pc' = "checked"
  BY <1>2, <1>3, <1>4, <1>5, <1>6 DEF IInv, CurInv
<1>7. CASE pc' = "rules"
  <2> DEFINE r == RuleList[ran + 1]
             new == {d \in Found(Place, Config, r) : r \notin Suppressed(Config, d.line)}
  <2>1. ran < Len(RuleList) /\ ran' = ran + 1 /\ cur' = AddFindings(cur, new)
    BY <1>7 DEF CheckRule, Goto, Place
  <2>2. ran \in Nat /\ Len(RuleList) \in Nat /\ DOMAIN RuleList = 1..Len(RuleList)
    BY <1>1, RuleAssumption DEF IInv, CurInv
  <2>3. r \in Rules
    BY <2>1, <2>2 DEF Rules
  <2>4. /\ ViewMade /\ IsConfig(Config) /\ Config = ConfigAt(case, Place)
        /\ cur = Verdict(case, FindingsUpTo(case, Place, ran)) /\ ~Config.broken
    BY <1>1, AtConfig DEF IInv, LevelInv, CurInv
  <2>5. new = Surviving(case, Place, Config, r)
    BY <1>1, <2>3, <2>4, FoundIsSurviving
  <2>6. FindingsUpTo(case, Place, ran + 1) = FindingsUpTo(case, Place, ran) \cup new
    BY <2>2, <2>4, <2>5, FindingsStep
  <2> HIDE DEF new
  <2>7. cur' = Verdict(case, FindingsUpTo(case, Place, ran + 1))
    BY <2>1, <2>4, <2>6, AddToVerdict
  <2>8. CurInv'
    BY <1>2, <1>7, <2>1, <2>2, <2>4, <2>7 DEF CurInv, Config, Place
  <2> QED BY <1>4, <1>5, <2>8 DEF IInv
<1> QED BY <1>3, <1>6, <1>7

LEMMA RulesDoneKeeps ==
  ASSUME IInv, RulesDone
  PROVE  IInv'
<1> USE DEF input, levels
<1>1. PlaceInv /\ LevelInv /\ ResultInv /\ CurInv /\ pc = "rules" /\ ran = Len(RuleList)
  BY DEF IInv, RulesDone
<1>2. UNCHANGED <<case, doc, at, cancelled, global, view, explicit, ran, cur, result>> /\ pc' = "checked"
  BY DEF RulesDone, Goto
<1>3. PlaceInv'
  BY <1>1, <1>2 DEF PlaceInv, Start, Between, InConfig, Place
<1>4. LevelInv' /\ ResultInv'
  BY <1>1, <1>2 DEF LevelInv, ResultInv, ViewMade, VerdictIsWhole, Start, Between, InConfig
<1>5. CurInv'
  <2>1. FindingsUpTo(case, Place, ran) = Findings(case, Place)
    BY <1>1, FindingsStep
  <2> QED BY <1>1, <1>2, <2>1 DEF CurInv, Config, Place
<1> QED BY <1>3, <1>4, <1>5 DEF IInv

LEMMA LastLookKeeps ==
  ASSUME IInv, LastLook
  PROVE  IInv'
<1> DEFINE checked == IF cancelled THEN ErrorResult ELSE cur
<1>1. PlaceInv /\ CurInv /\ pc = "checked" /\ pc \in InConfig
  BY DEF IInv, LastLook, InConfig
<1>2. Conclude(checked) /\ UNCHANGED <<input, cancelled, levels>>
  BY DEF LastLook
<1>3. cancelled => checked.status = "error"
  BY DEF ErrorResult, Result
<1>4. ~cancelled => checked = Checked(case, Place)
  BY <1>1, AtConfig DEF CurInv, Checked
<1> HIDE DEF checked
<1> QED BY <1>1, <1>2, <1>3, <1>4, ConcludeKeeps

\* The actions before the first config, and between two.
LEMMA MovingOnKeeps ==
  ASSUME IInv, Prepare \/ Enter \/ Read \/ Dispatch \/ NextDocument \/ NextBlock
  PROVE  IInv'
<1> USE DEF input, levels
<1>0. ErrorResult.status = "error" /\ Len(case.docs) \in Nat /\ case \in Cases
  BY DocumentIsSeq DEF ErrorResult, Result, IInv, PlaceInv
<1>1. CASE Prepare
  BY <1>1 DEF Prepare, Goto, IInv, PlaceInv, LevelInv, CurInv, ResultInv, VerdictIsWhole,
              LinterOf, Start, Between, InConfig
<1>2. CASE Enter
  BY <1>0, <1>2 DEF Enter, Goto, Done, IInv, PlaceInv, LevelInv, CurInv, ResultInv, VerdictIsWhole,
                    Start, Between, InConfig
<1>3. CASE Read
  BY <1>0, <1>3 DEF Read, Goto, Done, IInv, PlaceInv, LevelInv, CurInv, ResultInv, VerdictIsWhole,
                    Start, Between, InConfig
<1>4. CASE Dispatch
  <2>1. CASE cancelled
    BY <1>0, <1>4, <2>1 DEF Dispatch, Done, IInv, PlaceInv, LevelInv, CurInv, ResultInv, VerdictIsWhole,
                            Start, Between, InConfig
  <2>2. CASE ~cancelled /\ case.embedded
    BY <1>0, <1>4, <2>2, NoneYet
       DEF Dispatch, Goto, IInv, PlaceInv, LevelInv, CurInv, ResultInv, VerdictIsWhole,
           Start, Between, InConfig, PromisedOf
  <2>3. CASE ~cancelled /\ ~case.embedded /\ case.manifest
    BY <1>0, <1>4, <2>3 DEF Dispatch, Done, IInv, PlaceInv, LevelInv, CurInv, ResultInv, VerdictIsWhole,
                            Promised, Start, Between, InConfig
  <2>4. CASE ~cancelled /\ ~case.embedded /\ ~case.manifest
    <3>1. pc = "lint" /\ pc' = "parse" /\ doc' = 1 /\ at' = 1 /\ UNCHANGED <<case, cancelled, levels, ran, cur, result>>
      BY <1>4, <2>4 DEF Dispatch, Goto
    <3>2. Len(case.docs) = 1 /\ case.docs[1] # Malformed /\ 1 \in DOMAIN case.docs[1]
      <4>1. Len(case.docs) = 1 /\ case.docs[1] # Malformed /\ Len(case.docs[1]) = 1
        BY <1>0, <2>4, CaseAssumption
      <4> QED BY <1>0, <4>1, DocumentIsSeq
    <3>3. PlaceInv'
      BY <1>0, <2>4, <3>1, <3>2 DEF IInv, PlaceInv, Start, Between, InConfig, Place
    <3> QED BY <2>4, <3>1, <3>3 DEF IInv, LevelInv, CurInv, ResultInv, VerdictIsWhole, Start, Between, InConfig
  <2> QED BY <2>1, <2>2, <2>3, <2>4
<1>5. CASE NextDocument
  BY <1>0, <1>5 DEF NextDocument, Goto, Done, IInv, PlaceInv, LevelInv, CurInv, ResultInv, VerdictIsWhole,
                    Start, Between, InConfig
<1>6. CASE NextBlock
  <2>1. /\ PlaceInv /\ LevelInv /\ ResultInv /\ pc = "block" /\ case.embedded /\ doc > 0 /\ at \in Nat
        /\ doc \in 1..Len(case.docs)
        /\ at <= Len(case.docs[doc])
        /\ UNCHANGED <<case, doc, cancelled, global, view, explicit, ran, cur, result>>
    BY <1>0, <1>6 DEF NextBlock, IInv, PlaceInv, Between, Goto
  <2>2. Len(case.docs[doc]) \in Nat /\ DOMAIN case.docs[doc] = 1..Len(case.docs[doc])
    BY <1>0, <2>1, DocumentIsSeq DEF PlaceInv
  <2>3. CASE cancelled \/ at = Len(case.docs[doc])
    <3>1. pc' = "doc" /\ at' = at
      BY <1>6, <2>3 DEF NextBlock, Goto
    <3>2. PlaceInv'
      BY <2>1, <2>3, <3>1 DEF PlaceInv, Start, Between, InConfig
    <3> QED BY <2>1, <3>1, <3>2 DEF IInv, LevelInv, CurInv, ResultInv, VerdictIsWhole, Start, Between, InConfig
  <2>4. CASE ~cancelled /\ at # Len(case.docs[doc])
    <3>1. pc' = "parse" /\ at' = at + 1 /\ (at + 1) - 1 = at
      BY <1>6, <2>1, <2>4 DEF NextBlock, Goto
    <3>2. PlaceInv'
      BY <2>1, <2>2, <2>4, <3>1 DEF PlaceInv, Start, Between, InConfig
    <3> QED BY <2>1, <3>1, <3>2 DEF IInv, LevelInv, CurInv, ResultInv, VerdictIsWhole, Start, Between, InConfig
  <2> QED BY <2>3, <2>4
<1> QED BY <1>1, <1>2, <1>3, <1>4, <1>5, <1>6

\* The Linter goes on to another file of the run as it was made.
LEMMA NextFileIs ==
  ASSUME IInv, NextFile
  PROVE  /\ case' \in Cases /\ Len(case'.docs) \in Nat
         /\ LinterOf(case') = LinterOf(case) /\ NoRun(case') = NoRun(case)
         /\ pc = "done" /\ pc' = "linter" /\ global' = global
         /\ doc' = 0 /\ at' = 0 /\ ran' = 0 /\ cur' = Skipped /\ result' = Skipped
<1>1. case \in Cases /\ case' \in FilesBeside(case)
  BY DEF IInv, PlaceInv, NextFile
<1>2. case' \in Cases /\ SameRun(case, case')
  BY <1>1, FilesAssumption
<1>3. LinterOf(case') = LinterOf(case) /\ NoRun(case') = NoRun(case)
  BY <1>2 DEF SameRun, LinterOf, NoRun, Selection
<1>4. Len(case'.docs) \in Nat
  BY <1>2, DocumentIsSeq
<1> QED BY <1>2, <1>3, <1>4 DEF NextFile

LEMMA NextFileKeeps ==
  ASSUME IInv, NextFile
  PROVE  IInv'
<1>1. LevelInv
  BY DEF IInv
<1>2. PlaceInv'
  BY NextFileIs DEF PlaceInv, Start, Between, InConfig
<1>3. LevelInv'
  BY <1>1, NextFileIs DEF LevelInv
<1>4. CurInv' /\ ResultInv'
  BY NextFileIs DEF CurInv, ResultInv, VerdictIsWhole, Start, Between, InConfig
<1> QED BY <1>2, <1>3, <1>4 DEF IInv

LEMMA OthersKeep ==
  ASSUME IInv, Cancel \/ Terminated \/ UNCHANGED vars
  PROVE  IInv'
<1>1. CASE Cancel
  BY <1>1 DEF Cancel, input, levels, IInv, PlaceInv, LevelInv, CurInv, ResultInv, VerdictIsWhole,
              ViewMade, Place, Config
<1>2. CASE UNCHANGED vars
  BY <1>2 DEF vars, input, levels, IInv, PlaceInv, LevelInv, CurInv, ResultInv, VerdictIsWhole,
              ViewMade, Place, Config
<1> QED BY <1>1, <1>2 DEF Terminated

-----------------------------------------------------------------------------

THEOREM Invariance == Spec => []IInv
<1>1. Init => IInv
  <2> SUFFICES ASSUME Init PROVE IInv
    OBVIOUS
  <2>1. Len(case.docs) \in Nat
    BY DocumentIsSeq DEF Init
  <2> QED BY <2>1 DEF Init, IInv, PlaceInv, LevelInv, CurInv, ResultInv, VerdictIsWhole,
                      Start, Between, InConfig
<1>2. IInv /\ [Next]_vars => IInv'
  BY MovingOnKeeps, DecodeKeeps, ParseKeeps, CheckRuleKeeps, RulesDoneKeeps, LastLookKeeps,
     NextFileKeeps, OthersKeep
     DEF Next, Step
<1> QED BY <1>1, <1>2, PTL DEF Spec

\* Whatever the rules, the settings file, the flags and the path are, the
\* rules run at the levels docs/configuration.md promises.
THEOREM LevelsHold == Spec => []LevelsAsPromised
<1>1. IInv => LevelsAsPromised
  BY ViewIsPromised DEF IInv, PlaceInv, LevelInv, ViewMade, LinterOf, PolicyOf, LevelsAsPromised
<1> QED BY <1>1, Invariance, PTL

\* Whatever the source holds, and whenever the run is cancelled, a Result
\* that is no error is the verdict on the whole of it.
THEOREM VerdictHolds == Spec => []VerdictIsWhole
<1>1. IInv => VerdictIsWhole
  BY DEF IInv, ResultInv
<1> QED BY <1>1, Invariance, PTL
-----------------------------------------------------------------------------
(* The types.  Of the levels they rest on the selection having passed      *)
(* Resolve, which is what lets the file be reached at all.                 *)

LEMMA CopiedIsLevels ==
  ASSUME NEW f, NEW g, IsLevels(f), IsLevels(g)
  PROVE  IsLevels(Copied(f, g))
  BY DEF IsLevels, Copied

LEMMA AllAtIsLevels ==
  ASSUME NEW level \in Severity, NEW names, names \subseteq Rules
  PROVE  IsLevels(AllAt(level, names))
  BY DEF IsLevels, AllAt

LEMMA WithoutIsLevels ==
  ASSUME NEW f, IsLevels(f), NEW names
  PROVE  IsLevels(Without(f, names))
  BY DEF IsLevels, Without

\* What Resolve makes of a selection it accepts.
LEMMA ResolvedIsLevels ==
  ASSUME NEW sel, ~Rejected(sel), Leveled(sel)
  PROVE  IsLevels(Resolve(sel))
<1>1. sel.enable \subseteq Rules /\ sel.disable \subseteq Rules /\ DOMAIN sel.severity \subseteq Rules
  BY DEF Rejected
<1>2. "off" \in Severity
  BY DEF Severity
<1>3. /\ IsLevels(sel.severity)
      /\ IsLevels(AllAt("off", sel.disable))
      /\ IsLevels(AllAt("off", Rules)) /\ IsLevels(AllAt("off", {}))
  BY <1>1, <1>2, AllAtIsLevels DEF IsLevels, Leveled
<1>4. IsLevels([r \in sel.enable |-> OwnLevel[r]])
  <2>1. \A r \in sel.enable : OwnLevel[r] \in Severity
    BY <1>1, RuleAssumption
  <2> QED BY <1>1, <2>1 DEF IsLevels
<1>5. IsLevels(IF sel.default = "none" THEN AllAt("off", Rules) ELSE AllAt("off", {}))
  BY <1>3
<1> DEFINE none == IF sel.default = "none" THEN AllAt("off", Rules) ELSE AllAt("off", {})
<1>6. IsLevels(Copied([r \in sel.enable |-> OwnLevel[r]], none))
  BY <1>4, <1>5, CopiedIsLevels
<1> QED BY <1>3, <1>6, CopiedIsLevels DEF Resolve

\* The Linter's levels, of flags and settings that pass.
LEMMA LinterIsLevels ==
  ASSUME NEW c \in Cases, ~NoRun(c)
  PROVE  IsLevels(LinterOf(c))
<1>1. ~Rejected(Selection(c))
  BY DEF NoRun
<1>2. Leveled(Selection(c))
  <2>1. Selection(c).severity = Copied(c.flags.severity, c.file.severity)
    BY DEF Selection, RuleSelection
  <2>2. Leveled(c.file) /\ Leveled(c.flags)
    BY CaseAssumption
  <2> QED BY <2>1, <2>2 DEF Leveled, Copied
<1>3. IsLevels(Resolve(Selection(c)))
  BY <1>1, <1>2, ResolvedIsLevels
<1>4. IsLevels(AllAt("off", {Ignorable}))
  <2>1. "off" \in Severity /\ {Ignorable} \subseteq Rules
    BY RuleAssumption DEF Severity
  <2> QED BY <2>1, AllAtIsLevels
<1> QED BY <1>3, <1>4, CopiedIsLevels DEF LinterOf, Global

\* The file's policy, of settings and flags that pass.
LEMMA PolicyIsLevels ==
  ASSUME NEW c \in Cases, ~NoRun(c)
  PROVE  IsLevels(PolicyOf(c))
<1>1. ~PolicyRejected(c.file, c.flags)
  BY DEF NoRun
<1>2. /\ Leveled(c.file) /\ Leveled(c.flags)
      /\ \A i \in DOMAIN c.file.overrides : Leveled(c.file.overrides[i])
  BY CaseAssumption
<1>3. IsLevels(c.file.severity) /\ IsLevels(c.flags.severity)
  BY <1>1, <1>2 DEF PolicyRejected, IsLevels, Leveled
<1>4. IsLevels(Exceptions(c.file, c.flags, c.path))
  <2>1. CASE c.path = Stdin \/ Deciding(c.file, c.path) = {}
    <3>1. "off" \in Severity
      BY DEF Severity
    <3> QED BY <2>1, <3>1, AllAtIsLevels DEF Exceptions
  <2>2. CASE ~(c.path = Stdin \/ Deciding(c.file, c.path) = {})
    <3> DEFINE k == CHOOSE i \in Deciding(c.file, c.path) : TRUE
               over == c.file.overrides[k]
    <3>1. k \in Deciding(c.file, c.path)
      BY <2>2
    <3> HIDE DEF k
    <3>2. k \in DOMAIN c.file.overrides
      BY <3>1 DEF Deciding
    <3>3. ~Rejected(AsSelection(over))
      BY <1>1, <3>2 DEF PolicyRejected, OverrideRejected
    <3>4. Leveled(AsSelection(over))
      BY <1>2, <3>2 DEF AsSelection, Leveled
    <3>5. IsLevels(OverrideLevels(over))
      BY <3>3, <3>4, ResolvedIsLevels DEF OverrideLevels
    <3>6. Exceptions(c.file, c.flags, c.path)
            = Without(OverrideLevels(over), c.flags.enable \cup c.flags.disable)
      BY <2>2 DEF Exceptions, k
    <3> QED BY <3>5, <3>6, WithoutIsLevels
  <2> QED BY <2>1, <2>2
<1> QED BY <1>3, <1>4, CopiedIsLevels DEF PolicyOf, Policy

\* Results stay results as findings are added, and as one is merged into
\* another.
LEMMA AddKeepsResult ==
  ASSUME NEW r, IsResult(r), NEW ds,
         \A d \in ds : d.rule \in Rules \cup {"invalid-suppression", "syntax"} /\ d.severity \in Severity \ {"off"}
  PROVE  IsResult(AddFindings(r, ds))
<1>1. AddFindings(r, ds).status \in {"invalid", r.status}
  BY DEF AddFindings, Result
<1>2. \A d \in ds : AddFinding(r, d).diagnostics \subseteq r.diagnostics \cup {d}
  BY DEF AddFinding, Result
<1>3. AddFindings(r, ds).diagnostics \subseteq r.diagnostics \cup ds
  <2>1. AddFindings(r, ds).diagnostics = r.diagnostics \cup UNION {AddFinding(r, d).diagnostics : d \in ds}
    BY DEF AddFindings, Result
  <2> QED BY <1>2, <2>1
<1> QED BY <1>1, <1>3 DEF IsResult

LEMMA MergeKeepsResult ==
  ASSUME NEW r, IsResult(r), NEW s, IsResult(s)
  PROVE  IsResult(Merged(r, s))
  BY DEF Merged, Result, IsResult

LEMMA PlainResults ==
  /\ IsResult(ErrorResult) /\ IsResult(Skipped) /\ IsResult(Result("valid", {}))
  /\ \A p : IsResult(Result("invalid", {SyntaxFinding(p)}))
<1>1. "error" \in Severity \ {"off"}
  BY DEF Severity
<1> QED BY <1>1 DEF IsResult, ErrorResult, Skipped, Result, SyntaxFinding, Diagnostic
\* What the rules find, and the directives that are none, is typed.
LEMMA FoundIsTyped ==
  ASSUME IInv, pc = "rules", ~NoRun(case), IsLevels(view), IsLevels(explicit), NEW r \in Rules
  PROVE  \A d \in Found(Place, Config, r) :
           d.rule \in Rules \cup {"invalid-suppression", "syntax"} /\ d.severity \in Severity \ {"off"}
<1>1. IsConfig(Config)
  BY AtConfig DEF IInv, InConfig
<1>2. view = Copied(explicit, global)
  BY DEF IInv, LevelInv, ViewMade, ForPath
<1> SUFFICES ASSUME LevelOf(view, r) # "off", NEW f \in Config.finds[r]
             PROVE  (IF r \in DOMAIN explicit THEN explicit[r]
                     ELSE IF f[2] # "rule" THEN f[2] ELSE LevelOf(view, r)) \in Severity \ {"off"}
  BY DEF Found, Diagnostic
<1>3. LevelOf(view, r) \in Severity
  <2>1. OwnLevel[r] \in Severity
    BY RuleAssumption
  <2> QED BY <2>1 DEF LevelOf, IsLevels
<1>4. CASE r \in DOMAIN explicit
  <2>1. LevelOf(view, r) = explicit[r]
    BY <1>2, <1>4, CopiedOver DEF LevelOf
  <2> QED BY <1>3, <1>4, <2>1
<1>5. CASE r \notin DOMAIN explicit
  <2>1. f[2] \in {"rule"} \cup (Severity \ {"off"})
    BY <1>1 DEF IsConfig
  <2> QED BY <1>3, <1>5, <2>1
<1> QED BY <1>4, <1>5

\* That only an accepted selection gets past the flags is part of what is
\* invariant.
TypeInv ==
  /\ TypeOK
  /\ pc \notin {"flags", "rejected"} => ~NoRun(case)

\* How far the run is in the file, whatever it does there.
LEMMA PlaceIsTyped ==
  ASSUME IInv, TypeOK, IInv', [Next]_vars, ~NextFile
  PROVE  doc' \in 0..Len(case'.docs) /\ at' \in 0..(IF doc' = 0 THEN 0 ELSE Len(case'.docs[doc']))
<1> USE DEF input, levels
<1>1. case' = case /\ case \in Cases /\ Len(case.docs) \in Nat /\ doc' \in 0..Len(case.docs)
  <2>1. case' = case
    BY DEF Next, Step, Prepare, Enter, Read, Dispatch, NextDocument, Decode, NextBlock, Parse, CheckRule,
           RulesDone, LastLook, Cancel, Terminated, vars
  <2>2. case \in Cases /\ doc' \in 0..Len(case'.docs)
    BY DEF IInv, PlaceInv
  <2> QED BY <2>1, <2>2, DocumentIsSeq
<1>2. \A d \in 1..doc' : case.docs[d] # Malformed /\ Len(case.docs[d]) \in Nat
  <2> SUFFICES ASSUME NEW d \in 1..doc' PROVE case.docs[d] # Malformed /\ Len(case.docs[d]) \in Nat
    OBVIOUS
  <2>1. case.docs[d] # Malformed
    BY <1>1 DEF IInv, PlaceInv
  <2>2. d \in 1..Len(case.docs)
    BY <1>1
  <2> QED BY <1>1, <2>1, <2>2, DocumentIsSeq
<1>3. CASE doc' = doc /\ at' = at
  BY <1>1, <1>3 DEF TypeOK
<1>4. CASE pc' \in InConfig
  <2>1. doc' \in 1..Len(case.docs) /\ at' \in DOMAIN case.docs[doc']
    BY <1>1, <1>4 DEF IInv, PlaceInv
  <2>2. DOMAIN case.docs[doc'] = 1..Len(case.docs[doc'])
    BY <1>1, <1>2, <2>1, DocumentIsSeq
  <2> QED BY <1>1, <1>2, <2>1, <2>2
<1>5. CASE doc' = doc + 1 /\ at' = 0
  BY <1>1, <1>2, <1>5
<1>6. (doc' = doc /\ at' = at) \/ pc' \in InConfig \/ (doc' = doc + 1 /\ at' = 0)
  BY DEF Next, Step, Prepare, Enter, Read, Dispatch, NextDocument, Decode, NextBlock, Parse, CheckRule,
         RulesDone, LastLook, Cancel, Terminated, vars, Goto, Done, InConfig
<1> QED BY <1>1, <1>3, <1>4, <1>5, <1>6

LEMMA ConcludeIsTyped ==
  ASSUME TypeInv, NEW checked, IsResult(checked), Conclude(checked)
  PROVE  pc' \in {"block", "done"} /\ IsResult(result')
<1>1. IsResult(result)
  BY DEF TypeInv, TypeOK
<1> QED BY <1>1, MergeKeepsResult DEF Conclude, Done

\* The types hold of whatever the rules, the flags, the settings and the file
\* are: no level but the four the code knows, none of a rule there is not, no
\* finding at level off, no place outside the file.
THEOREM TypeCorrect == Spec => []TypeOK
<1>1. Init => TypeInv
  <2> SUFFICES ASSUME Init PROVE TypeInv
    OBVIOUS
  <2>1. Len(case.docs) \in Nat /\ Len(RuleList) \in Nat
    BY DocumentIsSeq, RuleAssumption DEF Init
  <2>2. IsLevels(AllAt("off", {}))
    BY DEF IsLevels, AllAt
  <2>3. doc = 0 /\ at = 0 /\ ran = 0 /\ pc = "flags" /\ cancelled = FALSE
    BY DEF Init
  <2>4. doc \in 0..Len(case.docs) /\ at \in 0..(IF doc = 0 THEN 0 ELSE Len(case.docs[doc])) /\ ran \in 0..Len(RuleList)
    BY <2>1, <2>3
  <2>5. IsLevels(global) /\ IsLevels(view) /\ IsLevels(explicit) /\ IsResult(cur) /\ IsResult(result)
    BY <2>2, PlainResults DEF Init
  <2> QED BY <2>3, <2>4, <2>5 DEF TypeInv, TypeOK
<1>2. TypeInv /\ IInv /\ IInv' /\ [Next]_vars => TypeInv'
  <2> SUFFICES ASSUME TypeInv, IInv, IInv', [Next]_vars PROVE TypeInv'
    OBVIOUS
  <2> USE DEF input, levels
  <2>0. doc' \in 0..Len(case'.docs) /\ at' \in 0..(IF doc' = 0 THEN 0 ELSE Len(case'.docs[doc']))
    BY PlaceIsTyped, NextFileIs DEF TypeInv
  <2>1. case \in Cases /\ TypeOK /\ Len(RuleList) \in Nat
    BY RuleAssumption DEF IInv, PlaceInv, TypeInv
  <2>2. CASE Prepare
    BY <2>0, <2>1, <2>2, LinterIsLevels DEF Prepare, Goto, TypeInv, TypeOK, LinterOf
  <2>3. CASE Enter \/ Read \/ NextDocument \/ NextBlock \/ RulesDone \/ Cancel
    BY <2>0, <2>1, <2>3, PlainResults
       DEF Enter, Read, NextDocument, NextBlock, RulesDone, Cancel, Goto, Done, TypeInv, TypeOK
  <2>4. CASE Dispatch \/ Decode
    BY <2>0, <2>1, <2>4, PlainResults DEF Dispatch, Decode, Goto, Done, TypeInv, TypeOK
  <2>5. CASE Parse
    <3>1. UNCHANGED <<case, cancelled, global>> /\ ~NoRun(case)
      BY <2>1, <2>5 DEF Parse, TypeInv, OwnAfter
    <3>2. CASE cancelled
      <4>1. Conclude(ErrorResult) /\ UNCHANGED <<view, explicit, ran, cur>>
        BY <2>5, <3>2 DEF Parse
      <4>2. pc' \in {"block", "done"} /\ IsResult(result')
        BY <4>1, ConcludeIsTyped, PlainResults
      <4> QED BY <2>0, <2>1, <3>1, <4>1, <4>2 DEF TypeInv, TypeOK
    <3>3. CASE ~cancelled /\ Config.broken
      <4>1. Conclude(Result("invalid", {SyntaxFinding(<<doc, at>>)})) /\ UNCHANGED <<view, explicit, ran, cur>>
        BY <2>5, <3>3 DEF Parse
      <4>2. pc' \in {"block", "done"} /\ IsResult(result')
        BY <4>1, ConcludeIsTyped, PlainResults
      <4> QED BY <2>0, <2>1, <3>1, <4>1, <4>2 DEF TypeInv, TypeOK
    <3>4. CASE ~cancelled /\ ~Config.broken
      <4>1. /\ explicit' = Explicit(global, PolicyOf(case))
            /\ view' = ForPath(global, PolicyOf(case))
            /\ ran' = 0
            /\ cur' = AddFindings(Result("valid", {}), BadDirectives(<<doc, at>>, Config))
            /\ pc' = "rules" /\ result' = result
        BY <2>5, <3>4 DEF Parse, Goto, PolicyOf
      <4>2. IsLevels(Explicit(global, PolicyOf(case)))
        BY <2>1, <3>1, PolicyIsLevels, WithoutIsLevels DEF Explicit
      <4>3. IsLevels(ForPath(global, PolicyOf(case)))
        BY <2>1, <4>2, CopiedIsLevels DEF ForPath, TypeOK
      <4>4. IsResult(cur')
        <5>1. \A d \in BadDirectives(<<doc, at>>, Config) :
                d.rule \in Rules \cup {"invalid-suppression", "syntax"} /\ d.severity \in Severity \ {"off"}
          BY DEF BadDirectives, Diagnostic, Severity
        <5> QED BY <4>1, <5>1, AddKeepsResult, PlainResults
      <4> QED BY <2>0, <2>1, <3>1, <4>1, <4>2, <4>3, <4>4 DEF TypeInv, TypeOK
    <3> QED BY <3>2, <3>3, <3>4
  <2>6. CASE CheckRule
    <3>1. UNCHANGED <<case, cancelled, global, view, explicit, result>> /\ ~NoRun(case)
          /\ pc' \in {"rules", "checked"}
      BY <2>1, <2>6 DEF CheckRule, TypeInv, Goto
    <3>2. CASE cancelled
      BY <2>0, <2>1, <2>6, <3>1, <3>2 DEF CheckRule, Goto, TypeInv, TypeOK
    <3>3. CASE ~cancelled
      <4> DEFINE r == RuleList[ran + 1]
                 new == {d \in Found(Place, Config, r) : r \notin Suppressed(Config, d.line)}
      <4>1. ran < Len(RuleList) /\ ran' = ran + 1 /\ cur' = AddFindings(cur, new) /\ pc = "rules"
        BY <2>6, <3>3 DEF CheckRule, Goto, Place
      <4>2. ran \in 0..Len(RuleList) /\ ran + 1 \in 1..Len(RuleList)
        BY <2>1, <4>1 DEF TypeOK
      <4>3. r \in Rules
        BY <4>2, RuleAssumption DEF Rules
      <4>4. \A d \in new : d.rule \in Rules \cup {"invalid-suppression", "syntax"} /\ d.severity \in Severity \ {"off"}
        BY <2>1, <3>1, <4>1, <4>3, FoundIsTyped DEF TypeOK
      <4> HIDE DEF new
      <4>5. IsResult(cur')
        BY <2>1, <4>1, <4>4, AddKeepsResult DEF TypeOK
      <4> QED BY <2>0, <2>1, <3>1, <4>1, <4>2, <4>5 DEF TypeInv, TypeOK
    <3> QED BY <3>2, <3>3
  <2>7. CASE LastLook
    <3> DEFINE checked == IF cancelled THEN ErrorResult ELSE cur
    <3>1. IsResult(checked) /\ Conclude(checked)
      BY <2>1, <2>7, PlainResults DEF LastLook, TypeOK
    <3> HIDE DEF checked
    <3>2. pc' \in {"block", "done"} /\ IsResult(result')
      BY <3>1, ConcludeIsTyped
    <3>3. UNCHANGED <<case, cancelled, global, view, explicit, ran, cur>> /\ ~NoRun(case)
      BY <2>7 DEF LastLook, TypeInv
    <3> QED BY <2>0, <2>1, <3>2, <3>3 DEF TypeInv, TypeOK
  <2>8. CASE Terminated \/ UNCHANGED vars
    BY <2>8 DEF Terminated, vars, TypeInv, TypeOK
  <2>9. CASE NextFile
    <3>1. IsLevels(view') /\ IsLevels(explicit')
      BY <2>9 DEF NextFile, IsLevels, AllAt
    <3>2. cancelled' = cancelled /\ IsLevels(global)
      BY <2>1, <2>9 DEF NextFile, TypeOK
    <3> QED BY <2>0, <2>1, <2>9, <3>1, <3>2, NextFileIs, PlainResults DEF TypeInv, TypeOK
  <2> QED BY <2>2, <2>3, <2>4, <2>5, <2>6, <2>7, <2>8, <2>9 DEF Next, Step
<1>3. TypeInv => TypeOK
  BY DEF TypeInv
<1> QED BY <1>1, <1>2, <1>3, Invariance, PTL DEF Spec

-----------------------------------------------------------------------------
(* Numbers, and recursions on them. *)

\* A set of naturals has a least element.
LEMMA LeastNatural ==
  ASSUME NEW S, S \subseteq Nat, S # {}
  PROVE  \E m \in S : \A x \in S : m <= x
<1>1. PICK m \in S : \A y \in S : ~ (<<y, m>> \in OpToRel(<, Nat))
  BY NatLessThanWellFounded, WFMin
<1>2. \A x \in S : ~ (x < m)
  BY <1>1 DEF OpToRel
<1> QED BY <1>2

\* What holds of 0, and of the next number with a number, holds up to n.
LEMMA HoldsUpTo ==
  ASSUME NEW n \in Nat, NEW S, 0 \in S, \A k \in 0..(n - 1) : k \in S => k + 1 \in S
  PROVE  0..n \subseteq S
<1> DEFINE T == {k \in 0..n : k \notin S}
<1> SUFFICES ASSUME T # {} PROVE FALSE
  OBVIOUS
<1>1. T \subseteq Nat
  OBVIOUS
<1>2. PICK m \in T : \A x \in T : m <= x
  <2> HIDE DEF T
  <2> QED BY <1>1, LeastNatural
<1>3. m # 0 /\ m - 1 \in 0..(n - 1)
  OBVIOUS
<1>4. m - 1 \notin T
  <2>1. ~(m <= m - 1)
    BY <1>3
  <2> QED BY <1>2, <2>1
<1>5. m - 1 \in S /\ (m - 1) + 1 = m
  BY <1>3, <1>4
<1> QED BY <1>3, <1>5

\* A recursion on the numbers up to n has a value, if its step does.
Recurs(f, n, base, Op) == f[0] = base /\ \A k \in 1..n : f[k] = Op[<<k, f[k - 1]>>]

LEMMA RecursionExists ==
  ASSUME NEW n \in Nat, NEW V, NEW base \in V, NEW Op \in [(1..n) \X V -> V]
  PROVE  \E f \in [0..n -> V] : Recurs(f, n, base, Op)
<1> DEFINE S == {k \in 0..n : \E f \in [0..k -> V] : Recurs(f, k, base, Op)}
<1>1. 0 \in S
  <2> DEFINE f == [i \in 0..0 |-> base]
  <2>1. f \in [0..0 -> V] /\ f[0] = base /\ 0 \in 0..n /\ ~ \E i : i \in 1..0
    OBVIOUS
  <2> HIDE DEF f
  <2>2. Recurs(f, 0, base, Op)
    BY <2>1 DEF Recurs
  <2> QED BY <2>1, <2>2
<1>2. ASSUME NEW k \in 0..(n - 1), k \in S
      PROVE  k + 1 \in S
  <2>1. PICK f \in [0..k -> V] : Recurs(f, k, base, Op)
    BY <1>2
  <2> DEFINE g == [i \in 0..(k + 1) |-> IF i = k + 1 THEN Op[<<k + 1, f[k]>>] ELSE f[i]]
  <2>2. k \in 0..k /\ k + 1 \in 1..n /\ k + 1 \in 0..n
    OBVIOUS
  <2>3. Op[<<k + 1, f[k]>>] \in V
    BY <2>1, <2>2
  <2>4. g \in [0..(k + 1) -> V]
    <3>1. \A i \in 0..(k + 1) : i # k + 1 => i \in 0..k
      OBVIOUS
    <3> QED BY <2>1, <2>3, <3>1
  <2>5. g[k + 1] = Op[<<k + 1, f[k]>>] /\ \A i \in 0..k : g[i] = f[i]
    OBVIOUS
  <2> HIDE DEF g
  <2>6. \A i \in 1..(k + 1) : g[i] = Op[<<i, g[i - 1]>>]
    <3> TAKE i \in 1..(k + 1)
    <3>1. CASE i = k + 1
      <4>1. i - 1 = k
        BY <3>1
      <4> QED BY <2>2, <2>5, <3>1, <4>1
    <3>2. CASE i # k + 1
      <4>1. i \in 1..k /\ i \in 0..k /\ i - 1 \in 0..k
        BY <3>2
      <4> QED BY <2>1, <2>5, <4>1 DEF Recurs
    <3> QED BY <3>1, <3>2
  <2>7. g[0] = base
    <3>1. 0 \in 0..k
      OBVIOUS
    <3> QED BY <2>1, <2>5, <3>1 DEF Recurs
  <2>8. Recurs(g, k + 1, base, Op)
    BY <2>6, <2>7 DEF Recurs
  <2> QED BY <2>2, <2>4, <2>8
<1> HIDE DEF S
<1>3. 0..n \subseteq S
  BY <1>1, <1>2, HoldsUpTo
<1>4. n \in 0..n
  OBVIOUS
<1> QED BY <1>3, <1>4 DEF S

-----------------------------------------------------------------------------
(* Sequences of sequences, joined. *)

\* The library's recursion goes through the parts one by one.
LEMMA JoinSteps ==
  ASSUME NEW V, NEW parts \in Seq(Seq(V))
  PROVE  \E g : /\ g[0] = <<>>
                /\ \A k \in 1..Len(parts) : g[k] = g[k - 1] \o parts[k]
                /\ \A k \in 0..Len(parts) : g[k] \in Seq(V)
                /\ FlattenSeq(parts) = g[Len(parts)]
<1> DEFINE n == Len(parts)
           Op == [p \in (1..n) \X Seq(V) |-> p[2] \o parts[p[1]]]
<1>1. n \in Nat /\ \A k \in 1..n : parts[k] \in Seq(V)
  BY ElementOfSeq, LenProperties
<1>2. <<>> \in Seq(V)
  BY EmptySeq
<1>3. \A x \in Seq(V), k \in 1..n : x \o parts[k] \in Seq(V)
  BY <1>1, ConcatProperties
<1>4. Op \in [(1..n) \X Seq(V) -> Seq(V)]
  BY <1>3
<1> HIDE DEF n
<1>5. PICK f \in [0..n -> Seq(V)] : Recurs(f, n, <<>>, Op)
  BY <1>1, <1>2, <1>4, RecursionExists
<1>6. f[0] = <<>> /\ \A k \in 1..n : f[k] = f[k - 1] \o parts[k]
  <2>1. \A k \in 1..n : k - 1 \in 0..n
    BY <1>1
  <2>2. \A k \in 1..n : f[k - 1] \in Seq(V)
    BY <1>5, <2>1
  <2>3. f[0] = <<>> /\ \A k \in 1..n : f[k] = Op[<<k, f[k - 1]>>]
    BY <1>5 DEF Recurs
  <2> QED BY <2>2, <2>3
<1>7. CASE n = 0
  <2>1. parts = <<>> /\ FlattenSeq(parts) = parts
    BY <1>7, EmptySeq DEF FlattenSeq, n
  <2> QED BY <1>2, <1>5, <1>6, <1>7, <2>1 DEF n
<1>8. CASE n # 0
  <2> DEFINE h == [i \in 1..n |-> f[i]]
  <2>1. \A i \in 1..n : i # 1 => i - 1 \in 1..n
    BY <1>1
  <2>2. f[1] = parts[1]
    <3>1. 1 \in 1..n /\ 1 - 1 = 0
      BY <1>1, <1>8
    <3>2. f[1] = <<>> \o parts[1] /\ parts[1] \in Seq(V)
      BY <1>1, <1>6, <3>1
    <3> QED BY <3>2, ConcatEmptySeq
  <2>3. h = [i \in 1..n |-> IF i = 1 THEN parts[i] ELSE h[i - 1] \o parts[i]]
    BY <1>6, <2>1, <2>2
  <2> HIDE DEF h
  <2>4. \E g : /\ g = [i \in 1..n |-> IF i = 1 THEN parts[i] ELSE g[i - 1] \o parts[i]]
               /\ FlattenSeq(parts) = g[n]
    BY <1>8, <2>3 DEF FlattenSeq, n
  <2>5. PICK g : /\ g = [i \in 1..n |-> IF i = 1 THEN parts[i] ELSE g[i - 1] \o parts[i]]
                 /\ FlattenSeq(parts) = g[n]
    BY <2>4
  <2>6. \A i \in 1..n : g[i] = IF i = 1 THEN parts[i] ELSE g[i - 1] \o parts[i]
    BY <2>5
  <2> DEFINE S == {k \in 0..n : k = 0 \/ g[k] = f[k]}
  <2>7. 0 \in S
    BY <1>1
  <2>8. ASSUME NEW k \in 0..(n - 1), k \in S
        PROVE  k + 1 \in S
    <3>1. k + 1 \in 1..n /\ k + 1 \in 0..n /\ (k + 1) - 1 = k
      BY <1>1
    <3>2. f[k + 1] = f[k] \o parts[k + 1]
      BY <1>6, <3>1
    <3>3. k = 0 => g[k + 1] = f[k + 1]
      BY <2>2, <2>6, <3>1
    <3>4. k # 0 => g[k] = f[k] /\ k + 1 # 1
      BY <1>1, <2>8
    <3>5. k + 1 # 1 => g[k + 1] = g[(k + 1) - 1] \o parts[k + 1]
      BY <2>6, <3>1, Zenon
    <3> QED BY <3>1, <3>2, <3>3, <3>4, <3>5
  <2>9. n \in S
    <3> HIDE DEF S
    <3>1. 0..n \subseteq S
      BY <1>1, <2>7, <2>8, HoldsUpTo
    <3> QED BY <1>1, <3>1
  <2>10. FlattenSeq(parts) = f[n]
    BY <1>8, <2>5, <2>9
  <2> QED BY <1>5, <1>6, <2>10 DEF n
<1> QED BY <1>7, <1>8

\* One more part is joined at the end.
LEMMA JoinAppend ==
  ASSUME NEW V, NEW parts \in Seq(Seq(V)), NEW p \in Seq(V)
  PROVE  /\ FlattenSeq(Append(parts, p)) = FlattenSeq(parts) \o p
         /\ FlattenSeq(parts) \in Seq(V) /\ Append(parts, p) \in Seq(Seq(V))
<1> DEFINE n == Len(parts)
           q == Append(parts, p)
<1>1. n \in Nat /\ q \in Seq(Seq(V)) /\ Len(q) = n + 1 /\ q[n + 1] = p /\ \A i \in 1..n : q[i] = parts[i]
  BY AppendProperties, LenProperties
<1> HIDE DEF q, n
<1>2. PICK f : /\ f[0] = <<>> /\ \A k \in 1..n : f[k] = f[k - 1] \o parts[k]
               /\ \A k \in 0..n : f[k] \in Seq(V)
               /\ FlattenSeq(parts) = f[n]
  BY JoinSteps DEF n
<1>3. PICK g : /\ g[0] = <<>> /\ \A k \in 1..(n + 1) : g[k] = g[k - 1] \o q[k]
               /\ FlattenSeq(q) = g[n + 1]
  <2>1. \E g : /\ g[0] = <<>>
               /\ \A k \in 1..Len(q) : g[k] = g[k - 1] \o q[k]
               /\ \A k \in 0..Len(q) : g[k] \in Seq(V)
               /\ FlattenSeq(q) = g[Len(q)]
    BY <1>1, JoinSteps
  <2> QED BY <1>1, <2>1
<1> DEFINE S == {k \in 0..n : g[k] = f[k]}
<1>4. 0 \in S
  BY <1>1, <1>2, <1>3
<1>5. ASSUME NEW k \in 0..(n - 1), k \in S
      PROVE  k + 1 \in S
  <2>1. k + 1 \in 1..n /\ k + 1 \in 1..(n + 1) /\ k + 1 \in 0..n /\ (k + 1) - 1 = k
    BY <1>1
  <2>2. f[k + 1] = f[k] \o parts[k + 1] /\ g[k + 1] = g[k] \o q[k + 1] /\ q[k + 1] = parts[k + 1]
    BY <1>1, <1>2, <1>3, <2>1
  <2> QED BY <1>5, <2>1, <2>2
<1>6. n \in S /\ n \in 0..n
  <2> HIDE DEF S
  <2>1. 0..n \subseteq S
    BY <1>1, <1>4, <1>5, HoldsUpTo
  <2> QED BY <1>1, <2>1
<1>7. g[n + 1] = g[n] \o q[n + 1]
  <2>1. n + 1 \in 1..(n + 1) /\ (n + 1) - 1 = n
    BY <1>1
  <2> QED BY <1>3, <2>1
<1>8. FlattenSeq(q) = FlattenSeq(parts) \o p
  BY <1>1, <1>2, <1>3, <1>6, <1>7
<1> QED BY <1>1, <1>2, <1>6, <1>8 DEF q

\* Nothing joined is nothing.
LEMMA JoinNothing == FlattenSeq(<<>>) = <<>>
<1>1. Len(<<>>) = 0
  BY EmptySeq
<1> QED BY <1>1 DEF FlattenSeq

\* The first of the members, one more with each place.
FirstOnes(s, k) == [i \in 1..k |-> s[i]]

\* They begin with none, and end with all.
LEMMA FirstOnesAre ==
  ASSUME NEW V, NEW s \in Seq(V)
  PROVE  /\ Len(s) \in Nat /\ FirstOnes(s, 0) = <<>> /\ FirstOnes(s, Len(s)) = s
         /\ \A k \in 0..Len(s) : FirstOnes(s, k) \in Seq(V) /\ Len(FirstOnes(s, k)) = k
         /\ \A k \in 0..(Len(s) - 1) : FirstOnes(s, k + 1) = Append(FirstOnes(s, k), s[k + 1]) /\ s[k + 1] \in V
<1> DEFINE n == Len(s)
<1>1. n \in Nat /\ s = [i \in 1..n |-> s[i]] /\ \A i \in 1..n : s[i] \in V
  BY LenProperties, ElementOfSeq
<1> HIDE DEF n
<1>2. ASSUME NEW k \in 0..n
      PROVE  FirstOnes(s, k) \in Seq(V) /\ Len(FirstOnes(s, k)) = k
  <2>1. k \in Nat /\ \A i \in 1..k : s[i] \in V
    BY <1>1
  <2>2. FirstOnes(s, k) \in [1..k -> V]
    BY <2>1 DEF FirstOnes
  <2> QED BY <2>1, <2>2, SeqDef
<1>3. FirstOnes(s, 0) = <<>>
  <2>1. Len(FirstOnes(s, 0)) = 0 /\ FirstOnes(s, 0) \in Seq(V)
    BY <1>1, <1>2
  <2> QED BY <2>1, EmptySeq
<1>4. FirstOnes(s, n) = s
  BY <1>1 DEF FirstOnes
<1>5. ASSUME NEW k \in 0..(n - 1)
      PROVE  FirstOnes(s, k + 1) = Append(FirstOnes(s, k), s[k + 1]) /\ s[k + 1] \in V
  <2> DEFINE a == FirstOnes(s, k)
             b == Append(a, s[k + 1])
             c == FirstOnes(s, k + 1)
  <2>1. k \in 0..n /\ k + 1 \in 0..n /\ k + 1 \in 1..n /\ k \in Nat
    BY <1>1
  <2>2. a \in Seq(V) /\ Len(a) = k /\ c \in Seq(V) /\ Len(c) = k + 1 /\ s[k + 1] \in V
    BY <1>1, <1>2, <2>1
  <2>3. \A i \in 1..k : a[i] = s[i]
    BY DEF FirstOnes
  <2>4. \A i \in 1..(k + 1) : c[i] = s[i]
    BY DEF FirstOnes
  <2> HIDE DEF a, c
  <2>5. b \in Seq(V) /\ Len(b) = k + 1 /\ b[k + 1] = s[k + 1] /\ \A i \in 1..k : b[i] = a[i]
    BY <2>2, AppendProperties
  <2>6. \A i \in 1..(k + 1) : i = k + 1 \/ i \in 1..k
    BY <2>1
  <2> HIDE DEF b
  <2>7. \A i \in 1..(k + 1) : c[i] = b[i]
    BY <2>3, <2>4, <2>5, <2>6
  <2>8. c = b
    BY <2>2, <2>5, <2>7, SeqEqual
  <2> QED BY <2>2, <2>8 DEF a, b, c
<1> QED BY <1>1, <1>2, <1>3, <1>4, <1>5 DEF n

\* Two lists of parts are joined as their joins are.
LEMMA JoinConcat ==
  ASSUME NEW V, NEW a \in Seq(Seq(V)), NEW b \in Seq(Seq(V))
  PROVE  FlattenSeq(a \o b) = FlattenSeq(a) \o FlattenSeq(b)
<1> DEFINE n == Len(b)
           Up(k) == FirstOnes(b, k)
           P(u) == FlattenSeq(a \o u) = FlattenSeq(a) \o FlattenSeq(u)
           S == {k \in 0..n : P(Up(k))}
<1>1. n \in Nat
  BY LenProperties
<1>2. Up(0) = <<>> /\ Up(n) = b
  BY FirstOnesAre
<1>3. ASSUME NEW k \in 0..(n - 1)
      PROVE  Up(k) \in Seq(Seq(V)) /\ b[k + 1] \in Seq(V) /\ Up(k + 1) = Append(Up(k), b[k + 1])
  <2>1. k \in 0..n
    BY <1>1
  <2> HIDE DEF n
  <2> QED BY <2>1, FirstOnesAre DEF n
<1>4. FlattenSeq(a) \in Seq(V)
  BY JoinAppend, EmptySeq
<1>5. P(<<>>)
  <2>1. a \o <<>> = a /\ FlattenSeq(a) \o <<>> = FlattenSeq(a)
    BY <1>4, ConcatEmptySeq
  <2> QED BY <2>1, JoinNothing
<1>6. ASSUME NEW u \in Seq(Seq(V)), NEW x \in Seq(V), P(u)
      PROVE  P(Append(u, x))
  <2>1. a \o Append(u, x) = Append(a \o u, x) /\ a \o u \in Seq(Seq(V))
    <3>1. <<x>> \in Seq(Seq(V))
      <4> DEFINE W == Seq(V)
      <4> HIDE DEF W
      <4>1. x \in W => <<x>> \in Seq(W)
        OBVIOUS
      <4> QED BY <4>1 DEF W
    <3>2. Append(u, x) = u \o <<x>> /\ a \o u \in Seq(Seq(V))
      BY AppendIsConcat, ConcatProperties
    <3>3. Append(a \o u, x) = (a \o u) \o <<x>>
      BY <3>2, AppendIsConcat
    <3>4. (a \o u) \o <<x>> = a \o (u \o <<x>>)
      BY <3>1, ConcatAssociative
    <3> QED BY <3>2, <3>3, <3>4, Zenon
  <2>2. FlattenSeq(Append(a \o u, x)) = FlattenSeq(a \o u) \o x
    BY <2>1, JoinAppend
  <2>3. FlattenSeq(Append(u, x)) = FlattenSeq(u) \o x /\ FlattenSeq(u) \in Seq(V)
    BY JoinAppend
  <2>4. (FlattenSeq(a) \o FlattenSeq(u)) \o x = FlattenSeq(a) \o (FlattenSeq(u) \o x)
    <3> DEFINE f == FlattenSeq(a)
               g == FlattenSeq(u)
    <3>1. f \in Seq(V) /\ g \in Seq(V)
      BY <1>4, <2>3
    <3> HIDE DEF f, g
    <3>2. (f \o g) \o x = f \o (g \o x)
      BY <3>1, ConcatAssociative
    <3> QED BY <3>2 DEF f, g
  <2> QED BY <1>6, <2>1, <2>2, <2>3, <2>4, Zenon
<1> HIDE DEF Up, n, P
<1>7. 0 \in S
  BY <1>1, <1>2, <1>5
<1>8. ASSUME NEW k \in 0..(n - 1), k \in S
      PROVE  k + 1 \in S
  <2>1. P(Up(k)) /\ k + 1 \in 0..n
    BY <1>1, <1>8
  <2>2. P(Append(Up(k), b[k + 1]))
    BY <1>3, <1>6, <2>1
  <2> QED BY <1>3, <2>1, <2>2
<1>9. n \in S
  <2> HIDE DEF S
  <2>1. 0..n \subseteq S
    BY <1>1, <1>7, <1>8, HoldsUpTo
  <2> QED BY <1>1, <2>1
<1> QED BY <1>2, <1>9 DEF P

-----------------------------------------------------------------------------
(* The lines of one kind, and how many members are of a kind. *)

PartsOf(lines, what) == [i \in DOMAIN lines |-> IF lines[i].what = what THEN <<lines[i]>> ELSE <<>>]

\* Each line is a part of its own, or of none.
LEMMA PartsAre ==
  ASSUME NEW L, NEW s \in Seq(L), NEW what
  PROVE  /\ PartsOf(s, what) \in Seq(Seq(L)) /\ Len(PartsOf(s, what)) = Len(s)
         /\ LinesOf(s, what) = FlattenSeq(PartsOf(s, what)) /\ LinesOf(s, what) \in Seq(L)
         /\ \A i \in 1..Len(s) : PartsOf(s, what)[i] = IF s[i].what = what THEN <<s[i]>> ELSE <<>>
<1> DEFINE W == Seq(L)
           n == Len(s)
           p == PartsOf(s, what)
<1>1. n \in Nat /\ DOMAIN s = 1..n /\ \A i \in 1..n : s[i] \in L
  BY LenProperties, ElementOfSeq
<1>2. \A x \in L : <<x>> \in W /\ <<>> \in W
  OBVIOUS
<1> HIDE DEF W, n
<1>3. p = [i \in 1..n |-> IF s[i].what = what THEN <<s[i]>> ELSE <<>>]
  BY <1>1 DEF PartsOf
<1>4. \A i \in 1..n : p[i] = IF s[i].what = what THEN <<s[i]>> ELSE <<>>
  BY <1>3
<1>5. p \in [1..n -> W]
  <2>1. \A i \in 1..n : (IF s[i].what = what THEN <<s[i]>> ELSE <<>>) \in W
    BY <1>1, <1>2
  <2> QED BY <1>3, <2>1
<1>6. p \in Seq(W) /\ Len(p) = n
  BY <1>1, <1>5, SeqDef
<1>7. p \in Seq(Seq(L))
  BY <1>6 DEF W
<1>8. LinesOf(s, what) = FlattenSeq(p)
  BY DEF LinesOf, PartsOf
<1>9. FlattenSeq(p) \in Seq(L)
  BY <1>7, JoinAppend, EmptySeq
<1> QED BY <1>4, <1>6, <1>7, <1>8, <1>9 DEF n

\* The lines of a kind of two texts are those of the one, then of the other.
LEMMA LinesConcat ==
  ASSUME NEW L, NEW s \in Seq(L), NEW t \in Seq(L), NEW what
  PROVE  LinesOf(s \o t, what) = LinesOf(s, what) \o LinesOf(t, what) /\ s \o t \in Seq(L)
<1> DEFINE p == PartsOf(s, what)
           q == PartsOf(t, what)
           r == PartsOf(s \o t, what)
           a == Len(s)
           b == Len(t)
           One(x) == IF x.what = what THEN <<x>> ELSE <<>>
<1>1. a \in Nat /\ b \in Nat
  BY LenProperties
<1>2. s \o t \in Seq(L) /\ Len(s \o t) = a + b
      /\ \A i \in 1..(a + b) : (s \o t)[i] = IF i <= a THEN s[i] ELSE t[i - a]
  BY ConcatProperties
<1>3. p \in Seq(Seq(L)) /\ Len(p) = a /\ LinesOf(s, what) = FlattenSeq(p) /\ \A i \in 1..a : p[i] = One(s[i])
  BY PartsAre
<1>4. q \in Seq(Seq(L)) /\ Len(q) = b /\ LinesOf(t, what) = FlattenSeq(q) /\ \A i \in 1..b : q[i] = One(t[i])
  BY PartsAre
<1>5. /\ r \in Seq(Seq(L)) /\ Len(r) = a + b /\ LinesOf(s \o t, what) = FlattenSeq(r)
      /\ \A i \in 1..(a + b) : r[i] = One((s \o t)[i])
  <2>1. s \o t \in Seq(L)
    BY <1>2
  <2> DEFINE u == s \o t
  <2>2. u \in Seq(L) /\ Len(u) = a + b
    BY <1>2
  <2> HIDE DEF u, a, b
  <2>3. /\ PartsOf(u, what) \in Seq(Seq(L)) /\ Len(PartsOf(u, what)) = Len(u)
        /\ LinesOf(u, what) = FlattenSeq(PartsOf(u, what))
        /\ \A i \in 1..Len(u) : PartsOf(u, what)[i] = One(u[i])
    BY <2>2, PartsAre
  <2> QED BY <2>2, <2>3, Zenon DEF u
<1> HIDE DEF p, q, r, a, b, One
<1>6. r = p \o q
  <2>1. p \o q \in Seq(Seq(L)) /\ Len(p \o q) = a + b
        /\ \A i \in 1..(a + b) : (p \o q)[i] = IF i <= a THEN p[i] ELSE q[i - a]
    BY <1>3, <1>4, ConcatProperties
  <2>2. ASSUME NEW i \in 1..(a + b) PROVE r[i] = (p \o q)[i]
    <3>1. (i <= a => i \in 1..a) /\ (~(i <= a) => i - a \in 1..b)
      BY <1>1
    <3>2. r[i] = One((s \o t)[i])
      BY <1>5
    <3>3. (s \o t)[i] = IF i <= a THEN s[i] ELSE t[i - a]
      BY <1>2
    <3>4. (p \o q)[i] = IF i <= a THEN p[i] ELSE q[i - a]
      BY <2>1
    <3>5. CASE i <= a
      <4>1. r[i] = One(s[i]) /\ (p \o q)[i] = p[i] /\ i \in 1..a
        BY <3>1, <3>2, <3>3, <3>4, <3>5, Zenon
      <4> QED BY <1>3, <4>1, Zenon
    <3>6. CASE ~(i <= a)
      <4>1. r[i] = One(t[i - a]) /\ (p \o q)[i] = q[i - a] /\ i - a \in 1..b
        BY <3>1, <3>2, <3>3, <3>4, <3>6, Zenon
      <4> QED BY <1>4, <4>1, Zenon
    <3> QED BY <3>5, <3>6
  <2> DEFINE c == p \o q
  <2>3. c \in Seq(Seq(L)) /\ Len(c) = Len(r) /\ \A i \in 1..Len(r) : r[i] = c[i]
    BY <1>5, <2>1, <2>2, Zenon
  <2> HIDE DEF c
  <2>4. r = c
    BY <1>5, <2>3, SeqEqual
  <2> QED BY <2>4 DEF c
<1>7. FlattenSeq(p \o q) = FlattenSeq(p) \o FlattenSeq(q)
  BY <1>3, <1>4, JoinConcat
<1> QED BY <1>2, <1>3, <1>4, <1>5, <1>6, <1>7, Zenon

\* A line is of its own kind only.
LEMMA LinesOfOne ==
  ASSUME NEW L, NEW x \in L, NEW what
  PROVE  LinesOf(<<x>>, what) = (IF x.what = what THEN <<x>> ELSE <<>>) /\ LinesOf(<<>>, what) = <<>>
<1> DEFINE y == IF x.what = what THEN <<x>> ELSE <<>>
           s == <<x>>
<1>1. s \in Seq(L) /\ Len(s) = 1 /\ s[1] = x /\ y \in Seq(L)
  OBVIOUS
<1>2. PartsOf(s, what) = <<y>>
  <2>1. DOMAIN s = {1} /\ 1..1 = {1}
    OBVIOUS
  <2>2. PartsOf(s, what) = [i \in 1..1 |-> y]
    BY <1>1, <2>1 DEF PartsOf
  <2> HIDE DEF y
  <2> QED BY <2>2
<1>3. LinesOf(s, what) = FlattenSeq(<<y>>)
  BY <1>2 DEF LinesOf, PartsOf
<1>4. FlattenSeq(<<y>>) = y
  <2> DEFINE W == Seq(L)
  <2> HIDE DEF y, W
  <2>1. <<>> \in Seq(W) /\ Append(<<>>, y) = <<y>>
    OBVIOUS
  <2>2. <<>> \in Seq(Seq(L))
    BY <2>1 DEF W
  <2>3. FlattenSeq(Append(<<>>, y)) = FlattenSeq(<<>>) \o y
    BY <1>1, <2>2, JoinAppend
  <2>4. <<>> \o y = y
    BY <1>1, ConcatEmptySeq
  <2> QED BY <2>1, <2>3, <2>4, JoinNothing
<1>5. LinesOf(<<>>, what) = <<>>
  <2>1. PartsOf(<<>>, what) = <<>>
    BY DEF PartsOf
  <2> QED BY <2>1, JoinNothing DEF LinesOf, PartsOf
<1> QED BY <1>3, <1>4, <1>5

\* All lines are of the kind, or none is.
LEMMA LinesAllOrNone ==
  ASSUME NEW L, NEW s \in Seq(L), NEW what
  PROVE  /\ (\A i \in 1..Len(s) : s[i].what = what) => LinesOf(s, what) = s
         /\ (\A i \in 1..Len(s) : s[i].what # what) => LinesOf(s, what) = <<>>
<1> DEFINE n == Len(s)
           Up(k) == FirstOnes(s, k)
           All == \A i \in 1..n : s[i].what = what
           None == \A i \in 1..n : s[i].what # what
           P(u) == (All => LinesOf(u, what) = u) /\ (None => LinesOf(u, what) = <<>>)
           S == {k \in 0..n : P(Up(k))}
<1>1. n \in Nat /\ Up(0) = <<>> /\ Up(n) = s
  BY FirstOnesAre
<1>2. ASSUME NEW k \in 0..(n - 1)
      PROVE  Up(k) \in Seq(L) /\ s[k + 1] \in L /\ Up(k + 1) = Append(Up(k), s[k + 1]) /\ k + 1 \in 1..n /\ k + 1 \in 0..n
  <2>1. k \in 0..n /\ k + 1 \in 1..n /\ k + 1 \in 0..n
    BY <1>1
  <2> HIDE DEF n
  <2> QED BY <2>1, FirstOnesAre DEF n
<1>3. P(<<>>)
  <2>1. LinesOf(<<>>, what) = <<>>
    <3>1. PartsOf(<<>>, what) = <<>>
      BY DEF PartsOf
    <3> QED BY <3>1, JoinNothing DEF LinesOf, PartsOf
  <2> QED BY <2>1
<1>4. ASSUME NEW u \in Seq(L), NEW k \in 1..n, s[k] \in L, P(u)
      PROVE  P(Append(u, s[k]))
  <2> DEFINE x == s[k]
  <2>1. x \in L /\ (All => x.what = what) /\ (None => x.what # what)
    BY <1>4
  <2> HIDE DEF x, All, None
  <2>2. Append(u, x) = u \o <<x>> /\ <<x>> \in Seq(L)
    BY <2>1, AppendIsConcat
  <2>3. LinesOf(u \o <<x>>, what) = LinesOf(u, what) \o LinesOf(<<x>>, what)
    <3> DEFINE y == <<x>>
    <3>1. y \in Seq(L)
      BY <2>2
    <3> HIDE DEF y
    <3>2. LinesOf(u \o y, what) = LinesOf(u, what) \o LinesOf(y, what)
      BY <3>1, LinesConcat
    <3> QED BY <3>2 DEF y
  <2>4. LinesOf(<<x>>, what) = IF x.what = what THEN <<x>> ELSE <<>>
    BY <2>1, LinesOfOne
  <2>5. CASE All
    BY <1>4, <2>1, <2>2, <2>3, <2>4, <2>5 DEF All, None, x
  <2>6. CASE None
    <3>1. <<>> \o <<>> = <<>>
      OBVIOUS
    <3> QED BY <1>4, <2>1, <2>2, <2>3, <2>4, <2>6, <3>1 DEF x
  <2>7. CASE ~All /\ ~None
    BY <2>7
  <2> QED BY <2>5, <2>6, <2>7 DEF x
<1> HIDE DEF Up, n, P
<1>5. 0 \in S
  BY <1>1, <1>3
<1>6. ASSUME NEW k \in 0..(n - 1), k \in S
      PROVE  k + 1 \in S
  <2>1. P(Up(k))
    BY <1>6
  <2>2. P(Append(Up(k), s[k + 1]))
    BY <1>2, <1>4, <2>1
  <2> QED BY <1>2, <2>2
<1>7. n \in S
  <2> HIDE DEF S
  <2>1. 0..n \subseteq S
    BY <1>1, <1>5, <1>6, HoldsUpTo
  <2> QED BY <1>1, <2>1
<1> QED BY <1>1, <1>7 DEF P, n

\* The members of a kind of two lists, one after the other.
PlacesIn(s, kind) == {i \in DOMAIN s : s[i] \in kind}

\* What is counted in two sequences is counted in the one or in the other.
LEMMA CountConcat ==
  ASSUME NEW V, NEW s \in Seq(V), NEW t \in Seq(V), NEW kind
  PROVE  /\ Cardinality(PlacesIn(s, kind)) \in Nat /\ Cardinality(PlacesIn(t, kind)) \in Nat
         /\ Cardinality(PlacesIn(s \o t, kind)) = Cardinality(PlacesIn(s, kind)) + Cardinality(PlacesIn(t, kind))
<1> DEFINE a == Len(s)
           b == Len(t)
           A == PlacesIn(s, kind)
           B == PlacesIn(t, kind)
           C == {j + a : j \in B}
<1>1. a \in Nat /\ b \in Nat /\ DOMAIN s = 1..a /\ DOMAIN t = 1..b
  BY LenProperties
<1>2. /\ DOMAIN (s \o t) = 1..(a + b)
      /\ \A i \in 1..(a + b) : (s \o t)[i] = IF i <= a THEN s[i] ELSE t[i - a]
  <2>1. s \o t \in Seq(V) /\ Len(s \o t) = a + b
    BY ConcatProperties
  <2> QED BY <2>1, ConcatProperties, LenProperties
<1> HIDE DEF a, b
<1>3. A \subseteq 1..a /\ B \subseteq 1..b
  BY <1>1 DEF PlacesIn
<1>4. IsFiniteSet(A) /\ IsFiniteSet(B) /\ Cardinality(A) \in Nat /\ Cardinality(B) \in Nat
  <2>1. IsFiniteSet(1..a) /\ IsFiniteSet(1..b)
    BY <1>1, FS_Interval
  <2> HIDE DEF A, B
  <2>2. A \in SUBSET (1..a) /\ B \in SUBSET (1..b)
    BY <1>3
  <2> QED BY <2>1, <2>2, FS_Subset, FS_CardinalityType
<1>5. PlacesIn(s \o t, kind) = A \cup C
  <2>1. \A i \in 1..(a + b) : (s \o t)[i] \in kind <=> i \in A \/ i \in C
    <3> SUFFICES ASSUME NEW i \in 1..(a + b) PROVE (s \o t)[i] \in kind <=> i \in A \/ i \in C
      OBVIOUS
    <3>1. CASE i <= a
      <4>1. i \in 1..a
        BY <1>1, <3>1
      <4>2. \A j \in 1..b : j + a # i
        BY <1>1, <3>1
      <4>3. i \notin C
        BY <1>3, <4>2
      <4>4. (s \o t)[i] = s[i]
        BY <1>2, <3>1
      <4> QED BY <1>1, <4>1, <4>3, <4>4 DEF PlacesIn
    <3>2. CASE ~(i <= a)
      <4>1. i - a \in 1..b /\ i \notin 1..a /\ (i - a) + a = i
        BY <1>1, <3>2
      <4>2. (s \o t)[i] = t[i - a]
        BY <1>2, <3>2
      <4>3. i \notin A
        BY <1>3, <4>1
      <4>4. \A j \in 1..b : j + a = i => j = i - a
        BY <1>1
      <4>5. i \in C <=> i - a \in B
        <5> HIDE DEF B
        <5> QED BY <1>3, <4>1, <4>4
      <4>6. i - a \in B <=> t[i - a] \in kind
        BY <1>1, <4>1 DEF PlacesIn
      <4> QED BY <4>2, <4>3, <4>5, <4>6
    <3> QED BY <3>1, <3>2
  <2>2. A \subseteq 1..(a + b) /\ C \subseteq 1..(a + b)
    <3>1. \A j \in 1..b : j + a \in 1..(a + b)
      BY <1>1
    <3>2. \A i \in 1..a : i \in 1..(a + b)
      BY <1>1
    <3> HIDE DEF A, B
    <3> QED BY <1>3, <3>1, <3>2
  <2> HIDE DEF A, B, C
  <2> QED BY <1>2, <2>1, <2>2 DEF PlacesIn
<1> HIDE DEF A, B
<1>6. A \cap C = {}
  <2>1. \A i \in 1..a, j \in 1..b : j + a # i
    BY <1>1
  <2> QED BY <1>3, <2>1
<1>7. IsFiniteSet(C) /\ Cardinality(C) = Cardinality(B)
  <2> DEFINE f == [j \in B |-> j + a]
  <2>1. f \in [B -> C]
    OBVIOUS
  <2>2. \A i, j \in B : f[i] = f[j] => i = j
    <3>1. \A i, j \in 1..b : i + a = j + a => i = j
      BY <1>1
    <3> QED BY <1>3, <3>1
  <2>3. \A y \in C : \E j \in B : f[j] = y
    OBVIOUS
  <2> HIDE DEF f, C
  <2>4. ExistsBijection(B, C)
    BY <2>1, <2>2, <2>3 DEF ExistsBijection, Bijection, Injection, Surjection, IsInjective
  <2> QED BY <1>4, <2>4, FS_Bijection
<1> HIDE DEF C
<1>8. Cardinality(A \cup C) = Cardinality(A) + Cardinality(C) - Cardinality(A \cap C)
  BY <1>4, <1>7, FS_Union
<1>9. Cardinality(A \cap C) = 0
  BY <1>6, FS_EmptySet
<1>10. Cardinality(A \cup C) = Cardinality(A) + Cardinality(B)
  BY <1>4, <1>7, <1>8, <1>9
<1> QED BY <1>4, <1>5, <1>10 DEF A, B

-----------------------------------------------------------------------------
(* Members in their order. *)

StrictOrder(S, before) ==
  /\ \A x \in S : <<x, x>> \notin before
  /\ \A x, y \in S : x # y => <<x, y>> \in before \/ <<y, x>> \in before
  /\ \A x, y, z \in S : <<x, y>> \in before /\ <<y, z>> \in before => <<x, z>> \in before

\* A sorted list has every member once, each before those that come after it.
LEMMA SortedIs ==
  ASSUME NEW S, IsFiniteSet(S), NEW before, StrictOrder(S, before)
  PROVE  LET n == Cardinality(S)
             s == Sorted(S, before)
         IN  /\ n \in Nat /\ DOMAIN s = 1..n /\ s \in Seq(S) /\ Len(s) = n
             /\ \A i \in 1..n : s[i] \in S
             /\ \A x \in S : \E i \in 1..n : s[i] = x
             /\ \A i, j \in 1..n : i < j => <<s[i], s[j]>> \in before
             /\ \A i, j \in 1..n : s[i] = s[j] => i = j
<1> DEFINE n == Cardinality(S)
           s == Sorted(S, before)
           Below(x) == {y \in S : <<y, x>> \in before}
           RankIn(x) == Cardinality(Below(x))
           rank == [x \in S |-> RankIn(x)]
<1>1. n \in Nat
  BY FS_CardinalityType
<1>2. \A x \in S : IsFiniteSet(Below(x)) /\ RankIn(x) \in Nat
  <2>1. \A x \in S : Below(x) \in SUBSET S
    OBVIOUS
  <2> HIDE DEF Below
  <2> QED BY <2>1, FS_Subset, FS_CardinalityType
<1>3. ASSUME NEW x \in S, NEW T \in SUBSET S, x \in T, Below(x) \subseteq T
      PROVE  RankIn(x) < Cardinality(T) /\ Cardinality(T) \in Nat
  <2>1. x \notin Below(x)
    BY DEF StrictOrder
  <2>2. IsFiniteSet(T) /\ Cardinality(T) \in Nat
    BY FS_Subset, FS_CardinalityType
  <2> HIDE DEF Below
  <2>3. Below(x) \in SUBSET T
    BY <1>3
  <2>4. RankIn(x) <= Cardinality(T) /\ (Cardinality(T) = RankIn(x) => T = Below(x))
    BY <2>2, <2>3, FS_Subset
  <2> HIDE DEF RankIn
  <2> QED BY <1>2, <1>3, <2>1, <2>2, <2>4
<1>4. \A x \in S : RankIn(x) \in 0..(n - 1)
  <2> SUFFICES ASSUME NEW x \in S PROVE RankIn(x) \in 0..(n - 1)
    OBVIOUS
  <2>1. Below(x) \subseteq S
    OBVIOUS
  <2> HIDE DEF Below
  <2>2. RankIn(x) < n
    BY <1>3, <2>1
  <2> HIDE DEF RankIn, n
  <2> QED BY <1>1, <1>2, <2>2
<1>5. ASSUME NEW x \in S, NEW y \in S, <<x, y>> \in before
      PROVE  RankIn(x) < RankIn(y)
  <2>1. x \in Below(y) /\ Below(y) \in SUBSET S
    BY <1>5
  <2>2. Below(x) \subseteq Below(y)
    BY <1>5 DEF StrictOrder
  <2> HIDE DEF Below
  <2> QED BY <1>3, <2>1, <2>2
<1> HIDE DEF Below
<1>6. \A x, y \in S : RankIn(x) = RankIn(y) => x = y
  <2> SUFFICES ASSUME NEW x \in S, NEW y \in S, x # y PROVE RankIn(x) # RankIn(y)
    OBVIOUS
  <2>1. <<x, y>> \in before \/ <<y, x>> \in before
    BY DEF StrictOrder
  <2>2. RankIn(x) < RankIn(y) \/ RankIn(y) < RankIn(x)
    BY <1>5, <2>1
  <2> HIDE DEF RankIn
  <2> QED BY <1>2, <2>2
<1>7. s = [k \in 1..n |-> CHOOSE x \in S : RankIn(x) = k - 1]
  BY DEF Sorted, Below
<1> HIDE DEF RankIn, n, s
<1>8. rank \in Injection(S, 0..(n - 1))
  <2>1. rank \in [S -> 0..(n - 1)]
    BY <1>4
  <2>2. IsInjective(rank)
    BY <1>6 DEF IsInjective
  <2> QED BY <2>1, <2>2 DEF Injection
<1>9. IsFiniteSet(0..(n - 1)) /\ Cardinality(0..(n - 1)) = n
  <2>1. 0 \in Int /\ n - 1 \in Int
    BY <1>1
  <2>2. IsFiniteSet(0..(n - 1)) /\ Cardinality(0..(n - 1)) = IF 0 > n - 1 THEN 0 ELSE (n - 1) - 0 + 1
    BY <2>1, FS_Interval
  <2> QED BY <1>1, <2>2
<1>10. rank \in Surjection(S, 0..(n - 1))
  BY <1>8, <1>9, FS_Injection DEF n
<1>11. \A r \in 0..(n - 1) : \E x \in S : RankIn(x) = r
  BY <1>10 DEF Surjection
<1>12. \A i \in 1..n : s[i] \in S /\ RankIn(s[i]) = i - 1
  <2> SUFFICES ASSUME NEW i \in 1..n PROVE s[i] \in S /\ RankIn(s[i]) = i - 1
    OBVIOUS
  <2>1. i - 1 \in 0..(n - 1)
    BY <1>1
  <2>2. \E x \in S : RankIn(x) = i - 1
    BY <1>11, <2>1
  <2>3. s[i] = CHOOSE x \in S : RankIn(x) = i - 1
    BY <1>7
  <2> QED BY <2>2, <2>3
<1>13. \A x \in S : \E i \in 1..n : s[i] = x
  <2> SUFFICES ASSUME NEW x \in S PROVE \E i \in 1..n : s[i] = x
    OBVIOUS
  <2>1. RankIn(x) \in 0..(n - 1)
    BY <1>4
  <2>2. RankIn(x) + 1 \in 1..n /\ (RankIn(x) + 1) - 1 = RankIn(x)
    BY <1>1, <2>1
  <2> QED BY <1>6, <1>12, <2>2
<1>14. \A i, j \in 1..n : s[i] = s[j] => i = j
  <2> SUFFICES ASSUME NEW i \in 1..n, NEW j \in 1..n, s[i] = s[j] PROVE i = j
    OBVIOUS
  <2>1. i - 1 = j - 1
    BY <1>12
  <2> QED BY <2>1
<1>15. ASSUME NEW i \in 1..n, NEW j \in 1..n, i < j
       PROVE  <<s[i], s[j]>> \in before
  <2>1. s[i] \in S /\ s[j] \in S /\ RankIn(s[i]) = i - 1 /\ RankIn(s[j]) = j - 1
    BY <1>12
  <2>2. ~(RankIn(s[j]) < RankIn(s[i])) /\ s[i] # s[j]
    <3>1. ~(j - 1 < i - 1) /\ j - 1 # i - 1
      BY <1>15
    <3> QED BY <2>1, <3>1
  <2>3. <<s[i], s[j]>> \in before \/ <<s[j], s[i]>> \in before
    BY <2>1, <2>2 DEF StrictOrder
  <2> QED BY <1>5, <2>1, <2>2, <2>3
<1>16. DOMAIN s = 1..n /\ s \in Seq(S) /\ Len(s) = n
  <2>1. s \in [1..n -> S]
    BY <1>7, <1>12
  <2> QED BY <1>1, <2>1, SeqDef
<1> QED BY <1>1, <1>12, <1>13, <1>14, <1>15, <1>16 DEF n, s

-----------------------------------------------------------------------------
(* Passes over the candidates. *)

\* PlacesIn picked of n, at most limit of them, and none of them twice.
IsPick(n, limit, s) == /\ s \in Seq(1..n) /\ Len(s) <= limit
                      /\ \A i, j \in 1..Len(s) : s[i] = s[j] => i = j
Extends(q, p) == Len(p) <= Len(q) /\ \A i \in 1..Len(p) : q[i] = p[i]
SameFile(c, i, j) == c[i].path = c[j].path
SameRule(c, i, j) == c[i].path = c[j].path /\ c[i].rule = c[j].rule
FilesDiffer(c, s) == \A i, j \in 1..Len(s) : i # j => ~SameFile(c, s[i], s[j])
RulesDiffer(c, s) == \A i, j \in 1..Len(s) : i # j => ~SameRule(c, s[i], s[j])

\* A place is picked, or stands back: for want of room, or for one of its kind.
Settled(c, limit, pass, s, i) ==
  \/ Len(s) = limit \/ \E k \in 1..Len(s) : s[k] = i
  \/ pass = "file" /\ \E k \in 1..Len(s) : SameFile(c, i, s[k])
  \/ pass = "rule" /\ \E k \in 1..Len(s) : SameRule(c, i, s[k])

Passed(c, limit, pass, picked, s, seen) ==
  /\ IsPick(Len(c), limit, s) /\ Extends(s, picked)
  /\ \A i \in 1..seen : Settled(c, limit, pass, s, i)
  /\ pass = "file" /\ FilesDiffer(c, picked) => FilesDiffer(c, s)
  /\ pass = "rule" /\ RulesDiffer(c, picked) => RulesDiffer(c, s)

\* What a place does to what is picked.
Offered(c, limit, pass, s, i) == IF Fits(c, limit, pass, s, i) THEN Append(s, i) ELSE s

\* A place that is offered to a pass leaves it what it was.
LEMMA OfferKeeps ==
  ASSUME NEW c, Len(c) \in Nat, NEW limit \in Nat, NEW pass, NEW picked, IsPick(Len(c), limit, picked),
         NEW s, NEW i \in 0..(Len(c) - 1), Passed(c, limit, pass, picked, s, i)
  PROVE  Passed(c, limit, pass, picked, Offered(c, limit, pass, s, i + 1), i + 1)
<1> DEFINE n == Len(c)
           x == i + 1
           t == Offered(c, limit, pass, s, x)
           m == Len(s)
<1>1. n \in Nat /\ x \in 1..n /\ i \in Nat
  OBVIOUS
<1>2. s \in Seq(1..n) /\ m \in Nat /\ m <= limit /\ (\A j, k \in 1..m : s[j] = s[k] => j = k)
  BY LenProperties DEF Passed, IsPick
<1>3. Len(picked) \in Nat /\ Len(picked) <= m /\ \A k \in 1..Len(picked) : s[k] = picked[k]
  BY LenProperties DEF Passed, IsPick, Extends
<1>4. \A y \in 1..i : Settled(c, limit, pass, s, y)
  BY DEF Passed
<1>5. ToSet(s) = {s[k] : k \in 1..m} /\ \A k \in 1..m : s[k] \in 1..n
  BY <1>2, LenProperties DEF ToSet
<1>6. \A y \in 1..x : y = x \/ y \in 1..i
  BY <1>1
<1> HIDE DEF n, x, m
<1>7. CASE Fits(c, limit, pass, s, x)
  <2>1. t = Append(s, x)
    BY <1>7 DEF Offered
  <2>2. t \in Seq(1..n) /\ Len(t) = m + 1 /\ t[m + 1] = x /\ \A k \in 1..m : t[k] = s[k]
    BY <1>1, <1>2, <2>1, AppendProperties DEF m
  <2>3. /\ m < limit /\ \A k \in 1..m : s[k] # x
        /\ pass = "file" => \A k \in 1..m : c[s[k]].path # c[x].path
        /\ pass = "rule" => \A k \in 1..m : c[s[k]].path # c[x].path \/ c[s[k]].rule # c[x].rule
    BY <1>5, <1>7 DEF Fits, m
  <2> HIDE DEF t
  <2>4. \A k \in 1..(m + 1) : k = m + 1 \/ k \in 1..m
    BY <1>2
  <2>5. \A k \in 1..m : k \in 1..(m + 1) /\ k # m + 1
    BY <1>2
  <2>6. m + 1 \in 1..(m + 1)
    BY <1>2
  <2>7. IsPick(n, limit, t)
    <3>1. \A j, k \in 1..(m + 1) : t[j] = t[k] => j = k
      BY <1>2, <2>2, <2>3, <2>4
    <3>2. m + 1 <= limit
      BY <1>2, <2>3
    <3> QED BY <2>2, <3>1, <3>2 DEF IsPick
  <2>8. Extends(t, picked)
    <3>1. Len(picked) <= m + 1 /\ \A k \in 1..Len(picked) : k \in 1..m
      BY <1>2, <1>3
    <3> QED BY <1>3, <2>2, <3>1 DEF Extends
  <2>9. ASSUME NEW y \in 1..x PROVE Settled(c, limit, pass, t, y)
    <3>1. CASE y = x
      <4>1. t[m + 1] = y
        BY <2>2, <3>1
      <4> QED BY <2>2, <2>6, <4>1 DEF Settled
    <3>2. CASE y \in 1..i
      <4>1. Settled(c, limit, pass, s, y) /\ m # limit
        BY <1>2, <1>4, <2>3, <3>2
      <4>2. \/ \E k \in 1..m : s[k] = y
            \/ pass = "file" /\ \E k \in 1..m : SameFile(c, y, s[k])
            \/ pass = "rule" /\ \E k \in 1..m : SameRule(c, y, s[k])
        BY <4>1 DEF Settled, m
      <4>3. \/ \E k \in 1..(m + 1) : t[k] = y
            \/ pass = "file" /\ \E k \in 1..(m + 1) : SameFile(c, y, t[k])
            \/ pass = "rule" /\ \E k \in 1..(m + 1) : SameRule(c, y, t[k])
        BY <2>2, <2>5, <4>2
      <4> QED BY <2>2, <4>3 DEF Settled
    <3> QED BY <1>6, <3>1, <3>2
  <2>10. pass = "file" /\ FilesDiffer(c, picked) => FilesDiffer(c, t)
    <3> SUFFICES ASSUME pass = "file", FilesDiffer(c, picked) PROVE FilesDiffer(c, t)
      OBVIOUS
    <3>1. \A j, k \in 1..m : j # k => ~SameFile(c, s[j], s[k])
      BY DEF Passed, FilesDiffer, m
    <3>2. \A k \in 1..m : ~SameFile(c, s[k], x) /\ ~SameFile(c, x, s[k])
      BY <2>3 DEF SameFile
    <3>3. \A j, k \in 1..(m + 1) : j # k => ~SameFile(c, t[j], t[k])
      BY <2>2, <2>4, <3>1, <3>2
    <3> QED BY <2>2, <3>3 DEF FilesDiffer
  <2>11. pass = "rule" /\ RulesDiffer(c, picked) => RulesDiffer(c, t)
    <3> SUFFICES ASSUME pass = "rule", RulesDiffer(c, picked) PROVE RulesDiffer(c, t)
      OBVIOUS
    <3>1. \A j, k \in 1..m : j # k => ~SameRule(c, s[j], s[k])
      BY DEF Passed, RulesDiffer, m
    <3>2. \A k \in 1..m : ~SameRule(c, s[k], x) /\ ~SameRule(c, x, s[k])
      BY <2>3 DEF SameRule
    <3>3. \A j, k \in 1..(m + 1) : j # k => ~SameRule(c, t[j], t[k])
      BY <2>2, <2>4, <3>1, <3>2
    <3> QED BY <2>2, <3>3 DEF RulesDiffer
  <2> QED BY <2>7, <2>8, <2>9, <2>10, <2>11 DEF Passed, n, x, t
<1>8. CASE ~Fits(c, limit, pass, s, x)
  <2>1. t = s
    BY <1>8 DEF Offered
  <2>2. Settled(c, limit, pass, s, x)
    <3>1. \/ \E k \in 1..m : s[k] = x
          \/ ~(m < limit)
          \/ pass = "file" /\ \E k \in 1..m : c[s[k]].path = c[x].path
          \/ pass = "rule" /\ \E k \in 1..m : c[s[k]].path = c[x].path /\ c[s[k]].rule = c[x].rule
      BY <1>5, <1>8 DEF Fits, m
    <3>2. ~(m < limit) => m = limit
      BY <1>2
    <3>3. \/ \E k \in 1..m : s[k] = x
          \/ m = limit
          \/ pass = "file" /\ \E k \in 1..m : SameFile(c, x, s[k])
          \/ pass = "rule" /\ \E k \in 1..m : SameRule(c, x, s[k])
      BY <3>1, <3>2 DEF SameFile, SameRule
    <3> QED BY <3>3 DEF Settled, m
  <2>3. \A y \in 1..x : Settled(c, limit, pass, s, y)
    BY <1>4, <1>6, <2>2
  <2> QED BY <2>1, <2>3 DEF Passed, x
<1> QED BY <1>7, <1>8

\* So a pass settles every place.
LEMMA PassIs ==
  ASSUME NEW c, Len(c) \in Nat, NEW limit \in Nat, NEW pass, NEW picked, IsPick(Len(c), limit, picked)
  PROVE  Passed(c, limit, pass, picked, Pass(c, limit, pass, picked), Len(c))
<1> DEFINE n == Len(c)
           V == Seq(1..n)
           Op == [p \in (1..n) \X V |-> Offered(c, limit, pass, p[2], p[1])]
<1>1. n \in Nat /\ picked \in V
  BY DEF IsPick
<1>2. \A i \in 1..n, s \in V : Offered(c, limit, pass, s, i) \in V
  <2>1. \A i \in 1..n, s \in V : Append(s, i) \in V
    BY AppendProperties
  <2> HIDE DEF V
  <2> QED BY <2>1 DEF Offered
<1> HIDE DEF V
<1>3. Op \in [(1..n) \X V -> V]
  BY <1>2
<1> HIDE DEF n
<1>4. PICK f \in [0..n -> V] : Recurs(f, n, picked, Op)
  BY <1>1, <1>3, RecursionExists
<1>5. f = [i \in 0..n |-> IF i = 0 THEN picked ELSE Offered(c, limit, pass, f[i - 1], i)]
  <2>1. \A k \in 1..n : k - 1 \in 0..n
    BY <1>1
  <2>2. \A k \in 1..n : f[k - 1] \in V
    BY <1>4, <2>1
  <2>3. f[0] = picked /\ \A k \in 1..n : f[k] = Op[<<k, f[k - 1]>>]
    BY <1>4 DEF Recurs
  <2>4. \A k \in 1..n : f[k] = Offered(c, limit, pass, f[k - 1], k)
    BY <2>2, <2>3
  <2>5. \A k \in 0..n : k = 0 \/ k \in 1..n
    BY <1>1
  <2> QED BY <1>4, <2>3, <2>4, <2>5
<1>6. \E g : /\ g = [i \in 0..n |-> IF i = 0 THEN picked ELSE Offered(c, limit, pass, g[i - 1], i)]
             /\ Pass(c, limit, pass, picked) = g[n]
  BY <1>5 DEF Pass, Offered, n
<1>7. PICK g : /\ g = [i \in 0..n |-> IF i = 0 THEN picked ELSE Offered(c, limit, pass, g[i - 1], i)]
               /\ Pass(c, limit, pass, picked) = g[n]
  BY <1>6
<1> DEFINE S == {k \in 0..n : Passed(c, limit, pass, picked, g[k], k)}
<1>8. 0 \in S
  <2>1. 0 \in 0..n /\ g[0] = picked
    BY <1>1, <1>7
  <2>2. Extends(picked, picked)
    BY LenProperties DEF Extends, IsPick
  <2>3. Passed(c, limit, pass, picked, picked, 0)
    BY <2>2 DEF Passed
  <2> QED BY <2>1, <2>3
<1>9. ASSUME NEW k \in 0..(n - 1), k \in S
      PROVE  k + 1 \in S
  <2>1. k + 1 \in 0..n /\ k + 1 # 0 /\ (k + 1) - 1 = k
    BY <1>1
  <2>2. g[k + 1] = Offered(c, limit, pass, g[k], k + 1)
    BY <1>7, <2>1
  <2>3. Passed(c, limit, pass, picked, g[k], k)
    BY <1>9
  <2>4. Passed(c, limit, pass, picked, Offered(c, limit, pass, g[k], k + 1), k + 1)
    BY <2>3, OfferKeeps DEF n
  <2> QED BY <2>1, <2>2, <2>4
<1>10. n \in S
  <2> HIDE DEF S
  <2>1. 0..n \subseteq S
    BY <1>1, <1>8, <1>9, HoldsUpTo
  <2> QED BY <1>1, <2>1
<1> QED BY <1>7, <1>10 DEF n

\* A pass that starts with no room left adds nothing.
LEMMA FullStays ==
  ASSUME NEW n \in Nat, NEW limit \in Nat, NEW p, IsPick(n, limit, p), Len(p) = limit,
         NEW q, IsPick(n, limit, q), Extends(q, p)
  PROVE  q = p
<1>1. p \in Seq(1..n) /\ q \in Seq(1..n) /\ Len(p) \in Nat /\ Len(q) \in Nat
  BY LenProperties DEF IsPick
<1>2. Len(q) = Len(p)
  BY <1>1 DEF IsPick, Extends
<1> QED BY <1>1, <1>2, SeqEqual DEF Extends

\* What extends an extension extends what that extends.
LEMMA ExtendsFurther ==
  ASSUME NEW n \in Nat, NEW limit \in Nat, NEW p, IsPick(n, limit, p), NEW q, IsPick(n, limit, q),
         NEW r, IsPick(n, limit, r), Extends(q, p), Extends(r, q)
  PROVE  Extends(r, p)
<1>1. Len(p) \in Nat /\ Len(q) \in Nat /\ Len(r) \in Nat
  BY LenProperties DEF IsPick
<1>2. Len(p) <= Len(q) /\ Len(q) <= Len(r)
  BY DEF Extends
<1>3. Len(p) <= Len(r) /\ \A i \in 1..Len(p) : i \in 1..Len(q)
  BY <1>1, <1>2
<1> QED BY <1>3 DEF Extends

\* What is picked is all there is room for; two of a file are, only if every
\* file has one, and two of a rule in a file, only if every rule has one in
\* each file.
LEMMA PickedIs ==
  ASSUME NEW c, Len(c) \in Nat, NEW limit \in Nat, NEW q, q = PickAnnotations(c, limit)
  PROVE  /\ IsPick(Len(c), limit, q)
         /\ Len(q) = limit \/ \A i \in 1..Len(c) : \E k \in 1..Len(q) : q[k] = i
         /\ ~FilesDiffer(c, q) => \A i \in 1..Len(c) : \E k \in 1..Len(q) : SameFile(c, i, q[k])
         /\ ~RulesDiffer(c, q) => \A i \in 1..Len(c) : \E k \in 1..Len(q) : SameRule(c, i, q[k])
<1> DEFINE n == Len(c)
           f == Pass(c, limit, "file", <<>>)
           r == Pass(c, limit, "rule", f)
<1>1. n \in Nat /\ IsPick(n, limit, <<>>) /\ FilesDiffer(c, <<>>)
  <2>1. <<>> \in Seq(1..n) /\ Len(<<>>) = 0
    BY EmptySeq
  <2>2. 1..0 = {} /\ 0 <= limit
    OBVIOUS
  <2> HIDE DEF n
  <2>3. \A i \in 1..Len(<<>>) : FALSE
    BY <2>1, <2>2
  <2> QED BY <2>1, <2>2, <2>3 DEF IsPick, FilesDiffer, n
<1>2. Passed(c, limit, "file", <<>>, f, n)
  BY <1>1, PassIs
<1>3. IsPick(n, limit, f)
  BY <1>2 DEF Passed
<1>4. Passed(c, limit, "rule", f, r, n)
  <2> HIDE DEF f
  <2> QED BY <1>3, PassIs
<1>5. IsPick(n, limit, r)
  BY <1>4 DEF Passed
<1>6. Passed(c, limit, "rest", r, q, n)
  <2>1. q = Pass(c, limit, "rest", r)
    BY DEF PickAnnotations
  <2> HIDE DEF r
  <2> QED BY <1>5, <2>1, PassIs
<1>7. IsPick(n, limit, q)
  BY <1>6 DEF Passed
<1> HIDE DEF n, f, r
<1>8. Len(q) = limit \/ \A i \in 1..n : \E k \in 1..Len(q) : q[k] = i
  BY <1>6 DEF Passed, Settled
<1>9. Extends(r, f) /\ Extends(q, r) /\ Extends(q, f)
  <2>1. Extends(r, f) /\ Extends(q, r)
    BY <1>4, <1>6 DEF Passed
  <2> QED BY <1>1, <1>3, <1>5, <1>7, <2>1, ExtendsFurther
<1>10. FilesDiffer(c, f) /\ RulesDiffer(c, f)
  <2>1. FilesDiffer(c, f)
    BY <1>1, <1>2 DEF Passed
  <2> QED BY <2>1 DEF FilesDiffer, RulesDiffer, SameFile, SameRule
<1>11. RulesDiffer(c, r)
  BY <1>4, <1>10 DEF Passed
<1>12. ASSUME NEW s, IsPick(n, limit, s), Extends(q, s)
       PROVE  \A k \in 1..Len(s) : k \in 1..Len(q) /\ q[k] = s[k]
  <2>1. Len(s) \in Nat /\ Len(q) \in Nat
    BY <1>7, <1>12, LenProperties DEF IsPick
  <2>2. Len(s) <= Len(q)
    BY <1>12 DEF Extends
  <2>3. \A k \in 1..Len(s) : k \in 1..Len(q)
    BY <2>1, <2>2
  <2> QED BY <1>12, <2>3 DEF Extends
<1>13. ASSUME ~FilesDiffer(c, q), NEW i \in 1..n
       PROVE  \E k \in 1..Len(q) : SameFile(c, i, q[k])
  <2>1. CASE Len(f) = limit
    <3>1. q = f
      BY <1>1, <1>3, <1>7, <1>9, <2>1, FullStays
    <3> QED BY <1>10, <1>13, <3>1
  <2>2. CASE Len(f) # limit
    <3>1. \E k \in 1..Len(f) : f[k] = i \/ SameFile(c, i, f[k])
      BY <1>2, <2>2 DEF Passed, Settled
    <3>2. \E k \in 1..Len(f) : SameFile(c, i, f[k])
      BY <3>1 DEF SameFile
    <3> QED BY <1>3, <1>9, <1>12, <3>2
  <2> QED BY <2>1, <2>2
<1>14. ASSUME ~RulesDiffer(c, q), NEW i \in 1..n
       PROVE  \E k \in 1..Len(q) : SameRule(c, i, q[k])
  <2>1. CASE Len(r) = limit
    <3>1. q = r
      BY <1>1, <1>5, <1>7, <1>9, <2>1, FullStays
    <3> QED BY <1>11, <1>14, <3>1
  <2>2. CASE Len(r) # limit
    <3>1. \E k \in 1..Len(r) : r[k] = i \/ SameRule(c, i, r[k])
      BY <1>4, <2>2 DEF Passed, Settled
    <3>2. \E k \in 1..Len(r) : SameRule(c, i, r[k])
      BY <3>1 DEF SameRule
    <3> QED BY <1>5, <1>9, <1>12, <3>2
  <2> QED BY <2>1, <2>2
<1> QED BY <1>7, <1>8, <1>13, <1>14 DEF n

-----------------------------------------------------------------------------
(* The annotations of a level. *)

Annotation == [level : {"error", "warning", "notice"}, rule : Nat, path : Nat, line : Nat]

\* The order of a level's annotations has each place once.
LEMMA InOrderIs ==
  ASSUME NEW A \in Seq(Annotation), NEW level
  PROVE  LET all == OfLevel(A, level)
             m == Cardinality(all)
             o == InOrder(A, level)
         IN  /\ IsFiniteSet(all) /\ m \in Nat /\ DOMAIN o = 1..m /\ Len(o) = m
             /\ \A k \in 1..m : o[k] \in all
             /\ \A i \in all : \E k \in 1..m : o[k] = i
             /\ \A j, k \in 1..m : o[j] = o[k] => j = k
<1> DEFINE all == OfLevel(A, level)
           Before(i, j) ==
             \/ AnnotationBefore(A[i], A[j])
             \/ ~AnnotationBefore(A[j], A[i]) /\ i < j
           before == {p \in all \X all : Before(p[1], p[2])}
<1>1. Len(A) \in Nat /\ DOMAIN A = 1..Len(A) /\ \A i \in 1..Len(A) : A[i] \in Annotation
  BY LenProperties, ElementOfSeq
<1>2. all \in SUBSET (1..Len(A)) /\ all \subseteq Nat
  BY <1>1 DEF OfLevel
<1>3. IsFiniteSet(all)
  <2>1. IsFiniteSet(1..Len(A))
    BY <1>1, FS_Interval
  <2> HIDE DEF all
  <2> QED BY <1>2, <2>1, FS_Subset
<1>4. \A i \in all : A[i].rule \in Nat /\ A[i].path \in Nat /\ A[i].line \in Nat /\ i \in Nat
  <2>1. \A i \in all : A[i] \in Annotation
    BY <1>1, <1>2
  <2> HIDE DEF all
  <2> QED BY <1>2, <2>1 DEF Annotation
<1> HIDE DEF all
<1>5. \A i, j \in all : <<i, j>> \in before <=> Before(i, j)
  <2> HIDE DEF Before
  <2> QED OBVIOUS
<1> HIDE DEF before
<1>6. StrictOrder(all, before)
  <2> DEFINE R(i) == A[i].rule
             P(i) == A[i].path
             L(i) == A[i].line
  <2>1. \A i \in all : R(i) \in Nat /\ P(i) \in Nat /\ L(i) \in Nat /\ i \in Nat
    BY <1>4
  <2>2. \A i, j \in all :
          Before(i, j) <=>
            \/ \/ R(i) < R(j) \/ (R(i) = R(j) /\ P(i) < P(j))
               \/ R(i) = R(j) /\ P(i) = P(j) /\ L(i) < L(j)
            \/ ~(\/ R(j) < R(i) \/ (R(j) = R(i) /\ P(j) < P(i))
                 \/ R(j) = R(i) /\ P(j) = P(i) /\ L(j) < L(i)) /\ i < j
    BY DEF AnnotationBefore
  <2> HIDE DEF R, P, L, Before
  <2>3. \A i, j \in all :
          Before(i, j) <=>
            \/ R(i) < R(j)
            \/ R(i) = R(j) /\ P(i) < P(j)
            \/ R(i) = R(j) /\ P(i) = P(j) /\ L(i) < L(j)
            \/ R(i) = R(j) /\ P(i) = P(j) /\ L(i) = L(j) /\ i < j
    BY <2>1, <2>2
  <2>4. \A i \in all : ~Before(i, i)
    BY <2>1, <2>3
  <2>5. \A i, j \in all : i # j => Before(i, j) \/ Before(j, i)
    BY <2>1, <2>3
  <2>6. \A i, j, k \in all : Before(i, j) /\ Before(j, k) => Before(i, k)
    BY <2>1, <2>3
  <2> QED BY <1>5, <2>4, <2>5, <2>6 DEF StrictOrder
<1>7. InOrder(A, level) = Sorted(all, before)
  BY DEF InOrder, all, before
<1> HIDE DEF Before
<1> QED BY <1>3, <1>6, <1>7, SortedIs DEF all

TimesPicked(A, pos, L, a) == Cardinality({k \in 1..L : A[pos[k]] = a})
TimesThere(A, all, a) == Cardinality({i \in all : A[i] = a})

\* As many are shown of an annotation as there are, exactly if all of its
\* places are.
LEMMA ShownAre ==
  ASSUME NEW A, NEW all, IsFiniteSet(all), NEW L \in Nat, NEW pos \in [1..L -> all],
         \A j, k \in 1..L : pos[j] = pos[k] => j = k, NEW a
  PROVE  LET shown == TimesPicked(A, pos, L, a)
             of == TimesThere(A, all, a)
         IN  /\ shown \in Nat /\ of \in Nat /\ shown <= of
             /\ shown < of <=> \E i \in all : A[i] = a /\ \A k \in 1..L : pos[k] # i
<1> DEFINE K == {k \in 1..L : A[pos[k]] = a}
           I == {i \in all : A[i] = a}
           f == [k \in K |-> pos[k]]
<1>1. IsFiniteSet(I) /\ Cardinality(I) \in Nat
  <2>1. I \in SUBSET all
    OBVIOUS
  <2> HIDE DEF I
  <2> QED BY <2>1, FS_Subset, FS_CardinalityType
<1>2. f \in Injection(K, I)
  <2>1. f \in [K -> I]
    OBVIOUS
  <2>2. IsInjective(f)
    BY DEF IsInjective
  <2> HIDE DEF f, K, I
  <2> QED BY <2>1, <2>2 DEF Injection
<1>3. f \in Surjection(K, I) <=> \A i \in I : \E k \in K : f[k] = i
  <2> HIDE DEF K, I, f
  <2> QED BY <1>2 DEF Surjection, Injection
<1>4. (\A i \in I : \E k \in K : f[k] = i) <=> ~\E i \in all : A[i] = a /\ \A k \in 1..L : pos[k] # i
  OBVIOUS
<1> HIDE DEF K, I, f
<1>5. IsFiniteSet(K) /\ Cardinality(K) <= Cardinality(I) /\ (Cardinality(K) = Cardinality(I) <=> f \in Surjection(K, I))
  BY <1>1, <1>2, FS_Injection
<1>6. Cardinality(K) \in Nat
  BY <1>5, FS_CardinalityType
<1>7. Cardinality(K) < Cardinality(I) <=> Cardinality(K) # Cardinality(I)
  BY <1>1, <1>5, <1>6
<1> QED BY <1>1, <1>3, <1>4, <1>5, <1>6, <1>7 DEF K, I, TimesPicked, TimesThere

\* What a level's annotations should be of those that were found.
Spread(level, found, name) ==
  LET all   == {i \in DOMAIN found : found[i].level = name}
      Of(a) == Cardinality({i \in all : found[i] = a})
      shown == level.shown
      Left  == {found[i] : i \in {j \in all : Times(shown, found[j]) < Of(found[j])}}
  IN  /\ \A a \in ToSet(shown) : Times(shown, a) <= Of(a)
      /\ level.level # "notice" => Len(shown) <= AnnotationLimit
      /\ level.level = "notice" => Left = {}
      /\ IF Left = {} THEN level.notice = <<>>
         ELSE /\ level.notice = <<[shown |-> Len(shown), of |-> Cardinality(all)]>>
              /\ Len(shown) = AnnotationLimit
      /\ (\E i, j \in DOMAIN shown : i # j /\ shown[i].path = shown[j].path) =>
           \A i \in all : \E k \in DOMAIN shown : found[i].path = shown[k].path
      /\ (\E i, j \in DOMAIN shown : i # j /\ shown[i].path = shown[j].path /\ shown[i].rule = shown[j].rule) =>
           \A i \in all : \E k \in DOMAIN shown : found[i].path = shown[k].path /\ found[i].rule = shown[k].rule

\* writeAnnotations spreads each level's.
LEMMA LevelIsSpread ==
  ASSUME NEW A \in Seq(Annotation), NEW name
  PROVE  Spread(WriteAnnotations(A, name), A, name)
<1> DEFINE w == WriteAnnotations(A, name)
           all == OfLevel(A, name)
           m == Cardinality(all)
           o == InOrder(A, name)
           c == [k \in DOMAIN o |-> A[o[k]]]
           limit == IF name # "notice" /\ Len(c) > AnnotationLimit THEN AnnotationLimit ELSE Len(c)
           q == PickAnnotations(c, limit)
           L == Len(q)
           pos == [k \in 1..L |-> o[q[k]]]
<1>1. /\ IsFiniteSet(all) /\ m \in Nat /\ DOMAIN o = 1..m /\ Len(o) = m
      /\ \A k \in 1..m : o[k] \in all
      /\ \A i \in all : \E k \in 1..m : o[k] = i
      /\ \A j, k \in 1..m : o[j] = o[k] => j = k
  BY InOrderIs
<1>2. all = {i \in DOMAIN A : A[i].level = name}
  BY DEF OfLevel
<1>3. /\ w.level = name /\ w.shown = [k \in DOMAIN q |-> c[q[k]]]
      /\ w.notice = IF Len(q) < Len(c) THEN <<[shown |-> Len(q), of |-> Len(c)]>> ELSE <<>>
  BY DEF WriteAnnotations
<1> HIDE DEF w, o, all, m
<1>4. Len(c) = m /\ \A k \in 1..m : c[k] = A[o[k]]
  <2>1. c \in [1..m -> {A[o[k]] : k \in 1..m}]
    BY <1>1
  <2>2. Len(c) = m
    <3> HIDE DEF c
    <3> QED BY <1>1, <2>1, SeqDef
  <2> QED BY <1>1, <2>2
<1> HIDE DEF c
<1>5. AnnotationLimit \in Nat
  BY ReportsAssumption
<1>6. limit \in Nat /\ limit <= m /\ (name = "notice" => limit = m) /\ (limit = m \/ limit = AnnotationLimit)
      /\ (name # "notice" => limit <= AnnotationLimit)
  BY <1>1, <1>4, <1>5
<1> HIDE DEF limit
<1>7. /\ IsPick(m, limit, q)
      /\ L = limit \/ \A i \in 1..m : \E k \in 1..L : q[k] = i
      /\ ~FilesDiffer(c, q) => \A i \in 1..m : \E k \in 1..L : SameFile(c, i, q[k])
      /\ ~RulesDiffer(c, q) => \A i \in 1..m : \E k \in 1..L : SameRule(c, i, q[k])
  <2>1. Len(c) \in Nat
    BY <1>1, <1>4
  <2>2. /\ IsPick(Len(c), limit, q)
        /\ Len(q) = limit \/ \A i \in 1..Len(c) : \E k \in 1..Len(q) : q[k] = i
        /\ ~FilesDiffer(c, q) => \A i \in 1..Len(c) : \E k \in 1..Len(q) : SameFile(c, i, q[k])
        /\ ~RulesDiffer(c, q) => \A i \in 1..Len(c) : \E k \in 1..Len(q) : SameRule(c, i, q[k])
    BY <1>6, <2>1, PickedIs
  <2> QED BY <1>4, <2>2
<1> HIDE DEF q
<1>8. L \in Nat /\ DOMAIN q = 1..L /\ L <= limit /\ (\A k \in 1..L : q[k] \in 1..m) /\ (\A j, k \in 1..L : q[j] = q[k] => j = k)
  BY <1>7, LenProperties, ElementOfSeq DEF IsPick
<1> HIDE DEF L
<1>9. /\ pos \in [1..L -> all] /\ \A j, k \in 1..L : pos[j] = pos[k] => j = k
      /\ \A k \in 1..L : pos[k] = o[q[k]]
  BY <1>1, <1>8
<1>10. DOMAIN w.shown = 1..L /\ Len(w.shown) = L /\ \A k \in 1..L : w.shown[k] = A[pos[k]]
  <2>1. w.shown = [k \in 1..L |-> A[pos[k]]]
    <3>1. \A k \in 1..L : c[q[k]] = A[pos[k]]
      BY <1>4, <1>8, <1>9
    <3> HIDE DEF pos
    <3> QED BY <1>3, <1>8, <3>1
  <2> HIDE DEF pos
  <2>2. w.shown \in [1..L -> {A[pos[k]] : k \in 1..L}]
    BY <2>1
  <2>3. Len(w.shown) = L
    BY <1>8, <2>2, SeqDef
  <2> QED BY <2>1, <2>3
<1> HIDE DEF pos
<1> DEFINE Of(a) == Cardinality({i \in all : A[i] = a})
           T(a) == Times(w.shown, a)
           missed == {i \in all : \A k \in 1..L : pos[k] # i}
<1>11. \A a : T(a) \in Nat /\ Of(a) \in Nat /\ T(a) <= Of(a) /\ (T(a) < Of(a) <=> \E i \in missed : A[i] = a)
  <2> SUFFICES ASSUME NEW a
               PROVE  T(a) \in Nat /\ Of(a) \in Nat /\ T(a) <= Of(a) /\ (T(a) < Of(a) <=> \E i \in missed : A[i] = a)
    OBVIOUS
  <2>1. T(a) = Cardinality({k \in 1..L : A[pos[k]] = a})
    <3>1. {k \in DOMAIN w.shown : w.shown[k] = a} = {k \in 1..L : A[pos[k]] = a}
      BY <1>10
    <3> QED BY <3>1 DEF Times
  <2>2. /\ T(a) \in Nat /\ Of(a) \in Nat /\ T(a) <= Of(a)
        /\ T(a) < Of(a) <=> \E i \in all : A[i] = a /\ \A k \in 1..L : pos[k] # i
    <3>1. pos \in [1..L -> all] /\ (\A j, k \in 1..L : pos[j] = pos[k] => j = k) /\ IsFiniteSet(all) /\ L \in Nat
      BY <1>1, <1>8, <1>9
    <3>2. LET shown == TimesPicked(A, pos, L, a)
              of == TimesThere(A, all, a)
          IN  /\ shown \in Nat /\ of \in Nat /\ shown <= of
              /\ shown < of <=> \E i \in all : A[i] = a /\ \A k \in 1..L : pos[k] # i
      BY <3>1, ShownAre
    <3> HIDE DEF T
    <3> QED BY <2>1, <3>2 DEF TimesPicked, TimesThere
  <2>3. (\E i \in all : A[i] = a /\ \A k \in 1..L : pos[k] # i) <=> \E i \in missed : A[i] = a
    OBVIOUS
  <2> HIDE DEF T, Of, missed
  <2> QED BY <2>2, <2>3
<1> DEFINE Left == {A[i] : i \in {j \in all : T(A[j]) < Of(A[j])}}
<1>12. Left = {} <=> missed = {}
  <2>1. ASSUME NEW i \in missed PROVE A[i] \in Left
    <3>1. i \in all /\ T(A[i]) < Of(A[i])
      BY <1>11
    <3> HIDE DEF T, Of, missed
    <3> QED BY <3>1
  <2>2. ASSUME NEW j \in all, T(A[j]) < Of(A[j]) PROVE missed # {}
    BY <1>11, <2>2
  <2> HIDE DEF T, Of, missed
  <2> QED BY <2>1, <2>2
<1>13. missed = {} <=> L = m
  <2>1. missed = {} <=> \A i \in 1..m : \E k \in 1..L : q[k] = i
    <3>1. missed = {} <=> \A i \in all : \E k \in 1..L : o[q[k]] = i
      BY <1>9
    <3> HIDE DEF missed
    <3>2. ASSUME \A i \in all : \E k \in 1..L : o[q[k]] = i, NEW j \in 1..m PROVE \E k \in 1..L : q[k] = j
      <4>1. o[j] \in all
        BY <1>1
      <4>2. PICK k \in 1..L : o[q[k]] = o[j]
        BY <3>2, <4>1
      <4>3. q[k] = j
        BY <1>1, <1>8, <4>2
      <4> QED BY <4>3
    <3>3. ASSUME \A i \in 1..m : \E k \in 1..L : q[k] = i, NEW i \in all PROVE \E k \in 1..L : o[q[k]] = i
      BY <1>1, <3>3
    <3> QED BY <3>1, <3>2, <3>3
  <2>2. q \in Injection(1..L, 1..m)
    <3>1. q \in [1..L -> 1..m]
      <4>1. q \in Seq(1..m) /\ Len(q) = L
        BY <1>7 DEF IsPick, L
      <4> QED BY <4>1, LenProperties
    <3> QED BY <1>8, <3>1 DEF Injection, IsInjective
  <2>3. IsFiniteSet(1..L) /\ Cardinality(1..L) = L /\ IsFiniteSet(1..m) /\ Cardinality(1..m) = m
    <3>1. \A x \in Nat : IsFiniteSet(1..x) /\ Cardinality(1..x) = x
      <4> SUFFICES ASSUME NEW x \in Nat PROVE IsFiniteSet(1..x) /\ Cardinality(1..x) = x
        OBVIOUS
      <4>1. IsFiniteSet(1..x) /\ Cardinality(1..x) = IF 1 > x THEN 0 ELSE x - 1 + 1
        BY FS_Interval
      <4> QED BY <4>1
    <3> QED BY <1>1, <1>8, <3>1
  <2>4. L = m <=> q \in Surjection(1..L, 1..m)
    BY <2>2, <2>3, FS_Injection
  <2>5. q \in Surjection(1..L, 1..m) <=> \A i \in 1..m : \E k \in 1..L : q[k] = i
    BY <2>2 DEF Surjection, Injection
  <2> QED BY <2>1, <2>4, <2>5
<1>14. L = limit \/ L = m
  <2>1. (\A i \in 1..m : \E k \in 1..L : q[k] = i) => missed = {}
    BY <1>1, <1>9
  <2> QED BY <1>7, <1>13, <2>1
<1>15. L <= m /\ (name # "notice" => L <= AnnotationLimit) /\ (name = "notice" => L = m) /\ (L # m => L = AnnotationLimit)
  BY <1>1, <1>5, <1>6, <1>8, <1>14
<1>16. w.notice = IF L = m THEN <<>> ELSE <<[shown |-> L, of |-> m]>>
  <2>1. Len(q) = L /\ Len(c) = m
    BY <1>4 DEF L
  <2>2. L < m <=> L # m
    BY <1>1, <1>8, <1>15
  <2> QED BY <1>3, <2>1, <2>2
<1>17. /\ \A j, k \in 1..L : SameFile(c, q[j], q[k]) <=> w.shown[j].path = w.shown[k].path
       /\ \A j, k \in 1..L : SameRule(c, q[j], q[k]) <=> w.shown[j].path = w.shown[k].path /\ w.shown[j].rule = w.shown[k].rule
       /\ \A i \in 1..m, k \in 1..L : SameFile(c, i, q[k]) <=> A[o[i]].path = w.shown[k].path
       /\ \A i \in 1..m, k \in 1..L : SameRule(c, i, q[k]) <=> A[o[i]].path = w.shown[k].path /\ A[o[i]].rule = w.shown[k].rule
  <2>1. \A k \in 1..L : w.shown[k] = c[q[k]]
    BY <1>4, <1>8, <1>9, <1>10
  <2>2. \A i \in 1..m : A[o[i]] = c[i]
    BY <1>4
  <2> QED BY <2>1, <2>2 DEF SameFile, SameRule
<1>18. ASSUME NEW i \in 1..L, NEW j \in 1..L, i # j, w.shown[i].path = w.shown[j].path, NEW x \in all
       PROVE  \E k \in 1..L : A[x].path = w.shown[k].path
  <2>1. ~FilesDiffer(c, q)
    BY <1>17, <1>18 DEF FilesDiffer, L
  <2>2. PICK y \in 1..m : o[y] = x
    BY <1>1
  <2> QED BY <1>7, <1>17, <2>1, <2>2
<1>19. ASSUME NEW i \in 1..L, NEW j \in 1..L, i # j, w.shown[i].path = w.shown[j].path, w.shown[i].rule = w.shown[j].rule,
              NEW x \in all
       PROVE  \E k \in 1..L : A[x].path = w.shown[k].path /\ A[x].rule = w.shown[k].rule
  <2>1. ~RulesDiffer(c, q)
    BY <1>17, <1>19 DEF RulesDiffer, L
  <2>2. PICK y \in 1..m : o[y] = x
    BY <1>1
  <2> QED BY <1>7, <1>17, <2>1, <2>2
<1>20. (Left = {} <=> L = m) /\ w.level = name
  BY <1>3, <1>12, <1>13
<1>21. \A a \in ToSet(w.shown) : T(a) <= Of(a)
  BY <1>11
<1>22. Spread(w, A, name) <=>
         /\ \A a \in ToSet(w.shown) : T(a) <= Of(a)
         /\ w.level # "notice" => Len(w.shown) <= AnnotationLimit
         /\ w.level = "notice" => Left = {}
         /\ IF Left = {} THEN w.notice = <<>>
            ELSE /\ w.notice = <<[shown |-> Len(w.shown), of |-> m]>>
                 /\ Len(w.shown) = AnnotationLimit
         /\ (\E i, j \in DOMAIN w.shown : i # j /\ w.shown[i].path = w.shown[j].path) =>
              \A i \in all : \E k \in DOMAIN w.shown : A[i].path = w.shown[k].path
         /\ (\E i, j \in DOMAIN w.shown : i # j /\ w.shown[i].path = w.shown[j].path /\ w.shown[i].rule = w.shown[j].rule) =>
              \A i \in all : \E k \in DOMAIN w.shown : A[i].path = w.shown[k].path /\ A[i].rule = w.shown[k].rule
  BY <1>2, Zenon DEF Spread, T, Of, Left, m
<1> HIDE DEF T, Of, Left, missed
<1> QED BY <1>10, <1>15, <1>16, <1>18, <1>19, <1>20, <1>21, <1>22 DEF w

-----------------------------------------------------------------------------
(* The results, given to each formatter in turn. *)

\* The recursion on the results has a value.
LEMMA ReportingIs ==
  ASSUME NEW opts, NEW results, Len(results) \in Nat
  PROVE  \E f : /\ f[0] = NothingReported
                /\ \A k \in 1..Len(results) : f[k] = ReportResult(opts, f[k - 1], results[k])
                /\ Reporting(opts, results) = f[Len(results)]
<1> DEFINE n == Len(results)
           base == NothingReported
           Op(k, x) == ReportResult(opts, x, results[k])
           Fun(f, k) == f = [i \in 0..k |-> IF i = 0 THEN base ELSE Op(i, f[i - 1])]
           S == {k \in 0..n : \E f : Fun(f, k)}
<1>1. n \in Nat /\ n \in 0..n
  OBVIOUS
<1>2. Reporting(opts, results) = (CHOOSE f : Fun(f, n))[n]
  BY Zenon DEF Reporting
<1> HIDE DEF n, base, Op
<1>3. 0 \in S
  <2> DEFINE f == [i \in 0..0 |-> base]
  <2>1. Fun(f, 0)
    OBVIOUS
  <2>2. 0 \in 0..n
    BY <1>1
  <2> HIDE DEF f, Fun
  <2> QED BY <2>1, <2>2
<1>4. \A k \in 0..(n - 1) : k \in S => k + 1 \in S
  <2> SUFFICES ASSUME NEW k \in 0..(n - 1), k \in S PROVE k + 1 \in S
    OBVIOUS
  <2>1. PICK f : Fun(f, k)
    OBVIOUS
  <2>2. k \in Nat /\ k + 1 \in 0..n /\ k \in 0..k
    BY <1>1
  <2>3. \A i \in 0..k : f[i] = IF i = 0 THEN base ELSE Op(i, f[i - 1])
    BY <2>1
  <2> DEFINE g == [i \in 0..(k + 1) |-> IF i = k + 1 THEN Op(k + 1, f[k]) ELSE f[i]]
             h == [i \in 0..(k + 1) |-> IF i = 0 THEN base ELSE Op(i, g[i - 1])]
  <2>4. \A i \in 0..(k + 1) : g[i] = h[i]
    <3> SUFFICES ASSUME NEW i \in 0..(k + 1) PROVE g[i] = h[i]
      OBVIOUS
    <3>1. CASE i = k + 1
      <4>1. g[k] = f[k] /\ g[i] = Op(k + 1, f[k]) /\ i # 0 /\ i - 1 = k
        BY <2>2, <3>1
      <4> QED BY <3>1, <4>1
    <3>2. CASE i # k + 1 /\ i # 0
      <4>1. i \in 0..k /\ i - 1 \in 0..k /\ i - 1 \in 0..(k + 1) /\ i - 1 # k + 1
        BY <2>2, <3>2
      <4>2. g[i] = f[i] /\ g[i - 1] = f[i - 1]
        BY <3>2, <4>1
      <4> QED BY <2>3, <3>2, <4>1, <4>2
    <3>3. CASE i = 0
      <4>1. 0 \in 0..k /\ 0 # k + 1
        BY <2>2
      <4> QED BY <2>3, <3>3, <4>1
    <3> QED BY <3>1, <3>2, <3>3
  <2>5. Fun(g, k + 1)
    BY <2>4
  <2> HIDE DEF g, Fun
  <2> QED BY <2>2, <2>5
<1>5. 0..n \subseteq S
  <2> HIDE DEF S
  <2> QED BY <1>1, <1>3, <1>4, HoldsUpTo
<1> DEFINE a == CHOOSE f : Fun(f, n)
<1>6. Fun(a, n)
  <2>1. \E f : Fun(f, n)
    BY <1>1, <1>5
  <2> HIDE DEF Fun
  <2> QED BY <2>1
<1> HIDE DEF a
<1>7. a[0] = base /\ \A k \in 1..n : a[k] = Op(k, a[k - 1])
  <2>1. \A i \in 0..n : a[i] = IF i = 0 THEN base ELSE Op(i, a[i - 1])
    BY <1>6
  <2>2. 0 \in 0..n /\ \A k \in 1..n : k \in 0..n /\ k # 0
    BY <1>1
  <2> HIDE DEF Fun
  <2> QED BY <2>1, <2>2
<1>8. Reporting(opts, results) = a[n]
  BY <1>2 DEF a
<1> HIDE DEF Fun
<1> QED BY <1>7, <1>8 DEF n, base, Op

\* Joined in turn, each part adds what it has.
Joined(parts, k) == FlattenSeq(FirstOnes(parts, k))
LEMMA JoinInTurn ==
  ASSUME NEW V, NEW parts \in Seq(Seq(V))
  PROVE  /\ Joined(parts, 0) = <<>> /\ Joined(parts, Len(parts)) = FlattenSeq(parts)
         /\ \A k \in 0..Len(parts) : Joined(parts, k) \in Seq(V)
         /\ \A k \in 0..(Len(parts) - 1) : Joined(parts, k + 1) = Joined(parts, k) \o parts[k + 1]
<1> DEFINE W == Seq(V)
           n == Len(parts)
<1>1. /\ n \in Nat /\ FirstOnes(parts, 0) = <<>> /\ FirstOnes(parts, n) = parts
      /\ \A k \in 0..n : FirstOnes(parts, k) \in Seq(W)
      /\ \A k \in 0..(n - 1) : FirstOnes(parts, k + 1) = Append(FirstOnes(parts, k), parts[k + 1]) /\ parts[k + 1] \in W
  <2>1. parts \in Seq(W)
    OBVIOUS
  <2> HIDE DEF W
  <2> QED BY <2>1, FirstOnesAre
<1>2. ASSUME NEW a \in Seq(W), NEW p \in W
      PROVE  FlattenSeq(Append(a, p)) = FlattenSeq(a) \o p /\ FlattenSeq(a) \in W
  BY <1>2, JoinAppend, Zenon
<1> HIDE DEF n
<1>3. ASSUME NEW k \in 0..n PROVE Joined(parts, k) \in W
  <2>1. CASE k \in 0..(n - 1)
    <3>1. FirstOnes(parts, k) \in Seq(W) /\ parts[k + 1] \in W
      BY <1>1, <2>1
    <3> HIDE DEF W
    <3> QED BY <1>2, <3>1 DEF Joined
  <2>2. CASE k = n
    <3>1. FirstOnes(parts, k) \in Seq(W)
      BY <1>1
    <3>2. <<>> \in W
      OBVIOUS
    <3> HIDE DEF W
    <3> QED BY <1>2, <3>1, <3>2 DEF Joined
  <2> QED BY <1>1, <2>1, <2>2
<1>4. ASSUME NEW k \in 0..(n - 1) PROVE Joined(parts, k + 1) = Joined(parts, k) \o parts[k + 1]
  <2>1. k \in 0..n
    BY <1>1
  <2>2. FirstOnes(parts, k) \in Seq(W) /\ parts[k + 1] \in W /\ FirstOnes(parts, k + 1) = Append(FirstOnes(parts, k), parts[k + 1])
    BY <1>1, <2>1
  <2>3. FlattenSeq(Append(FirstOnes(parts, k), parts[k + 1])) = FlattenSeq(FirstOnes(parts, k)) \o parts[k + 1]
    <3> HIDE DEF W
    <3> QED BY <1>2, <2>2
  <2> QED BY <2>2, <2>3, Zenon DEF Joined
<1>5. Joined(parts, 0) = <<>> /\ Joined(parts, n) = FlattenSeq(parts)
  BY <1>1, JoinNothing, Zenon DEF Joined
<1> QED BY <1>3, <1>4, <1>5, Zenon DEF n, W

\* Counted in turn, each place adds one or none.
LEMMA CountInTurn ==
  ASSUME NEW k \in Nat, NEW T
  PROVE  /\ Cardinality((1..k) \cap T) \in Nat /\ Cardinality((1..0) \cap T) = 0
         /\ Cardinality((1..(k + 1)) \cap T) = Cardinality((1..k) \cap T) + (IF k + 1 \in T THEN 1 ELSE 0)
<1> DEFINE A == (1..k) \cap T
<1>1. IsFiniteSet(1..k)
  BY FS_Interval
<1>2. IsFiniteSet(A) /\ Cardinality(A) \in Nat
  BY <1>1, FS_Subset, FS_CardinalityType
<1>3. (1..0) \cap T = {} /\ Cardinality({}) = 0
  BY FS_EmptySet
<1>4. k + 1 \notin A
  OBVIOUS
<1>5. CASE k + 1 \in T
  <2>1. (1..(k + 1)) \cap T = A \cup {k + 1}
    BY <1>5
  <2> HIDE DEF A
  <2>2. Cardinality(A \cup {k + 1}) = Cardinality(A) + 1
    BY <1>2, <1>4, FS_AddElement
  <2> QED BY <1>2, <1>3, <1>5, <2>1, <2>2 DEF A
<1>6. CASE k + 1 \notin T
  <2>1. (1..(k + 1)) \cap T = A
    BY <1>6
  <2> QED BY <1>2, <1>3, <1>6, <2>1
<1> QED BY <1>5, <1>6

\* What a report may be made of, and what its lines are.
ResultIs(r) ==
  /\ r.path \in Nat /\ r.findings \in Seq(Diagnostics)
  /\ r.status \in {"valid", "invalid"} \/ (r.status \in {"error", "skipped"} /\ r.findings = <<>>)
FindingLine == [what : {"finding"}, path : Nat, finding : Diagnostics]
Test == [what : {"test"}, n : Nat, ok : BOOLEAN, path : Nat, skip : BOOLEAN]
Remarks == {"error", "skipped", "valid", "coverage", "message"}
Line == [what : Remarks, path : Nat] \cup FindingLine \cup Test

\* Every result of a run that may be reported is one.
LEMMA ResultsAre ==
  ASSUME NEW t, IsReport(t)
  PROVE  /\ Len(t.results) \in Nat /\ DOMAIN t.results = 1..Len(t.results) /\ t.results \in Seq(ToSet(t.results))
         /\ \A i \in 1..Len(t.results) : ResultIs(t.results[i]) /\ t.results[i] \in ToSet(t.results)
         /\ \A r \in ToSet(t.results) : ResultIs(r)
<1> DEFINE s == t.results
<1>1. s \in Seq(ToSet(s)) /\ \A i \in DOMAIN s : ResultIs(s[i])
  BY DEF IsReport, ResultIs
<1>2. Len(s) \in Nat /\ DOMAIN s = 1..Len(s)
  BY <1>1, LenProperties
<1>3. \A i \in DOMAIN s : s[i] \in ToSet(s)
  BY DEF ToSet
<1>4. \A r \in ToSet(s) : \E i \in DOMAIN s : s[i] = r
  BY DEF ToSet
<1> HIDE DEF s
<1>5. \A r \in ToSet(s) : ResultIs(r)
  BY <1>1, <1>4
<1> QED BY <1>1, <1>2, <1>3, <1>5 DEF s

\* The lines of a result's findings are those of its findings.
LEMMA FindingLinesAre ==
  ASSUME NEW r, ResultIs(r)
  PROVE  /\ Len(r.findings) \in Nat /\ FindingLines(r) \in Seq(FindingLine) /\ FindingLines(r) \in Seq(Line)
         /\ Len(FindingLines(r)) = Len(r.findings) /\ DOMAIN FindingLines(r) = 1..Len(r.findings)
         /\ DOMAIN r.findings = 1..Len(r.findings)
         /\ \A i \in 1..Len(r.findings) :
              FindingLines(r)[i] = [what |-> "finding", path |-> r.path, finding |-> r.findings[i]]
         /\ LinesOf(FindingLines(r), "finding") = FindingLines(r)
         /\ LinesOf(FindingLines(r), "test") = <<>>
         /\ r.findings = <<>> => FindingLines(r) = <<>>
<1> DEFINE d == r.findings
           n == Len(d)
           l == FindingLines(r)
<1>1. d \in Seq(Diagnostics) /\ r.path \in Nat
  BY DEF ResultIs
<1>2. n \in Nat /\ DOMAIN d = 1..n /\ \A i \in 1..n : d[i] \in Diagnostics
  BY <1>1, LenProperties, ElementOfSeq
<1>3. l = [i \in 1..n |-> [what |-> "finding", path |-> r.path, finding |-> d[i]]]
  BY <1>2 DEF FindingLines
<1>4. \A i \in 1..n : [what |-> "finding", path |-> r.path, finding |-> d[i]] \in FindingLine
  BY <1>1, <1>2 DEF FindingLine
<1>5. FindingLine \subseteq Line
  BY DEF Line
<1>6. l \in [1..n -> FindingLine] /\ l \in [1..n -> Line]
  <2> HIDE DEF l, n, d
  <2> QED BY <1>3, <1>4, <1>5
<1>7. l \in Seq(FindingLine) /\ l \in Seq(Line) /\ Len(l) = n
  <2> HIDE DEF l, n
  <2> QED BY <1>2, <1>6, SeqDef, LenProperties
<1>8. \A i \in 1..n : l[i] = [what |-> "finding", path |-> r.path, finding |-> d[i]]
  BY <1>3
<1>9. \A i \in 1..n : l[i].what = "finding"
  <2> SUFFICES ASSUME NEW i \in 1..n PROVE l[i].what = "finding"
    OBVIOUS
  <2> HIDE DEF l, n
  <2>1. l[i] = [what |-> "finding", path |-> r.path, finding |-> d[i]]
    BY <1>8
  <2> HIDE DEF d
  <2> QED BY <2>1
<1>10. LinesOf(l, "finding") = l /\ LinesOf(l, "test") = <<>>
  <2>1. \A i \in 1..Len(l) : l[i].what = "finding" /\ l[i].what # "test"
    BY <1>7, <1>9
  <2> HIDE DEF l
  <2> QED BY <1>7, <2>1, LinesAllOrNone
<1>11. d = <<>> => l = <<>>
  <2>1. d = <<>> => n = 0
    BY EmptySeq
  <2> HIDE DEF l, n, d
  <2> QED BY <1>7, <2>1, EmptySeq
<1>12. DOMAIN l = 1..n
  BY <1>3
<1> QED BY <1>2, <1>7, <1>8, <1>10, <1>11, <1>12, Zenon

\* The lines of all that was found.
Shows(results) == [i \in DOMAIN results |-> FindingLines(results[i])]
Shown(results, k) == Joined(Shows(results), k)
GoodResults(results) ==
  /\ Len(results) \in Nat /\ DOMAIN results = 1..Len(results) /\ results \in Seq(ToSet(results))
  /\ \A i \in 1..Len(results) : ResultIs(results[i]) /\ results[i] \in ToSet(results)
  /\ \A r \in ToSet(results) : ResultIs(r)

\* Each result adds the lines of its findings.
LEMMA FoundInTurn ==
  ASSUME NEW results, GoodResults(results)
  PROVE  /\ Shown(results, 0) = <<>> /\ Shown(results, Len(results)) = FindingLinesOf(results)
         /\ \A k \in 0..Len(results) : Shown(results, k) \in Seq(FindingLine)
         /\ \A k \in 0..(Len(results) - 1) : Shown(results, k + 1) = Shown(results, k) \o FindingLines(results[k + 1])
<1> DEFINE n == Len(results)
           W == Seq(FindingLine)
           p == Shows(results)
<1>1. n \in Nat /\ DOMAIN results = 1..n /\ \A i \in 1..n : ResultIs(results[i])
  BY DEF GoodResults
<1>2. p = [i \in 1..n |-> FindingLines(results[i])] /\ FindingLinesOf(results) = FlattenSeq(p)
  BY <1>1 DEF Shows, FindingLinesOf
<1>3. \A i \in 1..n : FindingLines(results[i]) \in W
  BY <1>1, FindingLinesAre
<1> HIDE DEF n, W, p
<1>4. p \in [1..n -> W] /\ \A i \in 1..n : p[i] = FindingLines(results[i])
  BY <1>2, <1>3
<1>5. p \in Seq(W) /\ Len(p) = n
  BY <1>1, <1>4, SeqDef, LenProperties
<1>6. /\ Joined(p, 0) = <<>> /\ Joined(p, Len(p)) = FlattenSeq(p)
      /\ \A k \in 0..Len(p) : Joined(p, k) \in W
      /\ \A k \in 0..(Len(p) - 1) : Joined(p, k + 1) = Joined(p, k) \o p[k + 1]
  <2>1. p \in Seq(Seq(FindingLine))
    BY <1>5 DEF W
  <2> QED BY <2>1, JoinInTurn, Zenon DEF W
<1>7. \A k \in 0..n : Shown(results, k) = Joined(p, k)
  BY DEF Shown, p
<1>8. ASSUME NEW k \in 0..(n - 1) PROVE Shown(results, k + 1) = Shown(results, k) \o FindingLines(results[k + 1])
  <2>1. k + 1 \in 1..n /\ k + 1 \in 0..n /\ k \in 0..n
    BY <1>1
  <2>2. Joined(p, k + 1) = Joined(p, k) \o p[k + 1]
    BY <1>5, <1>6
  <2>3. p[k + 1] = FindingLines(results[k + 1])
    BY <1>4, <2>1
  <2> QED BY <1>7, <2>1, <2>2, <2>3, Zenon
<1>9. 0 \in 0..n /\ n \in 0..n
  BY <1>1
<1>10. Shown(results, 0) = <<>> /\ Shown(results, n) = FindingLinesOf(results)
  BY <1>2, <1>5, <1>6, <1>7, <1>9
<1>11. \A k \in 0..n : Shown(results, k) \in W
  BY <1>5, <1>6, <1>7
<1> QED BY <1>8, <1>10, <1>11 DEF n, W

\* What the counts have counted, of the first k results.
OfStatus(results, status) == {i \in DOMAIN results : results[i].status = status}
OfSeverity(severity) == {l \in FindingLine : l.finding.severity = severity}
OfRuleName(rule) == {l \in FindingLine : l.finding.rule = rule}

\* A finding is counted where its line is.
LEMMA NumberIs ==
  ASSUME NEW r, ResultIs(r), NEW value
  PROVE  /\ Number(r.findings, "severity", value) = Cardinality(PlacesIn(FindingLines(r), OfSeverity(value)))
         /\ Number(r.findings, "rule", value) = Cardinality(PlacesIn(FindingLines(r), OfRuleName(value)))
<1> DEFINE d == r.findings
           n == Len(d)
           l == FindingLines(r)
<1>1. /\ DOMAIN d = 1..n /\ DOMAIN l = 1..n /\ l \in Seq(FindingLine) /\ Len(l) = n
      /\ \A i \in 1..n : l[i] = [what |-> "finding", path |-> r.path, finding |-> d[i]]
  BY FindingLinesAre
<1>2. \A i \in 1..n : l[i] \in FindingLine
  <2> HIDE DEF l, d, n
  <2> QED BY <1>1, ElementOfSeq
<1>3. \A i \in 1..n : l[i].finding = d[i]
  <2> HIDE DEF l, d, n
  <2> QED BY <1>1
<1>4. {i \in DOMAIN d : d[i].severity = value} = PlacesIn(l, OfSeverity(value))
  <2> HIDE DEF l, d, n
  <2> QED BY <1>1, <1>2, <1>3 DEF PlacesIn, OfSeverity
<1>5. {i \in DOMAIN d : d[i].rule = value} = PlacesIn(l, OfRuleName(value))
  <2> HIDE DEF l, d, n
  <2> QED BY <1>1, <1>2, <1>3 DEF PlacesIn, OfRuleName
<1> QED BY <1>4, <1>5 DEF Number

TallyTells(results, k, tally) ==
  /\ tally.invalid = Cardinality((1..k) \cap OfStatus(results, "invalid"))
  /\ tally.errors = Cardinality((1..k) \cap OfStatus(results, "error"))
  /\ tally.warnings = Cardinality(PlacesIn(Shown(results, k), OfSeverity("warning")))

\* Summary.Add counts the next result.
LEMMA TallyStep ==
  ASSUME NEW results, GoodResults(results), NEW k \in 0..(Len(results) - 1),
         NEW tally, TallyTells(results, k, tally)
  PROVE  TallyTells(results, k + 1, AddResult(tally, results[k + 1]))
<1> DEFINE n == Len(results)
           r == results[k + 1]
           One(holds) == IF holds THEN 1 ELSE 0
           found == Shown(results, k)
           new == AddResult(tally, r)
<1>1. n \in Nat /\ DOMAIN results = 1..n /\ k \in Nat /\ k \in 0..n /\ k + 1 \in 1..n /\ ResultIs(r)
  BY DEF GoodResults
<1>2. found \in Seq(FindingLine) /\ FindingLines(r) \in Seq(FindingLine) /\ Shown(results, k + 1) = found \o FindingLines(r)
  BY <1>1, FoundInTurn, FindingLinesAre
<1>3. /\ new.invalid = tally.invalid + One(r.status = "invalid")
      /\ new.errors = tally.errors + One(r.status = "error")
      /\ new.warnings = tally.warnings + Number(r.findings, "severity", "warning")
  BY DEF AddResult
<1>4. \A s : k + 1 \in OfStatus(results, s) <=> r.status = s
  BY <1>1 DEF OfStatus
<1>5. \A s : Cardinality((1..(k + 1)) \cap OfStatus(results, s)) =
                 Cardinality((1..k) \cap OfStatus(results, s)) + One(k + 1 \in OfStatus(results, s))
  BY <1>1, CountInTurn
<1>6. Number(r.findings, "severity", "warning") = Cardinality(PlacesIn(FindingLines(r), OfSeverity("warning")))
  BY <1>1, NumberIs
<1> HIDE DEF found, r, new
<1>7. Cardinality(PlacesIn(found \o FindingLines(r), OfSeverity("warning"))) =
        Cardinality(PlacesIn(found, OfSeverity("warning"))) + Cardinality(PlacesIn(FindingLines(r), OfSeverity("warning")))
  BY <1>2, CountConcat
<1>8. new.invalid = Cardinality((1..(k + 1)) \cap OfStatus(results, "invalid"))
      /\ new.errors = Cardinality((1..(k + 1)) \cap OfStatus(results, "error"))
  BY <1>3, <1>4, <1>5 DEF TallyTells
<1>9. new.warnings = Cardinality(PlacesIn(Shown(results, k + 1), OfSeverity("warning")))
  BY <1>2, <1>3, <1>6, <1>7 DEF TallyTells, found
<1> QED BY <1>8, <1>9 DEF TallyTells, new, r

JunitTells(results, k, cases) == cases = [i \in 1..k |-> JunitCase(results[i])]

\* junitFormatter.Result adds the next case.
LEMMA JunitStep ==
  ASSUME NEW results, NEW k \in Nat, NEW cases, JunitTells(results, k, cases)
  PROVE  JunitTells(results, k + 1, Append(cases, JunitCase(results[k + 1])))
<1> DEFINE c(i) == JunitCase(results[i])
           new == Append(cases, c(k + 1))
           V == {c(i) : i \in 1..(k + 1)}
<1>1. cases = [i \in 1..k |-> c(i)] /\ \A i \in 1..(k + 1) : c(i) \in V
  BY DEF JunitTells
<1> HIDE DEF c, V
<1>2. cases \in [1..k -> V] /\ k + 1 \in 1..(k + 1)
  BY <1>1
<1>3. cases \in Seq(V) /\ Len(cases) = k
  BY <1>2, SeqDef, LenProperties
<1>4. new \in Seq(V) /\ Len(new) = k + 1 /\ new[k + 1] = c(k + 1) /\ \A i \in 1..k : new[i] = c(i)
  BY <1>1, <1>2, <1>3, AppendProperties
<1>5. DOMAIN new = 1..(k + 1) /\ new = [i \in DOMAIN new |-> new[i]]
  <2> HIDE DEF new
  <2> QED BY <1>4, LenProperties
<1>6. \A i \in 1..(k + 1) : new[i] = c(i)
  BY <1>4
<1>7. new = [i \in 1..(k + 1) |-> c(i)]
  <2> HIDE DEF new
  <2> QED BY <1>5, <1>6
<1> QED BY <1>7 DEF JunitTells, c

TapTells(results, k, tap) ==
  /\ tap.n = k /\ tap.lines \in Seq(Line)
  /\ LinesOf(tap.lines, "test") = [i \in 1..k |-> TestLine(i, results[i])]
  /\ LinesOf(tap.lines, "finding") = Shown(results, k)

\* A remark about a file is a line, and no finding.
LEMMA AboutIs ==
  ASSUME NEW r, ResultIs(r), NEW what \in Remarks
  PROVE  About(what, r) \in Line /\ About(what, r).what = what /\ About(what, r).path = r.path
<1>1. r.path \in Nat
  BY DEF ResultIs
<1>2. About(what, r) = [what |-> what, path |-> r.path]
  BY DEF About
<1>3. [what |-> what, path |-> r.path] \in [what : Remarks, path : Nat]
  BY <1>1
<1>4. About(what, r) \in Line
  BY <1>2, <1>3, Zenon DEF Line
<1> QED BY <1>2, <1>4

\* tapFormatter.Result adds the next test, and the lines below it.
LEMMA TapStep ==
  ASSUME NEW results, GoodResults(results), NEW k \in 0..(Len(results) - 1),
         NEW tap, TapTells(results, k, tap)
  PROVE  TapTells(results, k + 1, TapResult(tap, results[k + 1]))
<1> DEFINE n == Len(results)
           r == results[k + 1]
           x == TestLine(k + 1, r)
           message == IF r.status = "error" THEN <<About("message", r)>> ELSE <<>>
           l == FindingLines(r)
           a == tap.lines
           b == Append(a, x)
           new == TapResult(tap, r)
<1>1. n \in Nat /\ k \in Nat /\ k \in 0..n /\ k + 1 \in 1..n /\ ResultIs(r)
  BY DEF GoodResults
<1>2. new.n = k + 1 /\ new.lines = b \o message \o l
  BY DEF TapResult, TapTells
<1>3. l \in Seq(Line) /\ LinesOf(l, "finding") = l /\ LinesOf(l, "test") = <<>>
  BY <1>1, FindingLinesAre
<1>4. x \in Test /\ x.what = "test" /\ x \in Line
  <2>1. r.path \in Nat
    BY <1>1 DEF ResultIs
  <2>2. x \in Test /\ x.what = "test"
    BY <1>1, <2>1 DEF TestLine, Test
  <2> QED BY <2>2 DEF Line
<1>5. message \in Seq(Line) /\ LinesOf(message, "finding") = <<>> /\ LinesOf(message, "test") = <<>>
  <2>1. About("message", r) \in Line /\ About("message", r).what = "message"
    <3>1. "message" \in Remarks
      BY DEF Remarks
    <3> HIDE DEF r
    <3> QED BY <1>1, <3>1, AboutIs
  <2>2. \A what : LinesOf(<<About("message", r)>>, what) = (IF "message" = what THEN <<About("message", r)>> ELSE <<>>)
                  /\ LinesOf(<<>>, what) = <<>>
    BY <2>1, LinesOfOne
  <2>3. <<About("message", r)>> \in Seq(Line) /\ <<>> \in Seq(Line)
    BY <2>1
  <2> QED BY <2>2, <2>3
<1>6. a \in Seq(Line) /\ LinesOf(a, "test") = [i \in 1..k |-> TestLine(i, results[i])] /\ LinesOf(a, "finding") = Shown(results, k)
  BY DEF TapTells
<1>7. Shown(results, k + 1) = Shown(results, k) \o l /\ Shown(results, k) \in Seq(FindingLine)
  BY <1>1, FoundInTurn
<1> HIDE DEF l, message, a, x, new, r
<1> DEFINE W == Seq(Line)
<1>a. \A s, t \in W : \A w : LinesOf(s \o t, w) = LinesOf(s, w) \o LinesOf(t, w) /\ s \o t \in W
  BY LinesConcat, Zenon
<1>8. b = a \o <<x>> /\ <<x>> \in Seq(Line)
  BY <1>4, <1>6, AppendIsConcat
<1>9. LinesOf(<<x>>, "test") = <<x>> /\ LinesOf(<<x>>, "finding") = <<>>
  BY <1>4, LinesOfOne
<1> HIDE DEF b
<1> DEFINE xs == <<x>>
           c == b \o message
<1>b. a \in W /\ xs \in W /\ message \in W /\ l \in W /\ b = a \o xs
  BY <1>3, <1>5, <1>6, <1>8
<1> HIDE DEF W, xs
<1>10. b \in W /\ \A w : LinesOf(b, w) = LinesOf(a, w) \o LinesOf(<<x>>, w)
  BY <1>a, <1>b DEF xs
<1>11. c \in W /\ \A w : LinesOf(c, w) = LinesOf(b, w) \o LinesOf(message, w)
  BY <1>a, <1>b, <1>10, Zenon
<1>12. new.lines = c \o l
  BY <1>2
<1> HIDE DEF c
<1>13. new.lines \in W /\ \A w : LinesOf(new.lines, w) = LinesOf(c, w) \o LinesOf(l, w)
  <2>1. c \o l \in W /\ \A w : LinesOf(c \o l, w) = LinesOf(c, w) \o LinesOf(l, w)
    BY <1>a, <1>b, <1>11, Zenon
  <2> QED BY <1>12, <2>1, Zenon
<1> DEFINE tests == LinesOf(a, "test")
           found == LinesOf(a, "finding")
<1>14. tests \in Seq(Line) /\ found \in Seq(Line)
  BY <1>6, PartsAre
<1>15. LinesOf(new.lines, "test") = ((tests \o <<x>>) \o <<>>) \o <<>>
  BY <1>3, <1>5, <1>9, <1>10, <1>11, <1>13, Zenon
<1>16. LinesOf(new.lines, "finding") = ((found \o <<>>) \o <<>>) \o l
  BY <1>3, <1>5, <1>9, <1>10, <1>11, <1>13, Zenon
<1>17. tests = [i \in 1..k |-> TestLine(i, results[i])] /\ found = Shown(results, k)
  BY <1>6
<1> HIDE DEF tests, found
<1>18. LinesOf(new.lines, "test") = Append(tests, x)
  <2>1. tests \o <<x>> = Append(tests, x) /\ Append(tests, x) \in Seq(Line)
    BY <1>4, <1>14, AppendIsConcat, AppendProperties
  <2>2. \A s \in Seq(Line) : s \o <<>> = s
    BY ConcatEmptySeq
  <2> QED BY <1>15, <2>1, <2>2
<1>19. LinesOf(new.lines, "finding") = found \o l
  <2>1. found \o <<>> = found
    BY <1>14, ConcatEmptySeq
  <2> QED BY <1>16, <2>1
<1>20. Append(tests, x) = [i \in 1..(k + 1) |-> TestLine(i, results[i])]
  <2> DEFINE t(i) == TestLine(i, results[i])
             u == Append(tests, x)
  <2>1. tests = [i \in 1..k |-> t(i)] /\ x = t(k + 1)
    BY <1>17 DEF x, r
  <2> HIDE DEF t
  <2>2. DOMAIN tests = 1..k /\ Len(tests) = k
    BY <1>1, <1>14, <2>1, LenProperties
  <2>3. u \in Seq(Line) /\ Len(u) = k + 1 /\ u[k + 1] = t(k + 1) /\ \A i \in 1..k : u[i] = t(i)
    BY <1>4, <1>14, <2>1, <2>2, AppendProperties
  <2> HIDE DEF u
  <2>4. DOMAIN u = 1..(k + 1) /\ u = [i \in DOMAIN u |-> u[i]]
    BY <2>3, LenProperties
  <2>5. \A i \in 1..(k + 1) : u[i] = t(i)
    BY <1>1, <2>3
  <2>6. u = [i \in 1..(k + 1) |-> t(i)]
    BY <2>4, <2>5
  <2> QED BY <2>6 DEF u, t
<1>21. LinesOf(new.lines, "finding") = Shown(results, k + 1)
  BY <1>7, <1>17, <1>19
<1>22. new.n = k + 1
  BY <1>2
<1> QED BY <1>13, <1>18, <1>20, <1>21, <1>22 DEF TapTells, new, r, W

\* LinesConcat, of a report's lines.
LEMMA LinesAdd ==
  \A s, t \in Seq(Line) :
    \A what : s \o t \in Seq(Line) /\ LinesOf(s \o t, what) = LinesOf(s, what) \o LinesOf(t, what)
<1> DEFINE W == Seq(Line)
<1>1. \A s, t \in W : \A what : LinesOf(s \o t, what) = LinesOf(s, what) \o LinesOf(t, what) /\ s \o t \in W
  BY LinesConcat, Zenon
<1> QED BY <1>1, Zenon DEF W

\* The text report has a line for each finding, and some line for each failing
\* file that has anything to show.
ToShow(r) == Fails(r) /\ (r.status = "error" \/ r.findings # <<>>)
SaidOf(lines, r) == \E j \in 1..Len(lines) : lines[j].path = r.path /\ lines[j].what \in {"error", "finding"}

\* The text of a result shows its findings, and itself if it fails.
LEMMA TextLinesAre ==
  ASSUME NEW verbose, NEW r, ResultIs(r)
  PROVE  /\ TextLines(verbose, r) \in Seq(Line) /\ LinesOf(TextLines(verbose, r), "finding") = FindingLines(r)
         /\ ToShow(r) => SaidOf(TextLines(verbose, r), r)
<1> DEFINE t == TextLines(verbose, r)
           l == FindingLines(r)
           W == Seq(Line)
           coverage == IF Incomplete(r) THEN <<About("coverage", r)>> ELSE <<>>
<1>1. l \in W /\ LinesOf(l, "finding") = l /\ (r.findings = <<>> => l = <<>>)
  BY FindingLinesAre
<1>2. \A what \in Remarks : <<About(what, r)>> \in W /\ LinesOf(<<About(what, r)>>, "finding") = <<>>
  <2> SUFFICES ASSUME NEW what \in Remarks PROVE <<About(what, r)>> \in W /\ LinesOf(<<About(what, r)>>, "finding") = <<>>
    OBVIOUS
  <2> DEFINE x == About(what, r)
  <2>1. x \in Line /\ x.what = what /\ what # "finding"
    BY AboutIs DEF Remarks
  <2> HIDE DEF x
  <2>2. LinesOf(<<x>>, "finding") = IF x.what = "finding" THEN <<x>> ELSE <<>>
    BY <2>1, LinesOfOne, Zenon
  <2>3. <<x>> \in W
    BY <2>1
  <2> HIDE DEF W
  <2> QED BY <2>1, <2>2, <2>3 DEF x
<1>3. <<>> \in W /\ LinesOf(<<>>, "finding") = <<>>
  <2>1. PartsOf(<<>>, "finding") = <<>>
    BY DEF PartsOf
  <2>2. LinesOf(<<>>, "finding") = FlattenSeq(PartsOf(<<>>, "finding"))
    BY DEF LinesOf, PartsOf
  <2> QED BY <2>1, <2>2, JoinNothing
<1> HIDE DEF W
<1>4. r.status \in {"valid", "invalid"} \/ (r.status \in {"error", "skipped"} /\ r.findings = <<>>)
  BY DEF ResultIs
<1>5. CASE r.status = "error"
  <2>1. t = <<About("error", r)>> /\ "error" \in Remarks
    BY <1>5 DEF TextLines, Remarks
  <2>2. t \in W /\ LinesOf(t, "finding") = <<>>
    BY <1>2, <2>1
  <2>3. l = <<>>
    BY <1>1, <1>4, <1>5
  <2>4. Len(t) = 1 /\ t[1] = About("error", r)
    BY <2>1
  <2>5. About("error", r).path = r.path /\ About("error", r).what = "error"
    BY <2>1, AboutIs
  <2> HIDE DEF t, l
  <2>6. SaidOf(t, r)
    <3>1. 1 \in 1..Len(t)
      BY <2>4
    <3> QED BY <2>4, <2>5, <3>1 DEF SaidOf
  <2> QED BY <2>2, <2>3, <2>6 DEF t, l, W
<1>6. CASE r.status # "error" /\ (t = <<>> \/ \E what \in Remarks : t = <<About(what, r)>>) /\ r.findings = <<>>
  <2>1. t \in W /\ LinesOf(t, "finding") = <<>> /\ l = <<>>
    BY <1>1, <1>2, <1>3, <1>6
  <2>2. ~ToShow(r)
    BY <1>6 DEF ToShow
  <2> QED BY <2>1, <2>2 DEF W
<1>7. CASE t = l \o coverage /\ r.status # "error"
  <2>1. coverage \in W /\ LinesOf(coverage, "finding") = <<>>
    <3>1. "coverage" \in Remarks
      BY DEF Remarks
    <3> QED BY <1>2, <1>3, <3>1
  <2> HIDE DEF coverage, l, t
  <2>2. l \in Seq(Line) /\ coverage \in Seq(Line)
    BY <1>1, <2>1 DEF W
  <2>3. l \o coverage \in Seq(Line) /\ LinesOf(l \o coverage, "finding") = LinesOf(l, "finding") \o LinesOf(coverage, "finding")
    BY <2>2, LinesAdd, Zenon
  <2>4. l \o <<>> = l
    BY <2>2, ConcatEmptySeq
  <2>5. t \in Seq(Line) /\ LinesOf(t, "finding") = l
    BY <1>1, <1>7, <2>1, <2>3, <2>4, Zenon
  <2>6. ASSUME ToShow(r) PROVE SaidOf(t, r)
    <3>1. r.findings # <<>>
      BY <1>7, <2>6 DEF ToShow
    <3>2. /\ Len(r.findings) \in Nat /\ Len(l) = Len(r.findings) /\ r.findings \in Seq(Diagnostics)
          /\ \A i \in 1..Len(r.findings) : l[i] = [what |-> "finding", path |-> r.path, finding |-> r.findings[i]]
      BY FindingLinesAre DEF l, ResultIs
    <3>3. Len(r.findings) # 0 /\ 1 \in 1..Len(r.findings)
      BY <3>1, <3>2, EmptySeq
    <3> DEFINE d == r.findings[1]
    <3>4. l[1] = [what |-> "finding", path |-> r.path, finding |-> d]
      BY <3>2, <3>3
    <3> HIDE DEF d
    <3>5. l[1].path = r.path /\ l[1].what = "finding"
      BY <3>4
    <3>6. Len(l \o coverage) = Len(l) + Len(coverage) /\ (l \o coverage)[1] = l[1]
      <4>1. Len(l) \in Nat /\ Len(coverage) \in Nat /\ Len(l \o coverage) = Len(l) + Len(coverage)
            /\ \A i \in 1..Len(l) + Len(coverage) :
                 (l \o coverage)[i] = IF i <= Len(l) THEN l[i] ELSE coverage[i - Len(l)]
        BY <2>2, ConcatProperties, LenProperties
      <4>2. 1 \in 1..Len(l) + Len(coverage) /\ 1 <= Len(l)
        BY <3>2, <3>3, <4>1
      <4> QED BY <4>1, <4>2
    <3>7. 1 \in 1..Len(t) /\ t[1] = l[1]
      BY <1>7, <2>2, <3>2, <3>3, <3>6, LenProperties
    <3> QED BY <3>5, <3>7 DEF SaidOf
  <2> QED BY <2>5, <2>6 DEF t, l
<1>8. r.status # "error" => ((t = <<>> \/ \E what \in Remarks : t = <<About(what, r)>>) /\ r.findings = <<>>) \/ t = l \o coverage
  <2> SUFFICES ASSUME r.status # "error"
               PROVE  ((t = <<>> \/ \E what \in Remarks : t = <<About(what, r)>>) /\ r.findings = <<>>) \/ t = l \o coverage
    OBVIOUS
  <2>1. "skipped" \in Remarks /\ "valid" \in Remarks
    BY DEF Remarks
  <2>2. CASE r.status = "skipped"
    <3>1. t = (IF verbose THEN <<About("skipped", r)>> ELSE <<>>) /\ r.findings = <<>>
      BY <1>4, <2>2 DEF TextLines
    <3> HIDE DEF t
    <3> QED BY <2>1, <3>1, Zenon
  <2>3. CASE r.status = "valid" /\ r.findings = <<>> /\ ~Incomplete(r)
    <3>1. t = IF verbose THEN <<About("valid", r)>> ELSE <<>>
      BY <2>3 DEF TextLines
    <3> HIDE DEF t
    <3> QED BY <2>1, <2>3, <3>1, Zenon
  <2>4. CASE r.status # "skipped" /\ ~(r.status = "valid" /\ r.findings = <<>> /\ ~Incomplete(r))
    BY <2>4 DEF TextLines
  <2> QED BY <2>2, <2>3, <2>4
<1> QED BY <1>5, <1>6, <1>7, <1>8

TextTells(opts, results, k, text) ==
  /\ text.lines \in Seq(Line)
  /\ LinesOf(text.lines, "finding") = Shown(results, k)
  /\ \A i \in 1..k : ToShow(results[i]) => SaidOf(text.lines, results[i])
  /\ opts.summary =>
       \A rule \in RuleNames : text.counts[rule] = Cardinality(PlacesIn(Shown(results, k), OfRuleName(rule)))

\* textFormatter.Result adds the lines of the next result, and counts them.
LEMMA TextStep ==
  ASSUME NEW opts, NEW results, GoodResults(results), NEW k \in 0..(Len(results) - 1),
         NEW text, TextTells(opts, results, k, text)
  PROVE  TextTells(opts, results, k + 1, TextResult(opts, text, results[k + 1]))
<1> DEFINE n == Len(results)
           r == results[k + 1]
           a == text.lines
           b == TextLines(opts.verbose, r)
           found == Shown(results, k)
           l == FindingLines(r)
           new == TextResult(opts, text, r)
<1>1. n \in Nat /\ k \in Nat /\ k \in 0..n /\ k + 1 \in 1..n /\ ResultIs(r)
  BY DEF GoodResults
<1>2. new.lines = a \o b
      /\ (opts.summary => new.counts = [rule \in RuleNames |-> text.counts[rule] + Number(r.findings, "rule", rule)])
  BY DEF TextResult
<1>3. b \in Seq(Line) /\ LinesOf(b, "finding") = l /\ (ToShow(r) => SaidOf(b, r))
  BY <1>1, TextLinesAre
<1>4. a \in Seq(Line) /\ LinesOf(a, "finding") = found
      /\ \A i \in 1..k : ToShow(results[i]) => SaidOf(a, results[i])
  BY DEF TextTells
<1>5. Shown(results, k + 1) = found \o l /\ found \in Seq(FindingLine) /\ l \in Seq(FindingLine)
  BY <1>1, FoundInTurn, FindingLinesAre
<1>6. \A rule : Number(r.findings, "rule", rule) = Cardinality(PlacesIn(l, OfRuleName(rule)))
  BY <1>1, NumberIs
<1>7. opts.summary => \A rule \in RuleNames : text.counts[rule] = Cardinality(PlacesIn(found, OfRuleName(rule)))
  BY DEF TextTells
<1> HIDE DEF a, b, found, l, new
<1>8. a \o b \in Seq(Line) /\ LinesOf(a \o b, "finding") = LinesOf(a, "finding") \o LinesOf(b, "finding")
  BY <1>3, <1>4, LinesAdd, Zenon
<1>9. new.lines \in Seq(Line) /\ LinesOf(new.lines, "finding") = Shown(results, k + 1)
  BY <1>2, <1>3, <1>4, <1>5, <1>8, Zenon
<1>10. /\ Len(a) \in Nat /\ Len(b) \in Nat /\ Len(a \o b) = Len(a) + Len(b)
       /\ \A j \in 1..Len(a) : (a \o b)[j] = a[j] /\ j \in 1..Len(a \o b)
       /\ \A j \in 1..Len(b) : (a \o b)[Len(a) + j] = b[j] /\ Len(a) + j \in 1..Len(a \o b)
  BY <1>3, <1>4, ConcatProperties, LenProperties
<1> DEFINE c == a \o b
<1> HIDE DEF c
<1>11. \A s : SaidOf(a, s) \/ SaidOf(b, s) => SaidOf(c, s)
  BY <1>10 DEF SaidOf, c
<1>12. \A i \in 1..(k + 1) : ToShow(results[i]) => SaidOf(new.lines, results[i])
  <2> SUFFICES ASSUME NEW i \in 1..(k + 1), ToShow(results[i]) PROVE SaidOf(new.lines, results[i])
    OBVIOUS
  <2>1. i \in 1..k \/ i = k + 1
    BY <1>1
  <2>2. new.lines = c
    BY <1>2 DEF c
  <2> QED BY <1>3, <1>4, <1>11, <2>1, <2>2
<1>13. ASSUME opts.summary, NEW rule \in RuleNames
       PROVE  new.counts[rule] = Cardinality(PlacesIn(Shown(results, k + 1), OfRuleName(rule)))
  <2>1. Cardinality(PlacesIn(found \o l, OfRuleName(rule))) =
          Cardinality(PlacesIn(found, OfRuleName(rule))) + Cardinality(PlacesIn(l, OfRuleName(rule)))
    BY <1>5, CountConcat
  <2>2. new.counts[rule] = text.counts[rule] + Number(r.findings, "rule", rule)
    BY <1>2, <1>13
  <2> QED BY <1>5, <1>6, <1>7, <1>13, <2>1, <2>2
<1> QED BY <1>9, <1>12, <1>13 DEF TextTells, new

\* The JSON report has the failing files, and every finding.
JsonTells(results, k, files) ==
  /\ files \in Seq(ToSet(results)) /\ FindingLinesOf(files) = Shown(results, k)
  /\ \A i \in 1..k : Fails(results[i]) => \E j \in 1..Len(files) : files[j] = results[i]

\* One more result is written with the lines of its findings.
LEMMA ShowsAppend ==
  ASSUME NEW R, \A r \in R : ResultIs(r), NEW files \in Seq(R), NEW r \in R
  PROVE  FindingLinesOf(Append(files, r)) = FindingLinesOf(files) \o FindingLines(r)
<1> DEFINE W == Seq(FindingLine)
           n == Len(files)
           new == Append(files, r)
           p == Shows(files)
           q == Shows(new)
           l(x) == FindingLines(x)
<1>1. n \in Nat /\ DOMAIN files = 1..n /\ \A i \in 1..n : files[i] \in R
  BY LenProperties, ElementOfSeq
<1>2. new \in Seq(R) /\ Len(new) = n + 1 /\ new[n + 1] = r /\ (\A i \in 1..n : new[i] = files[i]) /\ DOMAIN new = 1..(n + 1)
  BY AppendProperties, LenProperties
<1>3. \A x \in R : l(x) \in W
  BY FindingLinesAre
<1>4. p = [i \in 1..n |-> l(files[i])] /\ q = [i \in 1..(n + 1) |-> l(new[i])]
  BY <1>1, <1>2 DEF Shows
<1>5. FindingLinesOf(files) = FlattenSeq(p) /\ FindingLinesOf(new) = FlattenSeq(q)
  BY Zenon DEF FindingLinesOf, Shows
<1> HIDE DEF W, n, new, p, q, l
<1>6. p \in [1..n -> W] /\ (\A i \in 1..n : p[i] = l(files[i]))
  BY <1>1, <1>3, <1>4
<1>7. p \in Seq(W) /\ Len(p) = n
  BY <1>1, <1>6, SeqDef, LenProperties
<1> DEFINE u == Append(p, l(r))
<1>8. l(r) \in W
  BY <1>3
<1>9. u \in Seq(W) /\ Len(u) = n + 1 /\ u[n + 1] = l(r) /\ \A i \in 1..n : u[i] = p[i]
  BY <1>7, <1>8, AppendProperties
<1> HIDE DEF u
<1>10. DOMAIN u = 1..(n + 1) /\ u = [i \in DOMAIN u |-> u[i]]
  BY <1>9, LenProperties
<1>11. \A i \in 1..(n + 1) : u[i] = l(new[i])
  <2> SUFFICES ASSUME NEW i \in 1..(n + 1) PROVE u[i] = l(new[i])
    OBVIOUS
  <2>1. CASE i = n + 1
    BY <1>2, <1>9, <2>1
  <2>2. CASE i # n + 1
    <3>1. i \in 1..n
      BY <1>1, <2>2
    <3> QED BY <1>2, <1>6, <1>9, <3>1
  <2> QED BY <2>1, <2>2
<1>12. u = q
  BY <1>4, <1>10, <1>11
<1>13. FlattenSeq(u) = FlattenSeq(p) \o l(r)
  <2>1. p \in Seq(Seq(FindingLine)) /\ l(r) \in Seq(FindingLine)
    BY <1>7, <1>8 DEF W
  <2> QED BY <2>1, JoinAppend, Zenon DEF u
<1> QED BY <1>5, <1>12, <1>13, Zenon DEF new, l

\* jsonFormatter.Result keeps the next result, unless it has nothing to say.
LEMMA JsonStep ==
  ASSUME NEW opts, NEW results, GoodResults(results), NEW k \in 0..(Len(results) - 1),
         NEW files, JsonTells(results, k, files)
  PROVE  JsonTells(results, k + 1, JsonResult(opts, files, results[k + 1]))
<1> DEFINE n == Len(results)
           r == results[k + 1]
           R == ToSet(results)
           found == Shown(results, k)
           l == FindingLines(r)
           new == JsonResult(opts, files, r)
<1>1. n \in Nat /\ k \in Nat /\ k \in 0..n /\ k + 1 \in 1..n /\ ResultIs(r) /\ r \in R /\ \A x \in R : ResultIs(x)
  BY DEF GoodResults
<1>2. files \in Seq(R) /\ FindingLinesOf(files) = found
      /\ \A i \in 1..k : Fails(results[i]) => \E j \in 1..Len(files) : files[j] = results[i]
  BY DEF JsonTells
<1>3. Shown(results, k + 1) = found \o l /\ found \in Seq(FindingLine) /\ (r.findings = <<>> => l = <<>>)
  BY <1>1, FoundInTurn, FindingLinesAre
<1>4. \A i \in 1..(k + 1) : i \in 1..k \/ i = k + 1
  BY <1>1
<1>5. CASE new = files /\ r.status = "valid" /\ r.findings = <<>>
  <2>1. found \o <<>> = found /\ l = <<>>
    BY <1>3, <1>5, ConcatEmptySeq
  <2>2. ~Fails(r)
    BY <1>5 DEF Fails
  <2> HIDE DEF new, r, R, found, l
  <2>3. FindingLinesOf(new) = Shown(results, k + 1)
    BY <1>2, <1>3, <1>5, <2>1, Zenon
  <2>4. \A i \in 1..(k + 1) : Fails(results[i]) => \E j \in 1..Len(new) : new[j] = results[i]
    BY <1>2, <1>4, <1>5, <2>2 DEF r
  <2> QED BY <1>2, <1>5, <2>3, <2>4 DEF JsonTells, new, R, r
<1>6. CASE new = Append(files, r)
  <2>1. FindingLinesOf(new) = found \o l
    <3> HIDE DEF R
    <3> QED BY <1>1, <1>2, <1>6, ShowsAppend, Zenon
  <2> HIDE DEF new, r, R, found, l
  <2>2. new \in Seq(R) /\ Len(new) = Len(files) + 1 /\ Len(files) \in Nat /\ new[Len(files) + 1] = r
        /\ \A i \in 1..Len(files) : new[i] = files[i]
    BY <1>1, <1>2, <1>6, AppendProperties, LenProperties
  <2>3. \A i \in 1..(k + 1) : Fails(results[i]) => \E j \in 1..Len(new) : new[j] = results[i]
    <3> SUFFICES ASSUME NEW i \in 1..(k + 1), Fails(results[i]) PROVE \E j \in 1..Len(new) : new[j] = results[i]
      OBVIOUS
    <3>1. CASE i = k + 1
      <4>1. Len(new) \in 1..Len(new) /\ new[Len(new)] = results[i]
        BY <2>2, <3>1 DEF r
      <4> QED BY <4>1
    <3>2. CASE i \in 1..k
      <4>1. PICK j \in 1..Len(files) : files[j] = results[i]
        BY <1>2, <3>2
      <4>2. j \in 1..Len(new) /\ new[j] = results[i]
        BY <2>2, <4>1
      <4> QED BY <4>2
    <3> QED BY <1>4, <3>1, <3>2
  <2> QED BY <1>3, <2>1, <2>2, <2>3 DEF JsonTells, new, R, r
<1>7. (new = files /\ r.status = "valid" /\ r.findings = <<>>) \/ new = Append(files, r)
  BY DEF JsonResult
<1> QED BY <1>5, <1>6, <1>7

\* The annotations are those of the results, one result's after another's.
AnnotationsIn(results) == [i \in DOMAIN results |-> AnnotationsOf(results[i])]

\* githubFormatter.Result makes annotations of a result's findings.
LEMMA AnnotationsAre ==
  ASSUME NEW r, ResultIs(r)
  PROVE  AnnotationsOf(r) \in Seq(Annotation)
<1> DEFINE d == r.findings
           n == Len(d)
           level(i) == IF d[i].severity = "info" THEN "notice" ELSE d[i].severity
           x(i) == [level |-> level(i), rule |-> d[i].rule, path |-> r.path, line |-> d[i].line]
<1>1. d \in Seq(Diagnostics) /\ r.path \in Nat
  BY DEF ResultIs
<1>2. n \in Nat /\ DOMAIN d = 1..n /\ \A i \in 1..n : d[i] \in Diagnostics
  BY <1>1, LenProperties, ElementOfSeq
<1>3. CASE r.status = "error"
  <2>1. AnnotationsOf(r) = <<[level |-> "error", rule |-> 0, path |-> r.path, line |-> 0]>>
    BY <1>3 DEF AnnotationsOf
  <2>2. [level |-> "error", rule |-> 0, path |-> r.path, line |-> 0] \in Annotation
    BY <1>1 DEF Annotation
  <2> QED BY <2>1, <2>2
<1>4. CASE r.status # "error"
  <2>1. AnnotationsOf(r) = [i \in 1..n |-> x(i)]
    BY <1>2, <1>4 DEF AnnotationsOf
  <2>2. \A i \in 1..n : x(i) \in Annotation
    <3> SUFFICES ASSUME NEW i \in 1..n PROVE x(i) \in Annotation
      OBVIOUS
    <3>1. d[i] \in Diagnostics /\ RuleNames \subseteq Nat
      BY <1>2, ReportsAssumption
    <3>2. d[i].rule \in Nat /\ d[i].line \in Nat /\ level(i) \in {"error", "warning", "notice"}
      <4> HIDE DEF d
      <4> QED BY <3>1 DEF Diagnostics
    <3> HIDE DEF d, level
    <3> QED BY <1>1, <3>2 DEF Annotation
  <2> HIDE DEF x, n
  <2>3. AnnotationsOf(r) \in [1..n -> Annotation]
    BY <2>1, <2>2
  <2> QED BY <1>2, <2>3, SeqDef
<1> QED BY <1>3, <1>4

\* It does of every result.
LEMMA AnnotationsInTurn ==
  ASSUME NEW results, GoodResults(results)
  PROVE  LET p == AnnotationsIn(results)
         IN  /\ p \in Seq(Seq(Annotation)) /\ Len(p) = Len(results)
             /\ \A i \in 1..Len(results) : p[i] = AnnotationsOf(results[i])
<1> DEFINE n == Len(results)
           W == Seq(Annotation)
           p == AnnotationsIn(results)
<1>1. n \in Nat /\ DOMAIN results = 1..n /\ \A i \in 1..n : ResultIs(results[i])
  BY DEF GoodResults
<1>2. p = [i \in 1..n |-> AnnotationsOf(results[i])]
  BY <1>1 DEF AnnotationsIn
<1>3. \A i \in 1..n : AnnotationsOf(results[i]) \in W
  BY <1>1, AnnotationsAre
<1> HIDE DEF n, W, p
<1>4. p \in [1..n -> W] /\ \A i \in 1..n : p[i] = AnnotationsOf(results[i])
  BY <1>2, <1>3
<1>5. p \in Seq(W) /\ Len(p) = n
  BY <1>1, <1>4, SeqDef, LenProperties
<1> QED BY <1>4, <1>5 DEF n, W, p

\* What the formatters hold after the first k results.
Tells(opts, results, k, f) ==
  /\ TallyTells(results, k, f.tally) /\ TextTells(opts, results, k, f.text) /\ JsonTells(results, k, f.files)
  /\ JunitTells(results, k, f.cases) /\ TapTells(results, k, f.tap)
  /\ f.annotations = Joined(AnnotationsIn(results), k)

\* So they begin.
LEMMA NothingTells ==
  ASSUME NEW opts, NEW results, GoodResults(results)
  PROVE  Tells(opts, results, 0, NothingReported)
<1> DEFINE f == NothingReported
<1>1. Shown(results, 0) = <<>>
  BY FoundInTurn
<1>2. \A what : LinesOf(<<>>, what) = <<>>
  <2> SUFFICES ASSUME NEW what PROVE LinesOf(<<>>, what) = <<>>
    OBVIOUS
  <2>1. PartsOf(<<>>, what) = <<>>
    BY DEF PartsOf
  <2>2. LinesOf(<<>>, what) = FlattenSeq(PartsOf(<<>>, what))
    BY DEF LinesOf, PartsOf
  <2> QED BY <2>1, <2>2, JoinNothing
<1>3. <<>> \in Seq(Line) /\ <<>> \in Seq(ToSet(results))
  BY EmptySeq
<1>4. \A kind : PlacesIn(<<>>, kind) = {} /\ Cardinality({}) = 0
  BY FS_EmptySet DEF PlacesIn
<1>5. \A T : Cardinality((1..0) \cap T) = 0
  <2> SUFFICES ASSUME NEW T PROVE Cardinality((1..0) \cap T) = 0
    OBVIOUS
  <2>1. (1..0) \cap T = {}
    OBVIOUS
  <2> QED BY <2>1, FS_EmptySet
<1>6. TallyTells(results, 0, f.tally)
  BY <1>1, <1>4, <1>5 DEF TallyTells, NothingReported, NoTally
<1>7. TextTells(opts, results, 0, f.text)
  <2>1. f.text = [lines |-> <<>>, counts |-> [rule \in RuleNames |-> 0]]
    BY DEF NothingReported, NoText
  <2>2. f.text.lines = <<>> /\ \A rule \in RuleNames : f.text.counts[rule] = 0
    BY <2>1
  <2>3. \A i \in 1..0 : FALSE
    OBVIOUS
  <2> HIDE DEF f
  <2> QED BY <1>1, <1>2, <1>3, <1>4, <2>2, <2>3 DEF TextTells
<1>8. JsonTells(results, 0, f.files)
  <2>1. f.files = <<>>
    BY DEF NothingReported
  <2>2. FindingLinesOf(<<>>) = <<>>
    <3>1. [i \in DOMAIN <<>> |-> FindingLines(<<>>[i])] = <<>>
      OBVIOUS
    <3> QED BY <3>1, JoinNothing DEF FindingLinesOf
  <2>3. \A i \in 1..0 : FALSE
    OBVIOUS
  <2> HIDE DEF f
  <2> QED BY <1>1, <1>3, <2>1, <2>2, <2>3 DEF JsonTells
<1>9. JunitTells(results, 0, f.cases)
  BY DEF JunitTells, NothingReported
<1>10. TapTells(results, 0, f.tap)
  <2>1. f.tap.n = 0 /\ f.tap.lines = <<>>
    BY DEF NothingReported, NoTap
  <2>2. [i \in 1..0 |-> TestLine(i, results[i])] = <<>>
    OBVIOUS
  <2> HIDE DEF f
  <2> QED BY <1>1, <1>2, <1>3, <2>1, <2>2 DEF TapTells
<1>11. f.annotations = Joined(AnnotationsIn(results), 0)
  <2>1. f.annotations = <<>>
    BY DEF NothingReported
  <2>2. Joined(AnnotationsIn(results), 0) = <<>>
    <3>1. AnnotationsIn(results) \in Seq(Seq(Annotation))
      BY AnnotationsInTurn
    <3> QED BY <3>1, JoinInTurn, Zenon
  <2> QED BY <2>1, <2>2
<1> QED BY <1>6, <1>7, <1>8, <1>9, <1>10, <1>11 DEF Tells

\* So a result leaves them.
LEMMA ResultTells ==
  ASSUME NEW opts, NEW results, GoodResults(results), NEW k \in 0..(Len(results) - 1),
         NEW f, Tells(opts, results, k, f)
  PROVE  Tells(opts, results, k + 1, ReportResult(opts, f, results[k + 1]))
<1> DEFINE r == results[k + 1]
           new == ReportResult(opts, f, r)
<1>1. /\ new.tally = AddResult(f.tally, r) /\ new.text = TextResult(opts, f.text, r)
      /\ new.files = JsonResult(opts, f.files, r) /\ new.cases = Append(f.cases, JunitCase(r))
      /\ new.tap = TapResult(f.tap, r) /\ new.annotations = f.annotations \o AnnotationsOf(r)
  BY DEF ReportResult
<1>2. k \in Nat /\ k + 1 \in 1..Len(results)
  BY DEF GoodResults
<1>3. TallyTells(results, k + 1, AddResult(f.tally, r))
  BY TallyStep DEF Tells
<1>4. TextTells(opts, results, k + 1, TextResult(opts, f.text, r))
  BY TextStep DEF Tells
<1>5. JsonTells(results, k + 1, JsonResult(opts, f.files, r))
  BY JsonStep DEF Tells
<1>6. JunitTells(results, k + 1, Append(f.cases, JunitCase(r)))
  BY <1>2, JunitStep DEF Tells
<1>7. TapTells(results, k + 1, TapResult(f.tap, r))
  BY TapStep DEF Tells
<1>8. f.annotations \o AnnotationsOf(r) = Joined(AnnotationsIn(results), k + 1)
  <2> DEFINE p == AnnotationsIn(results)
  <2>1. p \in Seq(Seq(Annotation)) /\ Len(p) = Len(results) /\ p[k + 1] = AnnotationsOf(r)
    BY <1>2, AnnotationsInTurn
  <2> HIDE DEF p
  <2>2. \A i \in 0..(Len(p) - 1) : Joined(p, i + 1) = Joined(p, i) \o p[i + 1]
    BY <2>1, JoinInTurn, Zenon
  <2>3. Joined(p, k + 1) = Joined(p, k) \o p[k + 1]
    BY <2>1, <2>2
  <2>4. f.annotations = Joined(p, k)
    BY DEF Tells, p
  <2> QED BY <2>1, <2>3, <2>4 DEF p
<1> HIDE DEF new, r
<1> QED BY <1>1, <1>3, <1>4, <1>5, <1>6, <1>7, <1>8 DEF Tells, new, r

\* So all of the results do.
LEMMA ReportingTells ==
  ASSUME NEW opts, NEW results, GoodResults(results)
  PROVE  Tells(opts, results, Len(results), Reporting(opts, results))
<1> DEFINE n == Len(results)
<1>1. n \in Nat
  BY DEF GoodResults
<1>2. PICK f : /\ f[0] = NothingReported
               /\ \A k \in 1..n : f[k] = ReportResult(opts, f[k - 1], results[k])
               /\ Reporting(opts, results) = f[n]
  BY <1>1, ReportingIs
<1> DEFINE S == {k \in 0..n : Tells(opts, results, k, f[k])}
<1>3. 0 \in S
  BY <1>1, <1>2, NothingTells
<1>4. \A k \in 0..(n - 1) : k \in S => k + 1 \in S
  <2> SUFFICES ASSUME NEW k \in 0..(n - 1), k \in S PROVE k + 1 \in S
    OBVIOUS
  <2>1. k + 1 \in 1..n /\ k + 1 \in 0..n /\ (k + 1) - 1 = k
    BY <1>1
  <2>2. f[k + 1] = ReportResult(opts, f[k], results[k + 1])
    BY <1>2, <2>1
  <2>3. Tells(opts, results, k, f[k])
    OBVIOUS
  <2>4. Tells(opts, results, k + 1, ReportResult(opts, f[k], results[k + 1]))
    BY <2>3, ResultTells
  <2> QED BY <2>1, <2>2, <2>4
<1> HIDE DEF n
<1>5. 0..n \subseteq S
  <2> HIDE DEF S
  <2> QED BY <1>1, <1>3, <1>4, HoldsUpTo
<1>6. n \in 0..n
  BY <1>1
<1> QED BY <1>2, <1>5, <1>6 DEF n

-----------------------------------------------------------------------------
(* What the reports say once all results are in. *)

\* The rules are named from the commonest on, each that was found once.
LEMMA RuleSummaryIs ==
  ASSUME NEW counts, \A rule \in RuleNames : counts[rule] \in Nat
  PROVE  LET s == RuleSummary(counts)
         IN  /\ ToSet(s) = {rule \in RuleNames : counts[rule] > 0} /\ \A i \in DOMAIN s : s[i] \in RuleNames
             /\ \A i, j \in DOMAIN s : i < j => counts[s[i]] >= counts[s[j]]
<1> DEFINE seen == {rule \in RuleNames : counts[rule] > 0}
           Before(a, b) == counts[a] > counts[b] \/ (counts[a] = counts[b] /\ a < b)
           before == {p \in seen \X seen : Before(p[1], p[2])}
           s == RuleSummary(counts)
           n == Cardinality(seen)
<1>1. s = Sorted(seen, before)
  BY DEF RuleSummary
<1>2. IsFiniteSet(seen) /\ \A a \in seen : a \in Nat /\ counts[a] \in Nat /\ a \in RuleNames
  <2>1. seen \subseteq RuleNames
    OBVIOUS
  <2>2. IsFiniteSet(seen)
    <3> HIDE DEF seen
    <3> QED BY <2>1, FS_Subset, ReportsAssumption
  <2> QED BY <2>2, ReportsAssumption
<1> HIDE DEF seen, s
<1>3. \A a, b \in seen : <<a, b>> \in before <=> Before(a, b)
  OBVIOUS
<1> HIDE DEF before
<1>4. StrictOrder(seen, before)
  <2>1. \A x \in seen : <<x, x>> \notin before
    BY <1>2, <1>3
  <2>2. \A x, y \in seen : x # y => <<x, y>> \in before \/ <<y, x>> \in before
    BY <1>2, <1>3
  <2>3. \A x, y, z \in seen : <<x, y>> \in before /\ <<y, z>> \in before => <<x, z>> \in before
    <3> SUFFICES ASSUME NEW x \in seen, NEW y \in seen, NEW z \in seen, <<x, y>> \in before, <<y, z>> \in before
                 PROVE  <<x, z>> \in before
      OBVIOUS
    <3>1. Before(x, y) /\ Before(y, z)
      BY <1>3
    <3>2. Before(x, z)
      BY <1>2, <3>1
    <3> QED BY <1>3, <3>2
  <2> QED BY <2>1, <2>2, <2>3 DEF StrictOrder
<1>5. /\ DOMAIN s = 1..n /\ \A i \in 1..n : s[i] \in seen
      /\ \A x \in seen : \E i \in 1..n : s[i] = x
      /\ \A i, j \in 1..n : i < j => <<s[i], s[j]>> \in before
  BY <1>1, <1>2, <1>4, SortedIs
<1>6. ToSet(s) = seen
  BY <1>5 DEF ToSet
<1>7. ASSUME NEW i \in DOMAIN s, NEW j \in DOMAIN s, i < j PROVE counts[s[i]] >= counts[s[j]]
  <2>1. s[i] \in seen /\ s[j] \in seen /\ <<s[i], s[j]>> \in before
    BY <1>5, <1>7
  <2>2. Before(s[i], s[j])
    BY <1>3, <2>1
  <2> QED BY <1>2, <2>1, <2>2
<1>8. \A i \in DOMAIN s : s[i] \in RuleNames
  BY <1>2, <1>5
<1> QED BY <1>6, <1>7, <1>8 DEF seen, s

\* What is asked of the reports, and what they answer.
ReportIInv ==
  IsReport(task) /\ (Reported => answer = Finish(task.opts, Reporting(task.opts, task.results)))

\* The answer is what the formatters make of the results.
LEMMA ReportInvariant == ReportSpec => []ReportIInv
<1>1. ReportInit => ReportIInv
  BY DEF ReportInit, ReportIInv, Reported, Answered
<1>2. ReportIInv /\ [ReportStep]_asking => ReportIInv'
  <2> SUFFICES ASSUME ReportIInv, [ReportStep]_asking PROVE ReportIInv'
    OBVIOUS
  <2>1. CASE ReportStep
    <3>1. task' = task /\ answer' = Finish(task.opts, Reporting(task.opts, task.results))
      BY <2>1 DEF ReportStep, Report
    <3>2. IsReport(task)'
      BY <3>1 DEF ReportIInv
    <3> QED BY <3>1, <3>2 DEF ReportIInv
  <2>2. CASE UNCHANGED asking
    <3>1. task' = task /\ answer' = answer
      BY <2>2 DEF asking
    <3>2. IsReport(task)' /\ (Reported' <=> Reported)
      BY <3>1 DEF ReportIInv, Reported, Answered
    <3> QED BY <3>1, <3>2 DEF ReportIInv
  <2> QED BY <2>1, <2>2
<1> QED BY <1>1, <1>2, PTL DEF ReportSpec

\* So the reports are those of all results.
LEMMA ReportedTells ==
  ASSUME ReportIInv, Reported
  PROVE  LET f == Reporting(task.opts, task.results)
         IN  /\ GoodResults(task.results) /\ Tells(task.opts, task.results, Len(task.results), f)
             /\ answer.tally = f.tally /\ answer.text = TextReport(task.opts, f.text, f.tally)
             /\ answer.json.files = f.files /\ answer.junit = JunitReport(f.cases, f.tally)
             /\ answer.tap = f.tap /\ answer.github = GithubReport(task.opts, f.annotations, f.tally)
<1> DEFINE f == Reporting(task.opts, task.results)
<1>1. GoodResults(task.results)
  BY ResultsAre DEF GoodResults, ReportIInv
<1>2. Tells(task.opts, task.results, Len(task.results), f)
  BY <1>1, ReportingTells
<1>3. answer = Finish(task.opts, f)
  BY DEF ReportIInv
<1> HIDE DEF f
<1>4. /\ answer.tally = f.tally /\ answer.text = TextReport(task.opts, f.text, f.tally)
      /\ answer.json = JsonReport(f.files, f.tally) /\ answer.junit = JunitReport(f.cases, f.tally)
      /\ answer.tap = f.tap /\ answer.github = GithubReport(task.opts, f.annotations, f.tally)
  BY <1>3 DEF Finish
<1>5. answer.json.files = f.files
  BY <1>4 DEF JsonReport
<1> QED BY <1>1, <1>2, <1>4, <1>5 DEF f

\* Every report that shows findings shows them all, and counts what it shows.
LEMMA FindingsHold ==
  ASSUME ReportIInv
  PROVE  FindingsAreShown
<1> SUFFICES ASSUME Reported PROVE FindingsAreShown
  BY DEF FindingsAreShown
<1> DEFINE results == task.results
           opts == task.opts
           f == Reporting(opts, results)
           n == Len(results)
           found == FindingLinesOf(results)
           text == LinesOf(answer.text.lines, "finding")
           OfRule(rule) == Cardinality({i \in DOMAIN text : text[i].finding.rule = rule})
<1>1. /\ GoodResults(results) /\ Tells(opts, results, n, f)
      /\ answer.tally = f.tally /\ answer.text = TextReport(opts, f.text, f.tally)
      /\ answer.json.files = f.files /\ answer.tap = f.tap
  BY ReportedTells
<1>2. n \in Nat /\ n \in 0..n
  BY <1>1 DEF GoodResults
<1>3. Shown(results, n) = found /\ found \in Seq(FindingLine)
  BY <1>1, <1>2, FoundInTurn
<1> HIDE DEF f, n, found
<1>4. answer.text.lines = f.text.lines /\ answer.text.counts = f.text.counts
      /\ (opts.summary => answer.text.rules = RuleSummary(f.text.counts))
  BY <1>1 DEF TextReport
<1>5. text = found
  BY <1>1, <1>3, <1>4 DEF Tells, TextTells
<1>6. LinesOf(answer.tap.lines, "finding") = found /\ FindingLinesOf(answer.json.files) = found
  BY <1>1, <1>3 DEF Tells, TapTells, JsonTells
<1>7. DOMAIN found = 1..Len(found) /\ Len(found) \in Nat /\ \A i \in 1..Len(found) : found[i] \in FindingLine
  BY <1>3, LenProperties, ElementOfSeq
<1> HIDE DEF text, results, opts
<1>8. \A rule : {i \in DOMAIN text : text[i].finding.rule = rule} = PlacesIn(found, OfRuleName(rule))
  BY <1>5, <1>7 DEF PlacesIn, OfRuleName
<1>9. {i \in DOMAIN text : text[i].finding.severity = "warning"} = PlacesIn(found, OfSeverity("warning"))
  BY <1>5, <1>7 DEF PlacesIn, OfSeverity
<1>10. ASSUME opts.summary
       PROVE  /\ \A rule \in RuleNames : answer.text.counts[rule] = OfRule(rule)
              /\ ToSet(answer.text.rules) = {rule \in RuleNames : OfRule(rule) > 0}
              /\ \A i, j \in DOMAIN answer.text.rules :
                   i < j => OfRule(answer.text.rules[i]) >= OfRule(answer.text.rules[j])
              /\ answer.tally.warnings = Cardinality({i \in DOMAIN text : text[i].finding.severity = "warning"})
  <2>1. \A rule \in RuleNames : answer.text.counts[rule] = OfRule(rule)
    BY <1>1, <1>3, <1>4, <1>8, <1>10 DEF Tells, TextTells
  <2>2. \A rule : Cardinality(PlacesIn(found, OfRuleName(rule))) \in Nat
    BY <1>3, CountConcat
  <2>3. \A rule \in RuleNames : f.text.counts[rule] \in Nat /\ f.text.counts[rule] = OfRule(rule)
    <3> SUFFICES ASSUME NEW rule \in RuleNames
                 PROVE  f.text.counts[rule] \in Nat /\ f.text.counts[rule] = OfRule(rule)
      OBVIOUS
    <3>1. OfRule(rule) = Cardinality(PlacesIn(found, OfRuleName(rule)))
      BY <1>8
    <3>2. f.text.counts[rule] = OfRule(rule)
      BY <1>4, <2>1
    <3> HIDE DEF OfRule
    <3> QED BY <2>2, <3>1, <3>2
  <2> DEFINE counts == f.text.counts
             s == answer.text.rules
  <2>4. s = RuleSummary(counts)
    BY <1>4, <1>10
  <2> HIDE DEF counts, OfRule
  <2>5. /\ ToSet(s) = {rule \in RuleNames : counts[rule] > 0} /\ \A i \in DOMAIN s : s[i] \in RuleNames
        /\ \A i, j \in DOMAIN s : i < j => counts[s[i]] >= counts[s[j]]
    BY <2>3, <2>4, RuleSummaryIs DEF counts
  <2> HIDE DEF s
  <2>6. \A rule \in RuleNames : counts[rule] = OfRule(rule)
    BY <2>3 DEF counts
  <2>7. ToSet(s) = {rule \in RuleNames : OfRule(rule) > 0}
    BY <2>5, <2>6
  <2>8. \A i, j \in DOMAIN s : i < j => OfRule(s[i]) >= OfRule(s[j])
    BY <2>5, <2>6
  <2>9. answer.tally.warnings = Cardinality(PlacesIn(found, OfSeverity("warning")))
    BY <1>1, <1>3 DEF Tells, TallyTells
  <2> QED BY <1>9, <2>1, <2>7, <2>8, <2>9 DEF s
<1> QED BY <1>5, <1>6, <1>10 DEF FindingsAreShown, text, results, opts, found

\* Every failing file fails in every report with a place for it.
LEMMA FailuresHold ==
  ASSUME ReportIInv
  PROVE  FailuresAreTold
<1> SUFFICES ASSUME Reported PROVE FailuresAreTold
  BY DEF FailuresAreTold
<1> DEFINE results == task.results
           opts == task.opts
           f == Reporting(opts, results)
           n == Len(results)
           junit == answer.junit
           cases == junit.cases
           tests == LinesOf(answer.tap.lines, "test")
           CaseFails(c) == c.failures # <<>>
           Errored(c) == c.error
<1>1. /\ GoodResults(results) /\ Tells(opts, results, n, f)
      /\ answer.text = TextReport(opts, f.text, f.tally) /\ answer.junit = JunitReport(f.cases, f.tally)
      /\ answer.json.files = f.files /\ answer.tap = f.tap
  BY ReportedTells
<1>2. n \in Nat /\ DOMAIN results = 1..n /\ \A i \in 1..n : ResultIs(results[i])
  BY <1>1 DEF GoodResults
<1> HIDE DEF f
<1>3. junit.failures = f.tally.invalid /\ junit.errors = f.tally.errors /\ cases = f.cases
  BY <1>1 DEF JunitReport
<1>4. cases = [i \in 1..n |-> JunitCase(results[i])]
  BY <1>1, <1>3 DEF Tells, JunitTells
<1>5. \A i \in 1..n : (CaseFails(cases[i]) <=> results[i].status = "invalid")
                      /\ (Errored(cases[i]) <=> results[i].status = "error")
                      /\ Errored(cases[i]) \in BOOLEAN
  <2> SUFFICES ASSUME NEW i \in 1..n
               PROVE  (CaseFails(cases[i]) <=> results[i].status = "invalid")
                      /\ (Errored(cases[i]) <=> results[i].status = "error")
                      /\ Errored(cases[i]) \in BOOLEAN
    OBVIOUS
  <2> DEFINE r == results[i]
             d == r.findings
             c == JunitCase(r)
  <2>1. c.error = (r.status = "error") /\ c.failures =
          IF r.status # "invalid" THEN <<>>
          ELSE IF d = <<>> THEN <<Threshold>>
          ELSE [j \in DOMAIN d |-> d[j].rule]
    BY DEF JunitCase
  <2>2. d \in Seq(Diagnostics) /\ cases[i] = c
    BY <1>2, <1>4 DEF ResultIs
  <2>3. d # <<>> => [j \in DOMAIN d |-> d[j].rule] # <<>>
    <3> HIDE DEF d
    <3>1. DOMAIN d = 1..Len(d) /\ Len(d) \in Nat /\ (Len(d) = 0 => d = <<>>)
      BY <2>2, LenProperties, EmptySeq
    <3>2. d # <<>> => 1 \in DOMAIN d
      BY <3>1
    <3>3. DOMAIN [j \in DOMAIN d |-> d[j].rule] = DOMAIN d /\ DOMAIN <<>> = {}
      OBVIOUS
    <3> QED BY <3>2, <3>3
  <2>4. <<Threshold>> # <<>>
    OBVIOUS
  <2> HIDE DEF d, c
  <2>5. r.status # "invalid" => c.failures = <<>>
    BY <2>1
  <2>6. r.status = "invalid" /\ d = <<>> => c.failures = <<Threshold>>
    BY <2>1
  <2>7. r.status = "invalid" /\ d # <<>> => c.failures = [j \in DOMAIN d |-> d[j].rule]
    BY <2>1
  <2>8. c.failures # <<>> <=> r.status = "invalid"
    BY <2>3, <2>4, <2>5, <2>6, <2>7
  <2> QED BY <2>1, <2>2, <2>8
<1>6. DOMAIN cases = 1..n
  BY <1>4
<1> HIDE DEF cases, n, results, opts
<1>7. Among(cases, CaseFails) = (1..n) \cap OfStatus(results, "invalid")
  BY <1>2, <1>5, <1>6 DEF Among, OfStatus
<1>8. Among(cases, Errored) = (1..n) \cap OfStatus(results, "error")
  BY <1>2, <1>5, <1>6 DEF Among, OfStatus
<1>9. junit.failures = Cardinality(Among(cases, CaseFails)) /\ junit.errors = Cardinality(Among(cases, Errored))
  BY <1>1, <1>3, <1>7, <1>8 DEF Tells, TallyTells
<1>10. answer.tap.n = n /\ tests = [i \in 1..n |-> TestLine(i, results[i])] /\ answer.tap.lines \in Seq(Line)
  BY <1>1 DEF Tells, TapTells
<1>11. Len(tests) = n
  <2>1. tests \in Seq(Line)
    BY <1>10, PartsAre
  <2>2. DOMAIN tests = 1..n
    BY <1>10
  <2> HIDE DEF tests
  <2> QED BY <1>2, <2>1, <2>2, LenProperties
<1> HIDE DEF tests
<1>12. \A i \in 1..n : tests[i].n = i /\ tests[i].path = results[i].path /\ tests[i].ok = ~Fails(results[i])
  <2> SUFFICES ASSUME NEW i \in 1..n
               PROVE  tests[i].n = i /\ tests[i].path = results[i].path /\ tests[i].ok = ~Fails(results[i])
    OBVIOUS
  <2>1. tests[i] = TestLine(i, results[i])
    BY <1>10
  <2> QED BY <2>1 DEF TestLine, Fails
<1>13. \A i \in 1..n : (CaseFails(cases[i]) \/ Errored(cases[i])) = Fails(results[i])
  BY <1>5 DEF Fails
<1>14. \A i \in 1..n : Fails(results[i]) => \E k \in DOMAIN answer.json.files : answer.json.files[k] = results[i]
  <2> DEFINE files == answer.json.files
  <2>1. files \in Seq(ToSet(results)) /\ \A i \in 1..n : Fails(results[i]) => \E j \in 1..Len(files) : files[j] = results[i]
    BY <1>1 DEF Tells, JsonTells
  <2>2. DOMAIN files = 1..Len(files)
    BY <2>1, LenProperties
  <2> QED BY <2>1, <2>2
<1>15. \A i \in 1..n : ToShow(results[i]) =>
         \E k \in DOMAIN answer.text.lines :
           answer.text.lines[k].path = results[i].path /\ answer.text.lines[k].what \in {"error", "finding"}
  <2> DEFINE lines == answer.text.lines
  <2>1. lines = f.text.lines
    BY <1>1 DEF TextReport
  <2> HIDE DEF lines
  <2>2. lines \in Seq(Line) /\ \A i \in 1..n : ToShow(results[i]) => SaidOf(lines, results[i])
    BY <1>1, <2>1 DEF Tells, TextTells
  <2>3. DOMAIN lines = 1..Len(lines)
    BY <2>2, LenProperties
  <2> QED BY <2>2, <2>3 DEF SaidOf, lines
<1>16. \A i \in DOMAIN results :
         /\ (CaseFails(cases[i]) \/ Errored(cases[i])) = Fails(results[i])
         /\ tests[i].n = i /\ tests[i].path = results[i].path /\ tests[i].ok = ~Fails(results[i])
         /\ Fails(results[i]) => \E k \in DOMAIN answer.json.files : answer.json.files[k] = results[i]
         /\ Fails(results[i]) /\ (results[i].status = "error" \/ results[i].findings # <<>>) =>
              \E k \in DOMAIN answer.text.lines :
                answer.text.lines[k].path = results[i].path /\ answer.text.lines[k].what \in {"error", "finding"}
  BY <1>2, <1>12, <1>13, <1>14, <1>15 DEF ToShow
<1>17. answer.tap.n = Len(tests) /\ Len(tests) = Len(task.results)
  BY <1>10, <1>11 DEF n, results
<1> QED BY <1>9, <1>16, <1>17 DEF FailuresAreTold, cases, tests, results

\* The annotations are spread, in every level.
LEMMA AnnotationsHold ==
  ASSUME ReportIInv
  PROVE  AnnotationsAreSpread
<1> SUFFICES ASSUME Reported PROVE AnnotationsAreSpread
  BY DEF AnnotationsAreSpread
<1> DEFINE results == task.results
           opts == task.opts
           f == Reporting(opts, results)
           p == AnnotationsIn(results)
           found == FlattenSeq([i \in DOMAIN results |-> AnnotationsOf(results[i])])
<1>1. /\ GoodResults(results) /\ Tells(opts, results, Len(results), f)
      /\ answer.github = GithubReport(opts, f.annotations, f.tally)
  BY ReportedTells
<1>2. p \in Seq(Seq(Annotation)) /\ Len(p) = Len(results)
  BY <1>1, AnnotationsInTurn
<1>3. found = FlattenSeq(p)
  BY DEF AnnotationsIn
<1> HIDE DEF f, found, p
<1>4. f.annotations = Joined(p, Len(p))
  BY <1>1, <1>2 DEF Tells, p
<1>5. Len(p) \in Nat /\ Joined(p, Len(p)) = FlattenSeq(p) /\ \A k \in 0..Len(p) : Joined(p, k) \in Seq(Annotation)
  BY <1>1, <1>2, JoinInTurn, Zenon DEF GoodResults
<1>6. f.annotations = found /\ found \in Seq(Annotation)
  <2>1. Len(p) \in 0..Len(p)
    BY <1>5
  <2> QED BY <1>3, <1>4, <1>5, <2>1
<1>7. answer.github.levels = [i \in DOMAIN Levels |-> WriteAnnotations(found, Levels[i])]
  BY <1>1, <1>6 DEF GithubReport
<1>8. \A i \in DOMAIN Levels : Spread(answer.github.levels[i], found, Levels[i])
  BY <1>6, <1>7, LevelIsSpread
<1> QED BY <1>8, Zenon DEF AnnotationsAreSpread, Spread, found, results

\* Whatever was found and however much of it, every report says which files
\* failed, shows every finding it has a place for, and spreads GitHub's few
\* annotations over the files and the rules.
THEOREM ReportsAreWhole == ReportSpec => []ReportsSayWhatWasFound
<1>1. ReportIInv => ReportsSayWhatWasFound
  BY FailuresHold, FindingsHold, AnnotationsHold DEF ReportsSayWhatWasFound
<1> QED BY <1>1, ReportInvariant, PTL

-----------------------------------------------------------------------------
(* Sequences and sets. *)

\* What is put in some order is there, and nothing else.
LEMMA SomeOrder ==
  ASSUME NEW S, IsFiniteSet(S)
  PROVE  /\ SetToSeq(S) \in Seq(S) /\ DOMAIN SetToSeq(S) = 1..Cardinality(S)
         /\ ToSet(SetToSeq(S)) = S
<1> DEFINE n == Cardinality(S)
           f == SetToSeq(S)
<1>1. n \in Nat /\ \E g : g \in [1..n -> S] /\ IsInjective(g)
  BY FS_CardinalityType DEF ExistsBijection, Bijection, Injection
<1>2. f \in [1..n -> S] /\ IsInjective(f)
  BY <1>1 DEF SetToSeq
<1> HIDE DEF f
<1>3. S \subseteq ToSet(f)
  <2> SUFFICES ASSUME NEW x \in S, x \notin ToSet(f) PROVE FALSE
    OBVIOUS
  <2>1. f \in [1..n -> S \ {x}]
    BY <1>2 DEF ToSet
  <2>2. f \in Injection(1..n, S \ {x})
    BY <1>2, <2>1 DEF Injection
  <2>3. IsFiniteSet(S \ {x}) /\ Cardinality(S \ {x}) = n - 1
    BY FS_RemoveElement
  <2>4. Cardinality(1..n) <= n - 1
    BY <2>2, <2>3, FS_Injection
  <2>5. Cardinality(1..n) = n
    BY <1>1, FS_Interval
  <2> QED BY <1>1, <2>4, <2>5
<1>4. ToSet(f) \subseteq S
  BY <1>2 DEF ToSet
<1>5. f \in Seq(S)
  BY <1>1, <1>2
<1> QED BY <1>2, <1>3, <1>4, <1>5 DEF f

\* Of sequences joined the members are those of the parts.
LEMMA JoinedMembers ==
  ASSUME NEW V, NEW parts \in Seq(Seq(V))
  PROVE  /\ FlattenSeq(parts) \in Seq(V)
         /\ ToSet(FlattenSeq(parts)) = UNION {ToSet(parts[i]) : i \in 1..Len(parts)}
<1>1. PICK g : /\ g[0] = <<>>
               /\ \A k \in 1..Len(parts) : g[k] = g[k - 1] \o parts[k]
               /\ \A k \in 0..Len(parts) : g[k] \in Seq(V)
               /\ FlattenSeq(parts) = g[Len(parts)]
  BY JoinSteps
<1> DEFINE n == Len(parts)
           S == {k \in 0..n : ToSet(g[k]) = UNION {ToSet(parts[i]) : i \in 1..k}}
<1>2. n \in Nat /\ \A k \in 1..n : parts[k] \in Seq(V)
  BY ElementOfSeq, LenProperties
<1>3. 0 \in S
  <2>1. ToSet(g[0]) = {}
    BY <1>1 DEF ToSet
  <2>2. {ToSet(parts[i]) : i \in 1..0} = {}
    OBVIOUS
  <2> QED BY <1>2, <2>1, <2>2
<1>4. \A k \in 0..(n - 1) : k \in S => k + 1 \in S
  <2> TAKE k \in 0..(n - 1)
  <2> HAVE k \in S
  <2>1. k \in 0..n /\ k + 1 \in 1..n /\ k + 1 \in 0..n /\ (k + 1) - 1 = k
    BY <1>2
  <2>2. g[k + 1] = g[k] \o parts[k + 1] /\ g[k] \in Seq(V) /\ parts[k + 1] \in Seq(V)
    BY <1>1, <1>2, <2>1
  <2>3. ToSet(g[k + 1]) = ToSet(g[k]) \cup ToSet(parts[k + 1])
    <3>1. \A s : ToSet(s) = Range(s)
      BY DEF ToSet, Range
    <3>2. Range(g[k + 1]) = Range(g[k]) \cup Range(parts[k + 1])
      BY <2>2, RangeConcatenation
    <3> QED BY <3>1, <3>2
  <2>4. UNION {ToSet(parts[i]) : i \in 1..(k + 1)} = (UNION {ToSet(parts[i]) : i \in 1..k}) \cup ToSet(parts[k + 1])
    <3>1. 1..(k + 1) = 1..k \cup {k + 1}
      BY <2>1
    <3> QED BY <3>1
  <2> QED BY <2>1, <2>3, <2>4
<1> HIDE DEF S
<1>5. 0..n \subseteq S
  BY <1>2, <1>3, <1>4, HoldsUpTo
<1>6. n \in 0..n
  BY <1>2
<1> QED BY <1>1, <1>2, <1>5, <1>6 DEF S

-----------------------------------------------------------------------------
(* What is reached. *)

\* AllFrom is the least set with the members of S that next does not leave.
LEMMA AllFromIs ==
  ASSUME NEW K, IsFiniteSet(K), NEW next \in [K -> SUBSET K], NEW S \in SUBSET K
  PROVE  /\ S \subseteq AllFrom(next, S) /\ AllFrom(next, S) \subseteq K
         /\ \A s \in AllFrom(next, S) : next[s] \subseteq AllFrom(next, S)
         /\ \A T : S \subseteq T /\ (\A s \in T \cap K : next[s] \subseteq T) => AllFrom(next, S) \subseteq T
<1> DEFINE N == Cardinality(K)
           More(X) == X \cup UNION {next[s] : s \in X}
           Op == [p \in (1..N) \X (SUBSET K) |-> More(p[2])]
<1>1. N \in Nat /\ DOMAIN next = K
  BY FS_CardinalityType
<1>2. \A X \in SUBSET K : More(X) \in SUBSET K
  OBVIOUS
<1>3. Op \in [(1..N) \X (SUBSET K) -> SUBSET K]
  <2> HIDE DEF More
  <2> QED BY <1>2
<1> HIDE DEF N
<1>4. PICK f \in [0..N -> SUBSET K] : Recurs(f, N, S, Op)
  BY <1>1, <1>3, RecursionExists
<1>5. f[0] = S /\ \A k \in 1..N : f[k] = More(f[k - 1])
  <2> HIDE DEF More
  <2>1. \A k \in 1..N : k - 1 \in 0..N /\ f[k - 1] \in SUBSET K
    BY <1>1, <1>4
  <2> QED BY <1>4, <2>1 DEF Recurs
<1> HIDE DEF Op
<1>6. \E g : /\ g = [n \in 0..N |-> IF n = 0 THEN S ELSE g[n - 1] \cup UNION {next[s] : s \in g[n - 1]}]
             /\ AllFrom(next, S) = g[N]
  <2>1. f = [n \in 0..N |-> IF n = 0 THEN S ELSE f[n - 1] \cup UNION {next[s] : s \in f[n - 1]}]
    <3> DEFINE g == [n \in 0..N |-> IF n = 0 THEN S ELSE f[n - 1] \cup UNION {next[s] : s \in f[n - 1]}]
    <3>1. \A n \in 0..N : g[n] = f[n]
      <4> TAKE n \in 0..N
      <4>1. CASE n = 0
        BY <1>5, <4>1
      <4>2. CASE n # 0
        <5>1. n \in 1..N
          BY <1>1, <4>2
        <5> QED BY <1>5, <4>2, <5>1
      <4> QED BY <4>1, <4>2
    <3> QED BY <1>4, <3>1
  <2> QED BY <1>1, <2>1 DEF AllFrom, N
<1>7. PICK g : /\ g = [n \in 0..N |-> IF n = 0 THEN S ELSE g[n - 1] \cup UNION {next[s] : s \in g[n - 1]}]
               /\ AllFrom(next, S) = g[N]
  BY <1>6
<1>8. 0 \in 0..N /\ N \in 0..N /\ \A k \in 1..N : k \in 0..N /\ k # 0
  BY <1>1
<1>9. g[0] = S /\ \A k \in 1..N : g[k] = More(g[k - 1])
  BY <1>7, <1>8
<1> DEFINE A == {k \in 0..N : /\ S \subseteq g[k] /\ g[k] \subseteq K
                              /\ \A T : S \subseteq T /\ (\A s \in T \cap K : next[s] \subseteq T) => g[k] \subseteq T
                              /\ (\A s \in g[k] : next[s] \subseteq g[k]) \/ Cardinality(g[k]) >= k}
<1>10. 0 \in A
  <2>1. IsFiniteSet(S) /\ Cardinality(S) \in Nat
    BY FS_Subset, FS_CardinalityType
  <2> QED BY <1>8, <1>9, <2>1
<1>11. \A k \in 0..(N - 1) : k \in A => k + 1 \in A
  <2> TAKE k \in 0..(N - 1)
  <2> HAVE k \in A
  <2>1. k \in 0..N /\ k + 1 \in 1..N /\ (k + 1) - 1 = k /\ k + 1 \in 0..N /\ k \in Nat
    BY <1>1
  <2> DEFINE X == g[k]
             Y == g[k + 1]
  <2>2. Y = More(X)
    BY <1>9, <2>1
  <2>3. X \subseteq K /\ S \subseteq X
    OBVIOUS
  <2> HIDE DEF X, Y
  <2>4. X \subseteq Y /\ Y \subseteq K /\ S \subseteq Y
    BY <2>2, <2>3
  <2>5. ASSUME NEW T, S \subseteq T, \A s \in T \cap K : next[s] \subseteq T
        PROVE  Y \subseteq T
    <3>1. X \subseteq T
      BY <2>5 DEF X
    <3> QED BY <2>2, <2>3, <2>5, <3>1
  <2>6. (\A s \in Y : next[s] \subseteq Y) \/ Cardinality(Y) >= k + 1
    <3>1. CASE \A s \in X : next[s] \subseteq X
      <4>1. Y = X
        BY <2>2, <3>1
      <4> QED BY <3>1, <4>1
    <3>2. CASE ~ \A s \in X : next[s] \subseteq X
      <4>1. PICK y \in Y : y \notin X
        BY <2>2, <3>2
      <4>2. IsFiniteSet(X) /\ IsFiniteSet(Y)
        BY <2>3, <2>4, FS_Subset
      <4>3. Cardinality(X \cup {y}) = Cardinality(X) + 1 /\ IsFiniteSet(X \cup {y})
        BY <4>1, <4>2, FS_AddElement
      <4>4. Cardinality(X \cup {y}) <= Cardinality(Y)
        BY <2>4, <4>1, <4>2, FS_Subset
      <4>5. Cardinality(X) \in Nat /\ Cardinality(Y) \in Nat
        BY <4>2, FS_CardinalityType
      <4>6. Cardinality(X) >= k
        BY <3>2 DEF X
      <4> QED BY <2>1, <4>3, <4>4, <4>5, <4>6
    <3> QED BY <3>1, <3>2
  <2> QED BY <2>1, <2>4, <2>5, <2>6 DEF X, Y
<1> HIDE DEF A
<1>12. N \in A
  BY <1>1, <1>8, <1>10, <1>11, HoldsUpTo
<1>13. \A s \in g[N] : next[s] \subseteq g[N]
  <2>1. CASE Cardinality(g[N]) >= N
    <3>1. g[N] \subseteq K
      BY <1>12 DEF A
    <3>2. g[N] = K
      <4> SUFFICES ASSUME NEW x \in K, x \notin g[N] PROVE FALSE
        BY <3>1
      <4>1. IsFiniteSet(K \ {x}) /\ Cardinality(K \ {x}) = N - 1
        BY FS_RemoveElement DEF N
      <4>2. Cardinality(g[N]) <= Cardinality(K \ {x}) /\ IsFiniteSet(g[N])
        BY <3>1, <4>1, FS_Subset
      <4>3. Cardinality(g[N]) \in Nat
        BY <4>2, FS_CardinalityType
      <4> QED BY <1>1, <2>1, <4>1, <4>2, <4>3
    <3> QED BY <3>2
  <2> QED BY <1>12, <2>1 DEF A
<1>14. AllFrom(next, S) = g[N]
  BY <1>7
<1> QED BY <1>12, <1>13, <1>14 DEF A

CircleIn(next, W) == \E U \in SUBSET W : U # {} /\ \A t \in U : next[t] \cap U # {}
LeadsRound(next, W) == \E s \in W : s \in AllFrom(next, next[s])

\* Where something leads back to itself, and only there, there is a set that
\* is not left by everything in it.
LEMMA CirclesAre ==
  ASSUME NEW K, IsFiniteSet(K), NEW next \in [K -> SUBSET K], NEW W \in SUBSET K,
         \A s \in W : next[s] \subseteq W
  PROVE  LeadsRound(next, W) <=> CircleIn(next, W)
<1> DEFINE From(s) == AllFrom(next, next[s])
<1>1. ASSUME NEW s \in K
      PROVE  /\ next[s] \subseteq From(s) /\ From(s) \subseteq K
             /\ \A t \in From(s) : next[t] \subseteq From(s)
             /\ \A T : next[s] \subseteq T /\ (\A t \in T \cap K : next[t] \subseteq T) => From(s) \subseteq T
  <2>1. next[s] \in SUBSET K
    OBVIOUS
  <2> QED BY <2>1, AllFromIs
<1> HIDE DEF From
<1>2. ASSUME NEW s \in W, s \in From(s)
      PROVE  \E U \in SUBSET W : U # {} /\ \A t \in U : next[t] \cap U # {}
  <2> DEFINE U == {t \in W : s \in From(t)}
  <2>1. U \in SUBSET W /\ s \in U
    BY <1>2
  <2>2. ASSUME NEW t \in U
        PROVE  next[t] \cap U # {}
    <3> DEFINE T == next[t] \cup UNION {From(u) : u \in next[t]}
    <3>1. t \in K /\ t \in W /\ next[t] \subseteq K /\ next[t] \subseteq W
      OBVIOUS
    <3>2. \A u \in T \cap K : next[u] \subseteq T
      <4> TAKE u \in T \cap K
      <4>1. CASE u \in next[t]
        BY <1>1, <4>1
      <4>2. CASE u \notin next[t]
        <5>1. PICK v \in next[t] : u \in From(v)
          BY <4>2
        <5>2. next[u] \subseteq From(v)
          BY <1>1, <3>1, <5>1
        <5> QED BY <5>2
      <4> QED BY <4>1, <4>2
    <3>3. next[t] \subseteq T
      OBVIOUS
    <3> HIDE DEF T
    <3>4. From(t) \subseteq T
      BY <1>1, <3>1, <3>2, <3>3
    <3>5. s \in T
      BY <3>4
    <3>6. CASE s \in next[t]
      BY <2>1, <3>6
    <3>7. CASE s \notin next[t]
      <4>1. PICK u \in next[t] : s \in From(u)
        BY <3>5, <3>7 DEF T
      <4> QED BY <3>1, <4>1
    <3> QED BY <3>6, <3>7
  <2> QED BY <2>1, <2>2
<1>3. ASSUME NEW U \in SUBSET W, U # {}, \A t \in U : next[t] \cap U # {}
      PROVE  \E s \in W : s \in From(s)
  <2> DEFINE Sizes == {Cardinality(From(t)) : t \in U}
  <2>1. \A t \in U : t \in K /\ IsFiniteSet(From(t)) /\ Cardinality(From(t)) \in Nat
    BY <1>1, FS_Subset, FS_CardinalityType
  <2>2. Sizes \subseteq Nat /\ Sizes # {}
    BY <1>3, <2>1
  <2> HIDE DEF Sizes
  <2>3. PICK m \in Sizes : \A x \in Sizes : m <= x
    BY <2>2, LeastNatural
  <2>4. PICK t \in U : m = Cardinality(From(t))
    BY DEF Sizes
  <2>5. PICK u \in U : u \in next[t]
    BY <1>3
  <2>6. From(u) \subseteq From(t) /\ u \in From(t)
    <3>1. u \in From(t) /\ next[u] \subseteq From(t) /\ \A v \in From(t) : next[v] \subseteq From(t)
      BY <1>1, <2>1, <2>5
    <3> QED BY <1>1, <2>1, <3>1
  <2>7. m <= Cardinality(From(u))
    BY <2>3 DEF Sizes
  <2>8. From(u) = From(t)
    <3> SUFFICES ASSUME NEW x \in From(t), x \notin From(u) PROVE FALSE
      BY <2>6
    <3>1. IsFiniteSet(From(t) \ {x}) /\ Cardinality(From(t) \ {x}) = Cardinality(From(t)) - 1
      BY <2>1, FS_RemoveElement
    <3>2. Cardinality(From(u)) <= Cardinality(From(t) \ {x})
      BY <2>6, <3>1, FS_Subset
    <3> QED BY <2>1, <2>4, <2>7, <3>1, <3>2
  <2> QED BY <2>6, <2>8
<1> QED BY <1>2, <1>3 DEF From, LeadsRound, CircleIn

-----------------------------------------------------------------------------
(* The ways back. *)

\* For every pipeline the ways back are told.
IsGraph(c, asked) ==
  /\ IsFiniteSet(DOMAIN c.pipelines)
  /\ \A p \in DOMAIN c.pipelines, b \in BOOLEAN :
       WaysBack(c, asked, p, b) \in Seq({NoWay} \cup {<<q>> : q \in DOMAIN c.pipelines})

Here(c, asked, k) == k[2] \/ HasProcessor(c, k[1], asked.types)
Back(c, asked, k) == ToSet(WaysBack(c, asked, k[1], Here(c, asked, k)))

\* What the visit of k visits, and whether every way back is one.
Behind(c, asked, k) == {<<q, Here(c, asked, k)>> : q \in {r \in DOMAIN c.pipelines : <<r>> \in Back(c, asked, k)}}
Leads(c, asked, k)  == NoWay \notin Back(c, asked, k)

\* Visits that cover each other, and do not go round in a circle.
Circular(c, asked, C) == \E U \in SUBSET C : U # {} /\ \A k \in U : Behind(c, asked, k) \cap U # {}
Covering(c, asked, C) ==
  /\ C \subseteq VisitKeys(c)
  /\ \A k \in C : Leads(c, asked, k) /\ Behind(c, asked, k) \subseteq C
  /\ ~Circular(c, asked, C)

\* A visit all of whose own are in such a set may be added to it.
LEMMA CoveringGrows ==
  ASSUME NEW c, NEW asked, NEW C, Covering(c, asked, C), NEW k \in VisitKeys(c), k \notin C,
         Leads(c, asked, k), Behind(c, asked, k) \subseteq C
  PROVE  Covering(c, asked, C \cup {k})
<1>1. ~Circular(c, asked, C \cup {k})
  <2> SUFFICES ASSUME NEW U \in SUBSET (C \cup {k}), U # {}, \A j \in U : Behind(c, asked, j) \cap U # {}
               PROVE  FALSE
    BY DEF Circular
  <2>1. \A j \in U \cap C : Behind(c, asked, j) \cap (U \cap C) # {}
    BY DEF Covering
  <2>2. U \cap C # {}
    BY DEF Covering
  <2> QED BY <2>1, <2>2 DEF Covering, Circular
<1> QED BY <1>1 DEF Covering

\* Behind a visit in such a set there is one for what it visits that does not
\* hold the visit itself.
LEMMA CoveringBehind ==
  ASSUME NEW c, NEW asked, NEW C, Covering(c, asked, C), NEW k \in C, NEW j \in Behind(c, asked, k)
  PROVE  \E D \in SUBSET (C \ {k}) : j \in D /\ Covering(c, asked, D)
<1> DEFINE Closed(D) == \A i \in D : Behind(c, asked, i) \subseteq D
           D == UNION {E \in SUBSET (C \ {k}) : Closed(E)}
           U == C \ D
<1>1. D \in SUBSET (C \ {k}) /\ Closed(D)
  OBVIOUS
<1>2. \A i \in U : i # k => Behind(c, asked, i) \cap U # {}
  <2> SUFFICES ASSUME NEW i \in U, i # k, Behind(c, asked, i) \cap U = {} PROVE FALSE
    OBVIOUS
  <2>1. Behind(c, asked, i) \subseteq D
    BY DEF Covering
  <2>2. D \cup {i} \in SUBSET (C \ {k}) /\ Closed(D \cup {i})
    BY <1>1, <2>1
  <2> DEFINE more == D \cup {i}
  <2>3. more \in {E \in SUBSET (C \ {k}) : Closed(E)} /\ i \in more
    BY <2>2
  <2> HIDE DEF more, Closed
  <2>4. i \in D
    BY <2>3
  <2> QED BY <2>4
<1> HIDE DEF D
<1>3. j \in D
  <2> SUFFICES ASSUME j \notin D PROVE FALSE
    OBVIOUS
  <2>1. j \in U
    BY DEF Covering
  <2>2. \A i \in U : Behind(c, asked, i) \cap U # {}
    BY <1>2, <2>1
  <2> QED BY <2>1, <2>2 DEF Covering, Circular
<1>4. Covering(c, asked, D)
  BY <1>1 DEF Covering, Circular
<1> QED BY <1>1, <1>3, <1>4

-----------------------------------------------------------------------------
(* The walk. *)

Outcomes(c) == [memo : Memos(c), ok : BOOLEAN]

\* Followed takes the ways one by one.
FollowedOne(walk, way, covered, before) ==
  IF ~before.ok THEN before
  ELSE IF way = NoWay THEN [before EXCEPT !.ok = FALSE]
  ELSE walk[[memo |-> before.memo, pipe |-> way[1], covered |-> covered]]

\* Ways back are followed one after the other, each with the memory before it.
LEMMA FollowedIs ==
  ASSUME NEW c, NEW walk \in [Visits(c) -> Outcomes(c)],
         NEW ways \in Seq({NoWay} \cup {<<q>> : q \in DOMAIN c.pipelines}),
         NEW memo \in Memos(c), NEW covered \in BOOLEAN
  PROVE  \E a \in [0..Len(ways) -> Outcomes(c)] :
           /\ a[0] = [memo |-> memo, ok |-> TRUE]
           /\ \A i \in 1..Len(ways) : a[i] = FollowedOne(walk, ways[i], covered, a[i - 1])
           /\ Followed(walk, ways, memo, covered) = a[Len(ways)]
<1> DEFINE n == Len(ways)
           start == [memo |-> memo, ok |-> TRUE]
           Op == [p \in (1..n) \X Outcomes(c) |-> FollowedOne(walk, ways[p[1]], covered, p[2])]
<1>1. n \in Nat /\ \A i \in 1..n : ways[i] \in {NoWay} \cup {<<q>> : q \in DOMAIN c.pipelines}
  BY ElementOfSeq, LenProperties
<1>2. start \in Outcomes(c)
  BY DEF Outcomes
<1>3. ASSUME NEW o \in Outcomes(c), NEW i \in 1..n
      PROVE  FollowedOne(walk, ways[i], covered, o) \in Outcomes(c)
  <2>1. CASE o.ok /\ ways[i] # NoWay
    <3>1. ways[i][1] \in DOMAIN c.pipelines
      BY <1>1, <2>1
    <3>2. [memo |-> o.memo, pipe |-> ways[i][1], covered |-> covered] \in Visits(c)
      BY <3>1 DEF Visits, Outcomes
    <3> QED BY <2>1, <3>2 DEF FollowedOne
  <2>2. CASE ~(o.ok /\ ways[i] # NoWay)
    BY <2>2 DEF FollowedOne, Outcomes
  <2> QED BY <2>1, <2>2
<1>4. Op \in [(1..n) \X Outcomes(c) -> Outcomes(c)]
  BY <1>3
<1> HIDE DEF n, start
<1>5. PICK a \in [0..n -> Outcomes(c)] : Recurs(a, n, start, Op)
  BY <1>1, <1>2, <1>4, RecursionExists
<1>6. a[0] = start /\ \A i \in 1..n : a[i] = FollowedOne(walk, ways[i], covered, a[i - 1])
  <2>1. \A i \in 1..n : i - 1 \in 0..n /\ a[i - 1] \in Outcomes(c)
    BY <1>1, <1>5
  <2> QED BY <1>5, <2>1 DEF Recurs
<1> HIDE DEF Op
<1> DEFINE One(f, i) ==
      IF i = 0 THEN [memo |-> memo, ok |-> TRUE]
      ELSE LET before == f[i - 1]
           IN  IF ~before.ok THEN before
               ELSE IF ways[i] = NoWay THEN [before EXCEPT !.ok = FALSE]
               ELSE walk[[memo |-> before.memo, pipe |-> ways[i][1], covered |-> covered]]
<1>7. \A f, i : i # 0 => One(f, i) = FollowedOne(walk, ways[i], covered, f[i - 1])
  BY DEF FollowedOne
<1>8. \A f : One(f, 0) = start
  BY DEF start
<1>9. Followed(walk, ways, memo, covered) = (CHOOSE f : f = [i \in 0..n |-> One(f, i)])[n]
  BY DEF Followed, n
<1> HIDE DEF One
<1>10. a = [i \in 0..n |-> One(a, i)]
  <2> DEFINE b == [i \in 0..n |-> One(a, i)]
  <2>1. \A i \in 0..n : b[i] = a[i]
    <3> TAKE i \in 0..n
    <3>1. CASE i = 0
      BY <1>6, <1>8, <3>1
    <3>2. CASE i # 0
      <4>1. i \in 1..n
        BY <1>1, <3>2
      <4> QED BY <1>6, <1>7, <4>1, <3>2
    <3> QED BY <3>1, <3>2
  <2> QED BY <1>5, <2>1
<1>11. PICK f : f = [i \in 0..n |-> One(f, i)] /\ Followed(walk, ways, memo, covered) = f[n]
  BY <1>9, <1>10
<1>12. 0 \in 0..n /\ n \in 0..n /\ \A i \in 1..n : i \in 0..n /\ i # 0 /\ i - 1 \in 0..n
  BY <1>1
<1>13. f[0] = start /\ \A i \in 1..n : f[i] = FollowedOne(walk, ways[i], covered, f[i - 1])
  <2>1. \A i \in 0..n : f[i] = One(f, i)
    BY <1>11
  <2> QED BY <1>7, <1>8, <1>12, <2>1
<1> DEFINE S == {i \in 0..n : f[i] = a[i]}
<1>14. 0 \in S
  BY <1>6, <1>12, <1>13
<1>15. \A i \in 0..(n - 1) : i \in S => i + 1 \in S
  <2> TAKE i \in 0..(n - 1)
  <2>1. i + 1 \in 1..n /\ (i + 1) - 1 = i
    BY <1>1
  <2> QED BY <1>6, <1>12, <1>13, <2>1
<1> HIDE DEF S
<1>16. n \in S
  BY <1>1, <1>12, <1>14, <1>15, HoldsUpTo
<1>17. Followed(walk, ways, memo, covered) = a[n]
  BY <1>11, <1>16 DEF S
<1> QED BY <1>5, <1>6, <1>17 DEF n, start

\* What the memory says.
KeysAs(c, memo, what) == {k \in VisitKeys(c) : memo[k] = what}
Sound(c, asked, memo) == Covering(c, asked, KeysAs(c, memo, "covered"))
Provable(c, asked, memo, k) ==
  \E C : Covering(c, asked, C) /\ k \in C /\ C \cap KeysAs(c, memo, "failed") = {}
Grows(c, memo, new) ==
  /\ KeysAs(c, memo, "covered") \subseteq KeysAs(c, new, "covered")
  /\ KeysAs(c, memo, "failed") = KeysAs(c, new, "failed")

\* A visit with at most n to come remembers what holds, and fails of nothing
\* that could be proved without the visits under way.
WalksRight(c, asked, v, o) ==
  LET k == <<v.pipe, v.covered>>
  IN  /\ o.ok => Grows(c, v.memo, o.memo) /\ Sound(c, asked, o.memo) /\ o.memo[k] = "covered"
      /\ Provable(c, asked, v.memo, k) => o.ok
Walks(c, asked, n, walk) ==
  /\ walk \in [Visits(c) -> Outcomes(c)]
  /\ \A v \in Visits(c) :
       Sound(c, asked, v.memo) /\ Cardinality(KeysAs(c, v.memo, "unseen")) <= n => WalksRight(c, asked, v, walk[v])

\* What is remembered is right.
LEMMA RememberedIsRight ==
  ASSUME NEW c, NEW asked, NEW v \in Visits(c), v.memo[<<v.pipe, v.covered>>] # "unseen"
  PROVE  /\ Remembered(v) \in Outcomes(c)
         /\ Sound(c, asked, v.memo) => WalksRight(c, asked, v, Remembered(v))
<1> DEFINE k == <<v.pipe, v.covered>>
<1>1. k \in VisitKeys(c) /\ v.memo \in Memos(c)
  BY DEF Visits, VisitKeys
<1>2. v.memo[k] \in {"failed", "covered"}
  BY <1>1 DEF Memos
<1>3. Remembered(v) = [memo |-> v.memo, ok |-> v.memo[k] = "covered"]
  BY DEF Remembered, VisitKey
<1>4. Provable(c, asked, v.memo, k) => v.memo[k] = "covered"
  BY <1>1, <1>2 DEF Provable, KeysAs
<1>5. Remembered(v) \in Outcomes(c)
  BY <1>1, <1>3 DEF Outcomes
<1>6. Remembered(v).memo = v.memo /\ Remembered(v).ok = (v.memo[k] = "covered")
  BY <1>3
<1>7. Sound(c, asked, v.memo) => WalksRight(c, asked, v, Remembered(v))
  BY <1>4, <1>6, Zenon DEF WalksRight, Grows
<1> QED BY <1>5, <1>7

\* One more visit to come.
LEMMA WalkBackIsRight ==
  ASSUME NEW c, NEW asked, IsGraph(c, asked), NEW n \in Int, NEW walk, Walks(c, asked, n, walk)
  PROVE  Walks(c, asked, n + 1, WalkBack(c, asked, walk))
<1>1. IsFiniteSet(VisitKeys(c))
  <2>1. IsFiniteSet(BOOLEAN)
    <3>1. BOOLEAN = {TRUE} \cup {FALSE}
      OBVIOUS
    <3>2. IsFiniteSet({TRUE}) /\ IsFiniteSet({FALSE})
      BY FS_Singleton, Zenon
    <3>3. IsFiniteSet({TRUE} \cup {FALSE})
      BY <3>2, FS_Union, Zenon
    <3> QED BY <3>1, <3>3, Zenon
  <2> QED BY <2>1, FS_Product DEF IsGraph, VisitKeys
<1>2. walk \in [Visits(c) -> Outcomes(c)]
  BY DEF Walks
<1>3. ASSUME NEW v \in Visits(c)
      PROVE  /\ WalkBack(c, asked, walk)[v] \in Outcomes(c)
             /\ Sound(c, asked, v.memo) /\ Cardinality(KeysAs(c, v.memo, "unseen")) <= n + 1
                  => WalksRight(c, asked, v, WalkBack(c, asked, walk)[v])
  <2> DEFINE k    == <<v.pipe, v.covered>>
             here == Here(c, asked, k)
             ways == WaysBack(c, asked, v.pipe, here)
             memo == [v.memo EXCEPT ![k] = "failed"]
             last == Followed(walk, ways, memo, here)
             L    == Len(ways)
  <2>1. v.memo \in Memos(c) /\ v.pipe \in DOMAIN c.pipelines /\ v.covered \in BOOLEAN /\ k \in VisitKeys(c)
    BY DEF Visits, VisitKeys
  <2>2. here \in BOOLEAN /\ here = (v.covered \/ HasProcessor(c, v.pipe, asked.types))
    BY <2>1 DEF Here, HasProcessor
  <2>3. ways \in Seq({NoWay} \cup {<<q>> : q \in DOMAIN c.pipelines}) /\ Back(c, asked, k) = ToSet(ways)
    BY <2>1, <2>2 DEF IsGraph, Back
  <2>4. memo \in Memos(c)
    BY <2>1 DEF Memos
  <2>5. WalkBack(c, asked, walk)[v]
          = IF v.memo[k] # "unseen" THEN Remembered(v)
            ELSE IF last.ok THEN [last EXCEPT !.memo[k] = "covered"] ELSE last
    BY <2>1, <2>2 DEF WalkBack, VisitKey
  <2> HIDE DEF here, ways, memo, last
  <2>6. PICK a \in [0..L -> Outcomes(c)] :
           /\ a[0] = [memo |-> memo, ok |-> TRUE]
           /\ \A i \in 1..L : a[i] = FollowedOne(walk, ways[i], here, a[i - 1])
           /\ last = a[L]
    <3>1. \E a \in [0..Len(ways) -> Outcomes(c)] :
            /\ a[0] = [memo |-> memo, ok |-> TRUE]
            /\ \A i \in 1..Len(ways) : a[i] = FollowedOne(walk, ways[i], here, a[i - 1])
            /\ Followed(walk, ways, memo, here) = a[Len(ways)]
      <4>1. here \in BOOLEAN
        BY <2>2
      <4>2. ways \in Seq({NoWay} \cup {<<q>> : q \in DOMAIN c.pipelines})
        BY <2>3
      <4> HIDE DEF k, L
      <4>3. walk \in [Visits(c) -> Outcomes(c)] /\ memo \in Memos(c)
        BY <1>2, <2>4
      <4> QED BY <4>1, <4>2, <4>3, FollowedIs
    <3> QED BY <3>1 DEF last
  <2>7. L \in Nat /\ ToSet(ways) = {ways[i] : i \in 1..L}
    BY <2>3, LenProperties DEF ToSet
  <2>8. last \in Outcomes(c)
    BY <2>6, <2>7
  <2>9. CASE v.memo[k] # "unseen"
    BY <2>5, <2>9, RememberedIsRight
  <2>10. CASE v.memo[k] = "unseen"
    <3>1. WalkBack(c, asked, walk)[v] \in Outcomes(c)
      <4>1. [last EXCEPT !.memo[k] = "covered"] \in Outcomes(c)
        BY <2>1, <2>8 DEF Outcomes, Memos
      <4> QED BY <2>5, <2>8, <2>10, <4>1
    <3>2. ASSUME Sound(c, asked, v.memo), Cardinality(KeysAs(c, v.memo, "unseen")) <= n + 1
          PROVE  WalksRight(c, asked, v, WalkBack(c, asked, walk)[v])
      <4>1. /\ KeysAs(c, memo, "covered") = KeysAs(c, v.memo, "covered")
            /\ KeysAs(c, memo, "failed") = KeysAs(c, v.memo, "failed") \cup {k}
            /\ KeysAs(c, memo, "unseen") = KeysAs(c, v.memo, "unseen") \ {k}
            /\ k \in KeysAs(c, v.memo, "unseen")
        <5>1. \A j \in VisitKeys(c) : memo[j] = IF j = k THEN "failed" ELSE v.memo[j]
          BY <2>1 DEF memo, Memos
        <5> QED BY <2>1, <2>10, <5>1 DEF KeysAs
      <4>2. Cardinality(KeysAs(c, memo, "unseen")) <= n
        <5>1. IsFiniteSet(KeysAs(c, v.memo, "unseen"))
          BY <1>1, FS_Subset DEF KeysAs
        <5>2. Cardinality(KeysAs(c, memo, "unseen")) = Cardinality(KeysAs(c, v.memo, "unseen")) - 1
          BY <4>1, <5>1, FS_RemoveElement
        <5>3. Cardinality(KeysAs(c, v.memo, "unseen")) \in Nat
          BY <5>1, FS_CardinalityType
        <5> QED BY <3>2, <5>2, <5>3
      <4> DEFINE Seen(i) == /\ a[i].ok => /\ Grows(c, memo, a[i].memo) /\ Sound(c, asked, a[i].memo)
                                          /\ \A j \in 1..i : ways[j] # NoWay /\ a[i].memo[<<ways[j][1], here>>] = "covered"
                            /\ Provable(c, asked, v.memo, k) => a[i].ok
                 S == {i \in 0..L : Seen(i)}
      <4>3. 0 \in S
        <5>1. a[0].ok /\ a[0].memo = memo
          BY <2>6
        <5>2. Sound(c, asked, memo) /\ Grows(c, memo, memo)
          BY <3>2, <4>1 DEF Sound, Grows
        <5> QED BY <2>7, <5>1, <5>2
      <4>4. ASSUME NEW i \in 0..(L - 1), i \in S
            PROVE  i + 1 \in S
        <5>1. i \in 0..L /\ i + 1 \in 1..L /\ i + 1 \in 0..L /\ (i + 1) - 1 = i /\ 1..(i + 1) = (1..i) \cup {i + 1}
          BY <2>7
        <5> DEFINE way == ways[i + 1]
                   old == a[i]
                   new == a[i + 1]
                   w   == [memo |-> old.memo, pipe |-> way[1], covered |-> here]
                   j   == <<way[1], here>>
        <5>2. new = FollowedOne(walk, way, here, old) /\ way \in Back(c, asked, k)
          BY <2>3, <2>6, <2>7, <5>1
        <5>3. Seen(i) /\ old \in Outcomes(c)
          BY <2>6, <4>4, <5>1
        <5>4. way = NoWay \/ (way # NoWay /\ way[1] \in DOMAIN c.pipelines /\ way = <<way[1]>>)
          BY <2>3, <5>1, ElementOfSeq
        <5> HIDE DEF way, new
        <5>5. CASE ~old.ok
          <6>1. new = old
            BY <5>2, <5>5 DEF FollowedOne
          <6> QED BY <5>1, <5>3, <5>5, <6>1 DEF new
        <5>6. CASE old.ok /\ way = NoWay
          <6>1. ~Provable(c, asked, v.memo, k)
            BY <5>2, <5>6 DEF Provable, Covering, Leads
          <6>2. new = [old EXCEPT !.ok = FALSE]
            BY <5>2, <5>6 DEF FollowedOne
          <6>3. ~new.ok
            BY <5>3, <6>2 DEF Outcomes
          <6> QED BY <5>1, <6>1, <6>3 DEF new
        <5>7. CASE old.ok /\ way # NoWay
          <6>1. new = walk[w] /\ w \in Visits(c) /\ w.memo = old.memo /\ <<w.pipe, w.covered>> = j
            BY <2>2, <5>2, <5>3, <5>4, <5>7 DEF FollowedOne, Visits, Outcomes
          <6>2. /\ Grows(c, memo, old.memo) /\ Sound(c, asked, old.memo)
                /\ \A m \in 1..i : ways[m] # NoWay /\ old.memo[<<ways[m][1], here>>] = "covered"
            BY <5>3, <5>7
          <6>3. Cardinality(KeysAs(c, old.memo, "unseen")) <= n
            <7>1. KeysAs(c, old.memo, "unseen") \subseteq KeysAs(c, memo, "unseen")
              <8>1. \A x \in VisitKeys(c) : memo[x] \in {"unseen", "failed", "covered"}
                BY <2>4 DEF Memos
              <8> QED BY <6>2, <8>1 DEF Grows, KeysAs
            <7>2. IsFiniteSet(KeysAs(c, memo, "unseen"))
              BY <1>1, FS_Subset DEF KeysAs
            <7>3. Cardinality(KeysAs(c, old.memo, "unseen")) <= Cardinality(KeysAs(c, memo, "unseen"))
                  /\ Cardinality(KeysAs(c, memo, "unseen")) \in Nat /\ Cardinality(KeysAs(c, old.memo, "unseen")) \in Nat
              BY <7>1, <7>2, FS_Subset, FS_CardinalityType
            <7> QED BY <4>2, <7>3
          <6>4. WalksRight(c, asked, w, new)
            BY <6>1, <6>2, <6>3 DEF Walks
          <6>5. /\ new.ok => Grows(c, old.memo, new.memo) /\ Sound(c, asked, new.memo) /\ new.memo[j] = "covered"
                /\ Provable(c, asked, old.memo, j) => new.ok
            BY <6>1, <6>4 DEF WalksRight
          <6>6. ASSUME new.ok
                PROVE  /\ Grows(c, memo, new.memo) /\ Sound(c, asked, new.memo)
                       /\ \A m \in 1..(i + 1) : ways[m] # NoWay /\ new.memo[<<ways[m][1], here>>] = "covered"
            <7>1. Grows(c, memo, new.memo)
              BY <6>2, <6>5, <6>6 DEF Grows
            <7>2. ASSUME NEW m \in 1..(i + 1)
                  PROVE  ways[m] # NoWay /\ new.memo[<<ways[m][1], here>>] = "covered"
              <8>1. CASE m = i + 1
                BY <5>7, <6>5, <6>6, <8>1 DEF way
              <8>2. CASE m # i + 1
                <9>1. m \in 1..i /\ m \in 1..L
                  BY <5>1, <8>2
                <9>2. ways[m] # NoWay /\ old.memo[<<ways[m][1], here>>] = "covered"
                  BY <6>2, <9>1
                <9>3. ways[m] \in {NoWay} \cup {<<q>> : q \in DOMAIN c.pipelines}
                  BY <2>3, <9>1, ElementOfSeq
                <9>4. PICK q \in DOMAIN c.pipelines : ways[m] = <<q>>
                  BY <9>2, <9>3
                <9>5. ways[m][1] = q
                  BY <9>4
                <9>6. <<q, here>> \in VisitKeys(c)
                  BY <2>2 DEF VisitKeys
                <9>7. <<q, here>> \in KeysAs(c, old.memo, "covered")
                  BY <9>2, <9>5, <9>6 DEF KeysAs
                <9>8. <<q, here>> \in KeysAs(c, new.memo, "covered")
                  BY <6>5, <6>6, <9>7 DEF Grows
                <9> QED BY <9>2, <9>5, <9>8 DEF KeysAs
              <8> QED BY <8>1, <8>2
            <7> QED BY <6>5, <6>6, <7>1, <7>2
          <6>7. ASSUME Provable(c, asked, v.memo, k)
                PROVE  new.ok
            <7>1. PICK C : Covering(c, asked, C) /\ k \in C /\ C \cap KeysAs(c, v.memo, "failed") = {}
              BY <6>7 DEF Provable
            <7>2. j \in Behind(c, asked, k)
              BY <5>2, <5>4, <5>7 DEF Behind, here
            <7>3. PICK D \in SUBSET (C \ {k}) : j \in D /\ Covering(c, asked, D)
              BY <7>1, <7>2, CoveringBehind
            <7>4. D \cap KeysAs(c, old.memo, "failed") = {}
              BY <4>1, <6>2, <7>1, <7>3 DEF Grows
            <7> QED BY <6>5, <7>3, <7>4 DEF Provable
          <6> QED BY <5>1, <6>6, <6>7 DEF new
        <5> QED BY <5>5, <5>6, <5>7
      <4> HIDE DEF S
      <4>5. L \in 0..L /\ L \in S
        <5>1. \A i \in 0..(L - 1) : i \in S => i + 1 \in S
          BY <4>4
        <5> HIDE DEF L
        <5>2. 0..L \subseteq S
          BY <2>7, <4>3, <5>1, HoldsUpTo
        <5> QED BY <2>7, <5>2
      <4>6. Seen(L) /\ last = a[L]
        BY <2>6, <4>5 DEF S
      <4> DEFINE out == WalkBack(c, asked, walk)[v]
      <4>7. CASE ~last.ok
        <5>1. ~out.ok
          BY <2>5, <2>10, <4>7
        <5>2. ~Provable(c, asked, v.memo, k)
          BY <4>6, <4>7
        <5> QED BY <5>1, <5>2 DEF WalksRight
      <4>8. CASE last.ok
        <5>1. out = [last EXCEPT !.memo[k] = "covered"]
          BY <2>5, <2>10, <4>8
        <5> HIDE DEF out
        <5>2. out.ok /\ out.memo = [last.memo EXCEPT ![k] = "covered"]
          BY <2>8, <4>8, <5>1 DEF Outcomes
        <5>3. last.memo \in Memos(c)
          BY <2>8 DEF Outcomes
        <5>4. \A i \in VisitKeys(c) : out.memo[i] = IF i = k THEN "covered" ELSE last.memo[i]
          BY <2>1, <5>2, <5>3 DEF Memos
        <5>5. /\ Grows(c, memo, last.memo) /\ Sound(c, asked, last.memo)
              /\ \A j \in 1..L : ways[j] # NoWay /\ last.memo[<<ways[j][1], here>>] = "covered"
          BY <4>6, <4>8
        <5>6. k \in KeysAs(c, last.memo, "failed")
          BY <4>1, <5>5 DEF Grows
        <5>7. /\ KeysAs(c, out.memo, "covered") = KeysAs(c, last.memo, "covered") \cup {k}
              /\ KeysAs(c, out.memo, "failed") = KeysAs(c, last.memo, "failed") \ {k}
              /\ k \notin KeysAs(c, last.memo, "covered")
          BY <2>1, <5>4, <5>6 DEF KeysAs
        <5>8. Grows(c, v.memo, out.memo)
          <6>1. k \notin KeysAs(c, v.memo, "failed")
            BY <2>10 DEF KeysAs
          <6> QED BY <4>1, <5>5, <5>7, <6>1 DEF Grows
        <5>9. Leads(c, asked, k)
          BY <2>3, <2>7, <5>5 DEF Leads
        <5>10. Behind(c, asked, k) \subseteq KeysAs(c, last.memo, "covered")
          <6> SUFFICES ASSUME NEW q \in DOMAIN c.pipelines, <<q>> \in Back(c, asked, k)
                       PROVE  <<q, here>> \in KeysAs(c, last.memo, "covered")
            BY DEF Behind, here
          <6>1. PICK j \in 1..L : ways[j] = <<q>>
            BY <2>3, <2>7
          <6>2. last.memo[<<q, here>>] = "covered"
            BY <5>5, <6>1
          <6> QED BY <2>2, <6>2 DEF KeysAs, VisitKeys
        <5>11. Sound(c, asked, out.memo)
          BY <2>1, <5>5, <5>7, <5>9, <5>10, CoveringGrows DEF Sound
        <5>12. out.memo[k] = "covered"
          BY <2>1, <5>4
        <5> QED BY <5>2, <5>8, <5>11, <5>12 DEF WalksRight, out
      <4> QED BY <4>7, <4>8
    <3> QED BY <3>1, <3>2
  <2> QED BY <2>9, <2>10
<1>4. WalkBack(c, asked, walk) \in [Visits(c) -> Outcomes(c)]
  <2>1. WalkBack(c, asked, walk) = [v \in Visits(c) |-> WalkBack(c, asked, walk)[v]]
    BY DEF WalkBack
  <2> QED BY <1>3, <2>1
<1> QED BY <1>3, <1>4 DEF Walks

\* A pipeline is covered exactly if such a set has its visit.
LEMMA UpstreamCoveredIs ==
  ASSUME NEW c, NEW asked, IsGraph(c, asked), NEW p \in DOMAIN c.pipelines
  PROVE  UpstreamCovered(c, asked, p)
           <=> ~HasDynamicRefs(c, "exporter") /\ \E C : Covering(c, asked, C) /\ <<p, FALSE>> \in C
<1> DEFINE N == Cardinality(VisitKeys(c))
           V == [Visits(c) -> Outcomes(c)]
           first == [v \in Visits(c) |-> Remembered(v)]
           Op == [x \in (1..N) \X V |-> WalkBack(c, asked, x[2])]
           start == [memo |-> [k \in VisitKeys(c) |-> "unseen"], pipe |-> p, covered |-> FALSE]
<1>1. IsFiniteSet(VisitKeys(c)) /\ N \in Nat
  <2>1. IsFiniteSet(BOOLEAN)
    <3>1. BOOLEAN = {TRUE} \cup {FALSE}
      OBVIOUS
    <3>2. IsFiniteSet({TRUE}) /\ IsFiniteSet({FALSE})
      BY FS_Singleton, Zenon
    <3>3. IsFiniteSet({TRUE} \cup {FALSE})
      BY <3>2, FS_Union, Zenon
    <3> QED BY <3>1, <3>3, Zenon
  <2>2. IsFiniteSet(VisitKeys(c))
    BY <2>1, FS_Product DEF IsGraph, VisitKeys
  <2> QED BY <2>2, FS_CardinalityType
<1>2. \A v \in Visits(c) : Remembered(v) \in Outcomes(c) /\ v.memo \in Memos(c) /\ <<v.pipe, v.covered>> \in VisitKeys(c)
  BY DEF Remembered, Outcomes, Visits, VisitKeys
<1>3. first \in V
  BY <1>2
<1>4. \A w \in V : WalkBack(c, asked, w) \in V
  <2> TAKE w \in V
  <2>1. \A v \in Visits(c) : ~(Cardinality(KeysAs(c, v.memo, "unseen")) <= -1)
    <3> TAKE v \in Visits(c)
    <3>1. KeysAs(c, v.memo, "unseen") \in SUBSET VisitKeys(c)
      BY DEF KeysAs
    <3>2. Cardinality(KeysAs(c, v.memo, "unseen")) \in Nat
      BY <1>1, <3>1, FS_Subset, FS_CardinalityType
    <3> QED BY <3>2
  <2>2. Walks(c, asked, -1, w)
    BY <2>1 DEF Walks
  <2>3. -1 \in Int
    OBVIOUS
  <2>4. Walks(c, asked, -1 + 1, WalkBack(c, asked, w))
    BY <2>2, <2>3, WalkBackIsRight
  <2> QED BY <2>4 DEF Walks
<1>5. Op \in [(1..N) \X V -> V]
  <2> HIDE DEF V
  <2> QED BY <1>4
<1> HIDE DEF V, N, first
<1>6. PICK f \in [0..N -> V] : Recurs(f, N, first, Op)
  BY <1>1, <1>3, <1>5, RecursionExists
<1>7. f[0] = first /\ \A n \in 1..N : f[n] = WalkBack(c, asked, f[n - 1])
  <2>1. \A n \in 1..N : n - 1 \in 0..N /\ f[n - 1] \in V
    BY <1>1, <1>6
  <2> QED BY <1>6, <2>1 DEF Recurs
<1> HIDE DEF Op
<1>8. 0 \in 0..N /\ N \in 0..N /\ \A n \in 1..N : n \in 0..N /\ n # 0 /\ n - 1 \in 0..N
  BY <1>1
<1> DEFINE IsWalk(g) == g = [n \in 0..N |-> IF n = 0 THEN [v \in Visits(c) |-> Remembered(v)] ELSE WalkBack(c, asked, g[n - 1])]
<1>9. IsWalk(f)
  <2> DEFINE g == [n \in 0..N |-> IF n = 0 THEN [v \in Visits(c) |-> Remembered(v)] ELSE WalkBack(c, asked, f[n - 1])]
  <2>1. \A n \in 0..N : g[n] = f[n]
    <3> TAKE n \in 0..N
    <3>1. CASE n = 0
      BY <1>7, <3>1 DEF first
    <3>2. CASE n # 0
      <4>1. n \in 1..N
        BY <1>1, <3>2
      <4> QED BY <1>7, <3>2, <4>1
    <3> QED BY <3>1, <3>2
  <2> QED BY <1>6, <2>1
<1>10. UpstreamCovered(c, asked, p) <=> ~HasDynamicRefs(c, "exporter") /\ (CHOOSE g : IsWalk(g))[N][start].ok
  BY DEF UpstreamCovered, N
<1>11. PICK g : IsWalk(g) /\ (UpstreamCovered(c, asked, p) <=> ~HasDynamicRefs(c, "exporter") /\ g[N][start].ok)
  <2> HIDE DEF IsWalk
  <2> QED BY <1>9, <1>10
<1>12. g[0] = [v \in Visits(c) |-> Remembered(v)] /\ \A n \in 1..N : g[n] = WalkBack(c, asked, g[n - 1])
  BY <1>8, <1>11
<1> HIDE DEF IsWalk
<1> DEFINE S == {n \in 0..N : Walks(c, asked, n, g[n])}
<1>13. 0 \in S
  <2>1. ASSUME NEW v \in Visits(c), Sound(c, asked, v.memo), Cardinality(KeysAs(c, v.memo, "unseen")) <= 0
        PROVE  WalksRight(c, asked, v, Remembered(v))
    <3>1. IsFiniteSet(KeysAs(c, v.memo, "unseen"))
      BY <1>1, FS_Subset DEF KeysAs
    <3>2. Cardinality(KeysAs(c, v.memo, "unseen")) \in Nat
      BY <3>1, FS_CardinalityType
    <3>3. KeysAs(c, v.memo, "unseen") = {}
      BY <2>1, <3>1, <3>2, FS_EmptySet
    <3>4. v.memo[<<v.pipe, v.covered>>] # "unseen"
      BY <1>2, <3>3 DEF KeysAs
    <3> QED BY <2>1, <3>4, RememberedIsRight
  <2>2. g[0] = first /\ first \in [Visits(c) -> Outcomes(c)] /\ \A v \in Visits(c) : first[v] = Remembered(v)
    BY <1>3, <1>12 DEF first, V
  <2> QED BY <1>8, <2>1, <2>2 DEF Walks
<1>14. \A n \in 0..(N - 1) : n \in S => n + 1 \in S
  <2> TAKE n \in 0..(N - 1)
  <2> HAVE n \in S
  <2>1. n \in Int /\ n + 1 \in 1..N /\ n + 1 \in 0..N /\ (n + 1) - 1 = n
    BY <1>1
  <2>2. g[n + 1] = WalkBack(c, asked, g[n])
    BY <1>12, <2>1
  <2>3. Walks(c, asked, n + 1, WalkBack(c, asked, g[n]))
    BY <2>1, WalkBackIsRight
  <2> QED BY <2>1, <2>2, <2>3
<1> HIDE DEF S
<1>15. N \in S
  BY <1>1, <1>8, <1>13, <1>14, HoldsUpTo
<1>16. start \in Visits(c) /\ start.memo = [k \in VisitKeys(c) |-> "unseen"] /\ <<start.pipe, start.covered>> = <<p, FALSE>>
  BY DEF Visits, Memos
<1> HIDE DEF start
<1>17. /\ KeysAs(c, start.memo, "unseen") = VisitKeys(c)
       /\ KeysAs(c, start.memo, "failed") = {} /\ KeysAs(c, start.memo, "covered") = {}
  BY <1>16 DEF KeysAs
<1>18. Sound(c, asked, start.memo)
  BY <1>17 DEF Sound, Covering, Circular
<1>19. N <= N /\ Cardinality(KeysAs(c, start.memo, "unseen")) = N
  BY <1>1, <1>17 DEF N
<1>20. WalksRight(c, asked, start, g[N][start]) /\ g[N][start] \in Outcomes(c)
  BY <1>15, <1>16, <1>18, <1>19 DEF S, Walks
<1>21. g[N][start].ok <=> \E C : Covering(c, asked, C) /\ <<p, FALSE>> \in C
  <2> DEFINE o == g[N][start]
  <2>1. <<p, FALSE>> \in VisitKeys(c)
    BY DEF VisitKeys
  <2>2. ASSUME o.ok
        PROVE  \E C : Covering(c, asked, C) /\ <<p, FALSE>> \in C
    <3>1. Sound(c, asked, o.memo) /\ o.memo[<<p, FALSE>>] = "covered"
      BY <1>16, <1>20, <2>2 DEF WalksRight
    <3> QED BY <2>1, <3>1 DEF Sound, KeysAs
  <2>3. ASSUME NEW C, Covering(c, asked, C), <<p, FALSE>> \in C
        PROVE  o.ok
    <3>1. Provable(c, asked, start.memo, <<p, FALSE>>)
      BY <1>17, <2>3 DEF Provable
    <3> QED BY <1>16, <1>20, <3>1 DEF WalksRight
  <2> QED BY <2>2, <2>3
<1> QED BY <1>11, <1>21

-----------------------------------------------------------------------------
(* What the ways back are. *)

\* What Parse leaves of the receivers of a config.
ListsReceivers(c) ==
  IsFiniteSet(DOMAIN c.pipelines) /\ \A p \in DOMAIN c.pipelines : c.pipelines[p].receiver.refs \in Seq(WrittenIds)

\* Nothing is proved of what this receiver of p brings.
Unproved(c, asked, p, b, id) ==
  LET kind == ResolvedKind(c, "receiver", id)
      from == ConnectorPipelines(c, "exporter", id)
  IN  \/ kind = NoKind
      \/ kind = "receiver" /\ ~b
      \/ /\ kind = "connector"
         /\ id.type \notin asked.connectors \/ from = {} \/ \E q \in from : c.pipelines[q].signal # c.pipelines[p].signal
Gap(c, asked, p, b) ==
  c.pipelines[p].receiver.refs = <<>> \/ \E id \in RefsOf(c, p, "receiver") : Unproved(c, asked, p, b, id)

\* This receiver of p is a connector that leads back to q.
Brings(c, asked, p, id, q) ==
  /\ ResolvedKind(c, "receiver", id) = "connector" /\ id.type \in asked.connectors
  /\ q \in ConnectorPipelines(c, "exporter", id) /\ c.pipelines[q].signal = c.pipelines[p].signal
LeadsBack(c, asked, p, q) == \E id \in RefsOf(c, p, "receiver") : Brings(c, asked, p, id, q)

\* What WaysOf lists of one receiver: nothing known of it, or the pipelines it
\* leads back to.
LEMMA WaysOfAre ==
  ASSUME NEW c, IsFiniteSet(DOMAIN c.pipelines), NEW asked, NEW p \in DOMAIN c.pipelines, NEW b \in BOOLEAN, NEW id
  PROVE  /\ WaysOf(c, asked, p, b, id) \in Seq({NoWay} \cup {<<q>> : q \in DOMAIN c.pipelines})
         /\ NoWay \in ToSet(WaysOf(c, asked, p, b, id)) <=> Unproved(c, asked, p, b, id)
         /\ \A q \in DOMAIN c.pipelines : <<q>> \in ToSet(WaysOf(c, asked, p, b, id)) <=> Brings(c, asked, p, id, q)
<1> DEFINE kind == ResolvedKind(c, "receiver", id)
           from == ConnectorPipelines(c, "exporter", id)
<1>0. /\ Unproved(c, asked, p, b, id)
           <=> \/ kind = NoKind
               \/ kind = "receiver" /\ ~b
               \/ /\ kind = "connector"
                  /\ id.type \notin asked.connectors \/ from = {} \/ \E q \in from : c.pipelines[q].signal # c.pipelines[p].signal
      /\ \A q : Brings(c, asked, p, id, q)
           <=> /\ kind = "connector" /\ id.type \in asked.connectors /\ q \in from
               /\ c.pipelines[q].signal = c.pipelines[p].signal
  BY DEF Unproved, Brings
<1> DEFINE V == {NoWay} \cup {<<q>> : q \in DOMAIN c.pipelines}
           W == WaysOf(c, asked, p, b, id)
           f == SetToSeq(from)
           ways == [i \in DOMAIN f |-> IF c.pipelines[f[i]].signal # c.pipelines[p].signal THEN NoWay ELSE <<f[i]>>]
<1>1. kind \in {NoKind, "receiver", "connector"} /\ NoKind # "receiver" /\ NoKind # "connector"
  BY DEF ResolvedKind, NoKind, kind
<1>2. IsFiniteSet(from) /\ from \subseteq DOMAIN c.pipelines
  BY FS_Subset DEF ConnectorPipelines, from
<1>3. f \in Seq(from) /\ DOMAIN f = 1..Cardinality(from) /\ ToSet(f) = from /\ Cardinality(from) \in Nat
  BY <1>2, SomeOrder, FS_CardinalityType
<1>4. W = IF kind = "receiver" /\ b THEN <<>>
          ELSE IF kind # "connector" \/ id.type \notin asked.connectors \/ from = {} THEN <<NoWay>>
          ELSE ways
  BY DEF WaysOf
<1> HIDE DEF W, f, kind, from
<1>5. \A q : <<q>> # NoWay
  BY DEF NoWay
<1>6. CASE kind = "receiver" /\ b
  <2>1. W = <<>>
    BY <1>4, <1>6
  <2>2. ToSet(W) = {} /\ W \in Seq(V)
    BY <2>1 DEF ToSet
  <2> QED BY <1>0, <1>1, <1>6, <2>2 DEF W
<1>7. CASE ~(kind = "receiver" /\ b) /\ (kind # "connector" \/ id.type \notin asked.connectors \/ from = {})
  <2>1. W = <<NoWay>>
    BY <1>4, <1>7
  <2>2. ToSet(W) = {NoWay} /\ W \in Seq(V)
    BY <2>1 DEF ToSet
  <2> HIDE DEF V
  <2>3. NoWay \in ToSet(W) /\ \A q : <<q>> \notin ToSet(W)
    BY <1>5, <2>2
  <2>4. kind = NoKind \/ (kind = "receiver" /\ ~b) \/ (kind = "connector" /\ (id.type \notin asked.connectors \/ from = {}))
    BY <1>1, <1>7
  <2>5. ~(kind = "connector" /\ id.type \in asked.connectors /\ from # {})
    BY <1>7
  <2> QED BY <1>0, <2>2, <2>3, <2>4, <2>5 DEF W, V
<1>8. CASE ~(kind = "receiver" /\ b) /\ kind = "connector" /\ id.type \in asked.connectors /\ from # {}
  <2>1. W = ways
    BY <1>4, <1>8
  <2>2. \A i \in DOMAIN f : f[i] \in from
    BY <1>3 DEF ToSet
  <2>3. W \in Seq(V)
    <3>1. \A i \in DOMAIN f : ways[i] \in V
      BY <1>2, <2>2
    <3> QED BY <1>3, <2>1, <3>1
  <2>4. ToSet(W) = {IF c.pipelines[q].signal # c.pipelines[p].signal THEN NoWay ELSE <<q>> : q \in from}
    <3>1. DOMAIN W = DOMAIN f /\ \A i \in DOMAIN f : W[i] = IF c.pipelines[f[i]].signal # c.pipelines[p].signal THEN NoWay ELSE <<f[i]>>
      BY <2>1
    <3>2. from = {f[i] : i \in DOMAIN f}
      BY <1>3 DEF ToSet
    <3> QED BY <3>1, <3>2 DEF ToSet
  <2> HIDE DEF V
  <2>5. NoWay \in ToSet(W) <=> \E q \in from : c.pipelines[q].signal # c.pipelines[p].signal
    BY <1>5, <2>4
  <2>6. \A q : <<q>> \in ToSet(W) <=> q \in from /\ c.pipelines[q].signal = c.pipelines[p].signal
    BY <1>5, <2>4
  <2>7. kind # NoKind /\ kind # "receiver"
    BY <1>1, <1>8
  <2> QED BY <1>0, <1>8, <2>3, <2>5, <2>6, <2>7 DEF W, V
<1> QED BY <1>6, <1>7, <1>8

\* What the ways back of all the receivers are.
LEMMA WaysBackAre ==
  ASSUME NEW c, ListsReceivers(c), NEW asked,
         NEW p \in DOMAIN c.pipelines, NEW b \in BOOLEAN
  PROVE  /\ WaysBack(c, asked, p, b) \in Seq({NoWay} \cup {<<q>> : q \in DOMAIN c.pipelines})
         /\ NoWay \in ToSet(WaysBack(c, asked, p, b)) <=> Gap(c, asked, p, b)
         /\ \A q \in DOMAIN c.pipelines : <<q>> \in ToSet(WaysBack(c, asked, p, b)) <=> LeadsBack(c, asked, p, q)
<1> DEFINE V == {NoWay} \cup {<<q>> : q \in DOMAIN c.pipelines}
           W == WaysBack(c, asked, p, b)
           refs == c.pipelines[p].receiver.refs
           parts == [i \in DOMAIN refs |-> WaysOf(c, asked, p, b, refs[i])]
<1>1. refs \in Seq(WrittenIds) /\ IsFiniteSet(DOMAIN c.pipelines)
  BY DEF ListsReceivers
<1>2. RefsOf(c, p, "receiver") = {refs[i] : i \in DOMAIN refs}
  BY DEF RefsOf, ToSet
<1>3. W = IF refs = <<>> THEN <<NoWay>> ELSE FlattenSeq(parts)
  BY DEF WaysBack
<1>4. \A q : <<q>> # NoWay
  BY DEF NoWay
<1> HIDE DEF W
<1>5. CASE refs = <<>>
  <2>1. ToSet(W) = {NoWay} /\ W \in Seq(V)
    BY <1>3, <1>5 DEF ToSet
  <2>2. RefsOf(c, p, "receiver") = {}
    BY <1>2, <1>5
  <2>3. \A q \in DOMAIN c.pipelines : ~LeadsBack(c, asked, p, q) /\ <<q>> \notin ToSet(W)
    BY <1>4, <2>1, <2>2 DEF LeadsBack
  <2>4. Gap(c, asked, p, b) /\ NoWay \in ToSet(W)
    BY <1>5, <2>1 DEF Gap
  <2> QED BY <2>1, <2>3, <2>4 DEF W
<1>6. CASE refs # <<>>
  <2> HIDE DEF V
  <2>1. \A i \in DOMAIN refs : parts[i] = WaysOf(c, asked, p, b, refs[i]) /\ parts[i] \in Seq(V)
    BY <1>1, WaysOfAre DEF V
  <2>2. parts \in Seq(Seq(V)) /\ 1..Len(parts) = DOMAIN refs
    <3>1. DOMAIN refs = 1..Len(refs) /\ Len(refs) \in Nat
      BY <1>1
    <3> HIDE DEF refs
    <3>2. parts \in [1..Len(refs) -> Seq(V)]
      BY <2>1, <3>1
    <3> QED BY <3>1, <3>2
  <2> HIDE DEF parts
  <2>3. W \in Seq(V) /\ ToSet(W) = UNION {ToSet(parts[i]) : i \in DOMAIN refs}
    BY <1>3, <1>6, <2>2, JoinedMembers
  <2>4. \A w : w \in ToSet(W) <=> \E id \in RefsOf(c, p, "receiver") : w \in ToSet(WaysOf(c, asked, p, b, id))
    BY <1>2, <2>1, <2>3
  <2>5. NoWay \in ToSet(W) <=> Gap(c, asked, p, b)
    <3>1. \A id \in RefsOf(c, p, "receiver") : NoWay \in ToSet(WaysOf(c, asked, p, b, id)) <=> Unproved(c, asked, p, b, id)
      BY <1>1, WaysOfAre
    <3> QED BY <1>6, <2>4, <3>1 DEF Gap
  <2>6. \A q \in DOMAIN c.pipelines : <<q>> \in ToSet(W) <=> LeadsBack(c, asked, p, q)
    <3> TAKE q \in DOMAIN c.pipelines
    <3>1. \A id \in RefsOf(c, p, "receiver") : <<q>> \in ToSet(WaysOf(c, asked, p, b, id)) <=> Brings(c, asked, p, id, q)
      BY <1>1, WaysOfAre
    <3> QED BY <2>4, <3>1 DEF LeadsBack
  <2> QED BY <2>3, <2>5, <2>6 DEF W, V
<1> QED BY <1>5, <1>6

\* The ways back of a written config are told.
LEMMA WrittenIsGraph ==
  ASSUME NEW c, ListsReceivers(c), NEW asked
  PROVE  /\ IsGraph(c, asked)
         /\ \A k \in VisitKeys(c) :
              /\ Here(c, asked, k) \in BOOLEAN
              /\ Leads(c, asked, k) <=> ~Gap(c, asked, k[1], Here(c, asked, k))
              /\ Behind(c, asked, k) = {<<q, Here(c, asked, k)>> : q \in {r \in DOMAIN c.pipelines : LeadsBack(c, asked, k[1], r)}}
<1>1. IsGraph(c, asked)
  BY WaysBackAre DEF IsGraph, ListsReceivers
<1>2. ASSUME NEW k \in VisitKeys(c)
      PROVE  /\ Here(c, asked, k) \in BOOLEAN
             /\ Leads(c, asked, k) <=> ~Gap(c, asked, k[1], Here(c, asked, k))
             /\ Behind(c, asked, k) = {<<q, Here(c, asked, k)>> : q \in {r \in DOMAIN c.pipelines : LeadsBack(c, asked, k[1], r)}}
  <2>1. k[1] \in DOMAIN c.pipelines /\ k[2] \in BOOLEAN
    BY DEF VisitKeys
  <2>2. Here(c, asked, k) \in BOOLEAN
    BY <2>1 DEF Here, HasProcessor
  <2> DEFINE b == Here(c, asked, k)
             p == k[1]
  <2> HIDE DEF b, p
  <2>3. /\ NoWay \in ToSet(WaysBack(c, asked, p, b)) <=> Gap(c, asked, p, b)
        /\ \A q \in DOMAIN c.pipelines : <<q>> \in ToSet(WaysBack(c, asked, p, b)) <=> LeadsBack(c, asked, p, q)
    BY <2>1, <2>2, WaysBackAre DEF b, p
  <2>4. Back(c, asked, k) = ToSet(WaysBack(c, asked, p, b))
    BY DEF Back, b, p
  <2> QED BY <2>2, <2>3, <2>4 DEF Leads, Behind, b, p
<1> QED BY <1>1, <1>2

-----------------------------------------------------------------------------
(* The walk looks at every way in. *)

BatchAsked == [types |-> BatchTypes, connectors |-> Connectors]
State(c, k) == <<k[1], Here(c, BatchAsked, k)>>

\* The ways into a state are the visits behind it, where none is a gap.
LEMMA StatesAre ==
  ASSUME NEW c, ListsReceivers(c), NEW k \in VisitKeys(c)
  PROVE  /\ State(c, k) \in VisitKeys(c)
         /\ Leads(c, BatchAsked, k) <=> ~Leaks(c, State(c, k))
         /\ Leads(c, BatchAsked, k) => Into(c, State(c, k)) = {State(c, j) : j \in Behind(c, BatchAsked, k)}
<1> DEFINE b == Here(c, BatchAsked, k)
           p == k[1]
<1>1. p \in DOMAIN c.pipelines /\ b \in BOOLEAN
  BY WrittenIsGraph DEF VisitKeys
<1>2. State(c, k) = <<p, b>> /\ State(c, k)[1] = p /\ State(c, k)[2] = b
  BY DEF State
<1> HIDE DEF b, p
<1>3. State(c, k) \in VisitKeys(c)
  BY <1>1, <1>2 DEF VisitKeys
<1>4. Leads(c, BatchAsked, k) <=> ~Gap(c, BatchAsked, p, b)
  BY WrittenIsGraph DEF b, p
<1>5. Leaks(c, State(c, k)) <=> Gap(c, BatchAsked, p, b)
  <2>1. RefsOf(c, p, "receiver") = ToSet(c.pipelines[p].receiver.refs)
    BY DEF RefsOf
  <2>2. BatchAsked.connectors = Connectors
    BY DEF BatchAsked
  <2>3. \A id : ResolvedKind(c, "receiver", id) = NoKind => ResolvedKind(c, "receiver", id) # "receiver"
    BY DEF NoKind
  <2> QED BY <1>2, <2>1, <2>2, <2>3 DEF Leaks, Gap, Unproved
<1>6. ASSUME ~Gap(c, BatchAsked, p, b)
      PROVE  Into(c, State(c, k)) = {State(c, j) : j \in Behind(c, BatchAsked, k)}
  <2> DEFINE P == UNION {ConnectorPipelines(c, "exporter", id) :
                           id \in {i \in RefsOf(c, p, "receiver") : ResolvedKind(c, "receiver", i) = "connector"}}
             Q == {r \in DOMAIN c.pipelines : LeadsBack(c, BatchAsked, p, r)}
  <2>1. P = Q
    <3>1. ASSUME NEW r \in P
          PROVE  r \in Q
      <4>1. PICK id \in RefsOf(c, p, "receiver") :
               ResolvedKind(c, "receiver", id) = "connector" /\ r \in ConnectorPipelines(c, "exporter", id)
        OBVIOUS
      <4>2. ~Unproved(c, BatchAsked, p, b, id)
        BY <1>6 DEF Gap
      <4>3. Brings(c, BatchAsked, p, id, r)
        BY <4>1, <4>2 DEF Unproved, Brings
      <4> QED BY <4>1, <4>3 DEF LeadsBack, ConnectorPipelines
    <3>2. ASSUME NEW r \in Q
          PROVE  r \in P
      BY DEF LeadsBack, Brings
    <3> QED BY <3>1, <3>2
  <2> HIDE DEF P
  <2>2. Into(c, State(c, k)) = {<<q, b \/ HasProcessor(c, q, BatchTypes)>> : q \in P}
    BY <1>2 DEF Into, P
  <2>3. Behind(c, BatchAsked, k) = {<<q, b>> : q \in P}
    BY <2>1, WrittenIsGraph DEF b, p
  <2>4. \A q : State(c, <<q, b>>) = <<q, b \/ HasProcessor(c, q, BatchTypes)>>
    BY DEF State, Here, BatchAsked
  <2>5. {State(c, j) : j \in {<<q, b>> : q \in P}} = {State(c, <<q, b>>) : q \in P}
    OBVIOUS
  <2> QED BY <2>2, <2>3, <2>4, <2>5
<1> QED BY <1>3, <1>4, <1>5, <1>6

\* Visits that cover each other are the ways in that nothing gets in by.
LEMMA CoveringIsEveryPath ==
  ASSUME NEW c, ListsReceivers(c), NEW p \in DOMAIN c.pipelines,
         NEW start, start = <<p, HasProcessor(c, p, BatchTypes)>>,
         NEW ways, ways = AllInto(c, {start})
  PROVE  (\E C : Covering(c, BatchAsked, C) /\ <<p, FALSE>> \in C)
           <=> \A s \in ways : ~Leaks(c, s) /\ s \notin AllInto(c, Into(c, s))
<1> DEFINE K    == VisitKeys(c)
           next == [s \in K |-> Into(c, s)]
           k0   == <<p, FALSE>>
<1>1. IsFiniteSet(K)
  <2>1. IsFiniteSet(BOOLEAN)
    <3>1. BOOLEAN = {TRUE} \cup {FALSE}
      OBVIOUS
    <3>2. IsFiniteSet({TRUE}) /\ IsFiniteSet({FALSE})
      BY FS_Singleton, Zenon
    <3>3. IsFiniteSet({TRUE} \cup {FALSE})
      BY <3>2, FS_Union, Zenon
    <3> QED BY <3>1, <3>3, Zenon
  <2> QED BY <2>1, FS_Product DEF VisitKeys, ListsReceivers
<1>2. k0 \in K
  BY DEF VisitKeys
<1>3. start = State(c, k0) /\ start \in K
  <2>1. Here(c, BatchAsked, k0) = HasProcessor(c, p, BatchTypes)
    BY DEF Here, BatchAsked, HasProcessor
  <2>2. start = State(c, k0)
    BY <2>1 DEF State
  <2> QED BY <1>2, <2>2, StatesAre
<1>4. \A s \in K : Into(c, s) \in SUBSET K
  <2> SUFFICES ASSUME NEW s \in K, NEW q, \E id : q \in ConnectorPipelines(c, "exporter", id)
               PROVE  <<q, s[2] \/ HasProcessor(c, q, BatchTypes)>> \in K
    BY DEF Into
  <2>1. q \in DOMAIN c.pipelines
    BY DEF ConnectorPipelines
  <2>2. (s[2] \/ HasProcessor(c, q, BatchTypes)) \in BOOLEAN
    OBVIOUS
  <2> QED BY <2>1, <2>2 DEF VisitKeys
<1>5. next \in [K -> SUBSET K] /\ \A s \in K : next[s] = Into(c, s)
  BY <1>4
<1>6. ways = AllFrom(next, {start}) /\ \A s \in K : AllInto(c, Into(c, s)) = AllFrom(next, next[s])
  BY <1>5 DEF AllInto
<1> HIDE DEF K, next, k0
<1>7. {start} \in SUBSET K
  BY <1>3
<1>8. /\ start \in ways /\ ways \subseteq K
      /\ \A s \in ways : next[s] \subseteq ways
      /\ \A T : start \in T /\ (\A s \in T \cap K : next[s] \subseteq T) => ways \subseteq T
  <2> DEFINE S == {start}
  <2>1. start \in S /\ \A T : start \in T => S \subseteq T
    OBVIOUS
  <2>2. S \in SUBSET K /\ ways = AllFrom(next, S)
    BY <1>6, <1>7
  <2> HIDE DEF S
  <2>3. /\ S \subseteq AllFrom(next, S) /\ AllFrom(next, S) \subseteq K
        /\ \A s \in AllFrom(next, S) : next[s] \subseteq AllFrom(next, S)
        /\ \A T : S \subseteq T /\ (\A s \in T \cap K : next[s] \subseteq T) => AllFrom(next, S) \subseteq T
    BY <1>1, <1>5, <2>2, AllFromIs
  <2> QED BY <2>1, <2>2, <2>3
<1>9. LeadsRound(next, ways) <=> CircleIn(next, ways)
  <2>1. ways \in SUBSET K /\ \A s \in ways : next[s] \subseteq ways
    BY <1>8
  <2>2. next \in [K -> SUBSET K]
    BY <1>5
  <2> QED BY <1>1, <2>1, <2>2, CirclesAre
<1>10. \A k \in K : State(c, k) \in K /\ (Leads(c, BatchAsked, k) <=> ~Leaks(c, State(c, k)))
                    /\ (Leads(c, BatchAsked, k) => next[State(c, k)] = {State(c, j) : j \in Behind(c, BatchAsked, k)})
  BY <1>5, StatesAre DEF K
<1>11. ASSUME NEW C, Covering(c, BatchAsked, C), k0 \in C
       PROVE  \A s \in ways : ~Leaks(c, s) /\ s \notin AllInto(c, Into(c, s))
  <2> DEFINE T == {State(c, k) : k \in C}
  <2>1. /\ C \subseteq K /\ ~Circular(c, BatchAsked, C)
        /\ \A k \in C : Leads(c, BatchAsked, k) /\ Behind(c, BatchAsked, k) \subseteq C
    BY <1>11 DEF Covering, K
  <2>2. \A s \in T : next[s] \subseteq T
    BY <1>10, <2>1
  <2>3. ways \subseteq T
    BY <1>3, <1>8, <1>11, <2>2
  <2>4. \A s \in ways : ~Leaks(c, s)
    BY <1>10, <2>1, <2>3
  <2>5. ASSUME NEW U \in SUBSET ways, U # {}, \A t \in U : next[t] \cap U # {}
        PROVE  FALSE
    <3> DEFINE R == {k \in C : State(c, k) \in U}
    <3>1. R # {}
      <4>1. PICK t \in U : t \in T
        BY <2>3, <2>5
      <4>2. PICK k \in C : t = State(c, k)
        BY <4>1
      <4> QED BY <4>1, <4>2
    <3>2. ASSUME NEW k \in R
          PROVE  Behind(c, BatchAsked, k) \cap R # {}
      <4>1. PICK u \in next[State(c, k)] : u \in U
        BY <2>5
      <4>2. PICK j \in Behind(c, BatchAsked, k) : u = State(c, j)
        BY <1>10, <2>1, <4>1
      <4> QED BY <2>1, <4>1, <4>2
    <3> QED BY <2>1, <3>1, <3>2 DEF Circular
  <2>6. \A s \in ways : s \notin AllFrom(next, next[s])
    BY <1>9, <2>5 DEF LeadsRound, CircleIn
  <2>7. \A s \in ways : AllInto(c, Into(c, s)) = AllFrom(next, next[s])
    BY <1>6, <1>8
  <2> QED BY <2>4, <2>6, <2>7
<1>12. ASSUME \A s \in ways : ~Leaks(c, s) /\ s \notin AllInto(c, Into(c, s))
       PROVE  \E C : Covering(c, BatchAsked, C) /\ k0 \in C
  <2> DEFINE C == {k \in K : State(c, k) \in ways}
  <2>1. k0 \in C
    BY <1>2, <1>3, <1>8
  <2>2. \A k \in C : Leads(c, BatchAsked, k)
    BY <1>10, <1>12
  <2>3. ASSUME NEW k \in C
        PROVE  /\ Behind(c, BatchAsked, k) \subseteq C
               /\ \A j \in Behind(c, BatchAsked, k) : State(c, j) \in next[State(c, k)]
    <3>1. \A j \in Behind(c, BatchAsked, k) : j \in K
      <4>1. Here(c, BatchAsked, k) \in BOOLEAN
        BY WrittenIsGraph DEF K
      <4>2. \A q \in DOMAIN c.pipelines : <<q, Here(c, BatchAsked, k)>> \in K
        BY <4>1 DEF K, VisitKeys
      <4> QED BY <4>2 DEF Behind
    <3>2. next[State(c, k)] = {State(c, j) : j \in Behind(c, BatchAsked, k)} /\ next[State(c, k)] \subseteq ways
      BY <1>8, <1>10, <2>2
    <3> QED BY <3>1, <3>2
  <2>4. ~Circular(c, BatchAsked, C)
    <3> SUFFICES ASSUME NEW R \in SUBSET C, R # {}, \A k \in R : Behind(c, BatchAsked, k) \cap R # {}
                 PROVE  FALSE
      BY DEF Circular
    <3> DEFINE U == {State(c, k) : k \in R}
    <3>1. U \in SUBSET ways /\ U # {}
      OBVIOUS
    <3>2. \A t \in U : next[t] \cap U # {}
      <4> SUFFICES ASSUME NEW k \in R PROVE next[State(c, k)] \cap U # {}
        OBVIOUS
      <4>1. PICK j \in R : j \in Behind(c, BatchAsked, k)
        OBVIOUS
      <4> QED BY <2>3, <4>1
    <3>3. PICK s \in ways : s \in AllFrom(next, next[s])
      <4> HIDE DEF U
      <4> QED BY <1>9, <3>1, <3>2 DEF LeadsRound, CircleIn
    <3>4. s \in K /\ s \notin AllInto(c, Into(c, s))
      BY <1>8, <1>12
    <3> QED BY <1>6, <3>3, <3>4
  <2> QED BY <2>1, <2>2, <2>3, <2>4 DEF Covering, K
<1> QED BY <1>11, <1>12 DEF k0

-----------------------------------------------------------------------------
(* More processors. *)

\* d is c with more processors, and settings of its own.
MoreProcessors(c, d, types) ==
  /\ DOMAIN d.pipelines = DOMAIN c.pipelines /\ d.declared = c.declared
  /\ d.service = c.service /\ d.pipelinesSupplied = c.pipelinesSupplied
  /\ \A q \in DOMAIN c.pipelines :
       /\ d.pipelines[q].receiver = c.pipelines[q].receiver /\ d.pipelines[q].exporter = c.pipelines[q].exporter
       /\ d.pipelines[q].signal = c.pipelines[q].signal /\ d.pipelines[q].supplied = c.pipelines[q].supplied
       /\ HasProcessor(c, q, types) => HasProcessor(d, q, types)

\* More processors change none of the wires.
LEMMA SameWires ==
  ASSUME NEW types, NEW c, NEW d, MoreProcessors(c, d, types)
  PROVE  /\ \A slot, id : ResolvedKind(d, slot, id) = ResolvedKind(c, slot, id)
         /\ \A p \in DOMAIN c.pipelines, slot \in {"receiver", "exporter"} : RefsOf(d, p, slot) = RefsOf(c, p, slot)
         /\ \A id : ConnectorPipelines(d, "exporter", id) = ConnectorPipelines(c, "exporter", id)
         /\ HasDynamicRefs(d, "exporter") <=> HasDynamicRefs(c, "exporter")
<1>1. \A slot, id : ResolvedKind(d, slot, id) = ResolvedKind(c, slot, id)
  BY DEF MoreProcessors, ResolvedKind
<1>2. \A p \in DOMAIN c.pipelines : RefsOf(d, p, "receiver") = RefsOf(c, p, "receiver") /\ RefsOf(d, p, "exporter") = RefsOf(c, p, "exporter")
  BY DEF MoreProcessors, RefsOf
<1>3. \A id : ConnectorPipelines(d, "exporter", id) = ConnectorPipelines(c, "exporter", id)
  BY <1>1, <1>2 DEF ConnectorPipelines, MoreProcessors
<1>4. DynamicSlot(d, "exporter") <=> DynamicSlot(c, "exporter")
  BY DEF DynamicSlot, MoreProcessors
<1>5. \A e : HasDynamicRefs(e, "exporter") <=> DynamicSlot(e, "exporter")
  BY DEF HasDynamicRefs
<1> QED BY <1>1, <1>2, <1>3, <1>4, <1>5

\* What is covered stays so where there are more processors.
LEMMA CoverageGrows ==
  ASSUME NEW c, ListsReceivers(c), NEW asked, NEW d, MoreProcessors(c, d, asked.types),
         NEW p \in DOMAIN c.pipelines, UpstreamCovered(c, asked, p)
  PROVE  UpstreamCovered(d, asked, p)
<1> DEFINE P == DOMAIN c.pipelines
           R(q) == {r \in P : LeadsBack(c, asked, q, r)}
           HereC(k) == Here(c, asked, k)
           HereD(k) == Here(d, asked, k)
<1>1. ListsReceivers(d) /\ DOMAIN d.pipelines = P /\ VisitKeys(d) = VisitKeys(c)
  BY DEF ListsReceivers, MoreProcessors, VisitKeys
<1>2. \A q \in P : \A b : Gap(d, asked, q, b) <=> Gap(c, asked, q, b)
  <2> TAKE q \in P
  <2> TAKE b
  <2>1. \A id : Unproved(d, asked, q, b, id) <=> Unproved(c, asked, q, b, id)
    <3> TAKE id
    <3>1. \A r \in ConnectorPipelines(c, "exporter", id) : d.pipelines[r].signal = c.pipelines[r].signal
      BY DEF ConnectorPipelines, MoreProcessors
    <3>2. d.pipelines[q].signal = c.pipelines[q].signal
      BY DEF MoreProcessors
    <3>3. ResolvedKind(d, "receiver", id) = ResolvedKind(c, "receiver", id)
          /\ ConnectorPipelines(d, "exporter", id) = ConnectorPipelines(c, "exporter", id)
      BY SameWires
    <3> QED BY <3>1, <3>2, <3>3 DEF Unproved
  <2>2. RefsOf(d, q, "receiver") = RefsOf(c, q, "receiver") /\ d.pipelines[q].receiver = c.pipelines[q].receiver
    BY SameWires DEF MoreProcessors
  <2> QED BY <2>1, <2>2 DEF Gap
<1>3. \A q, r \in P : LeadsBack(d, asked, q, r) <=> LeadsBack(c, asked, q, r)
  <2> TAKE q, r \in P
  <2>1. \A id : Brings(d, asked, q, id, r) <=> Brings(c, asked, q, id, r)
    <3> TAKE id
    <3>1. d.pipelines[q].signal = c.pipelines[q].signal /\ d.pipelines[r].signal = c.pipelines[r].signal
      BY DEF MoreProcessors
    <3>2. ResolvedKind(d, "receiver", id) = ResolvedKind(c, "receiver", id)
          /\ ConnectorPipelines(d, "exporter", id) = ConnectorPipelines(c, "exporter", id)
      BY SameWires
    <3> QED BY <3>1, <3>2 DEF Brings
  <2>2. RefsOf(d, q, "receiver") = RefsOf(c, q, "receiver")
    BY SameWires
  <2> QED BY <2>1, <2>2 DEF LeadsBack
<1>4. \A q \in P, b, e \in BOOLEAN : (b => e) /\ ~Gap(c, asked, q, b) => ~Gap(c, asked, q, e)
  <2> TAKE q \in P, b, e \in BOOLEAN
  <2>1. ASSUME b => e
        PROVE  \A id : Unproved(c, asked, q, e, id) => Unproved(c, asked, q, b, id)
    BY <2>1 DEF Unproved
  <2> QED BY <2>1 DEF Gap
<1>5. \A k, j \in VisitKeys(c) : k[1] = j[1] /\ (k[2] => j[2]) => (HereC(k) => HereD(j))
  <2> TAKE k, j \in VisitKeys(c)
  <2>1. k[1] \in P
    BY DEF VisitKeys
  <2> QED BY <2>1 DEF Here, MoreProcessors
<1>6. \A k \in VisitKeys(c) :
        /\ k[1] \in P /\ k[2] \in BOOLEAN /\ k = <<k[1], k[2]>>
        /\ HereC(k) \in BOOLEAN /\ HereD(k) \in BOOLEAN
        /\ Leads(c, asked, k) <=> ~Gap(c, asked, k[1], HereC(k))
        /\ Leads(d, asked, k) <=> ~Gap(c, asked, k[1], HereD(k))
        /\ Behind(c, asked, k) = {<<q, HereC(k)>> : q \in R(k[1])}
        /\ Behind(d, asked, k) = {<<q, HereD(k)>> : q \in R(k[1])}
  <2> TAKE k \in VisitKeys(c)
  <2>1. k[1] \in P /\ k[2] \in BOOLEAN /\ k = <<k[1], k[2]>>
    BY DEF VisitKeys
  <2>2. /\ HereC(k) \in BOOLEAN
        /\ Leads(c, asked, k) <=> ~Gap(c, asked, k[1], HereC(k))
        /\ Behind(c, asked, k) = {<<q, HereC(k)>> : q \in R(k[1])}
    BY WrittenIsGraph
  <2>3. /\ HereD(k) \in BOOLEAN
        /\ Leads(d, asked, k) <=> ~Gap(d, asked, k[1], HereD(k))
        /\ Behind(d, asked, k) = {<<q, HereD(k)>> : q \in {r \in DOMAIN d.pipelines : LeadsBack(d, asked, k[1], r)}}
    BY <1>1, WrittenIsGraph
  <2>4. {r \in DOMAIN d.pipelines : LeadsBack(d, asked, k[1], r)} = R(k[1])
    BY <1>1, <1>3, <2>1
  <2> HIDE DEF R, HereC, HereD
  <2> QED BY <1>2, <2>1, <2>2, <2>3, <2>4
<1> HIDE DEF R, HereC, HereD, P
<1>7. ~HasDynamicRefs(c, "exporter") /\ \E C : Covering(c, asked, C) /\ <<p, FALSE>> \in C
  BY WrittenIsGraph, UpstreamCoveredIs
<1>8. PICK C : Covering(c, asked, C) /\ <<p, FALSE>> \in C
  BY <1>7
<1>9. /\ C \subseteq VisitKeys(c) /\ ~Circular(c, asked, C)
      /\ \A k \in C : Leads(c, asked, k) /\ Behind(c, asked, k) \subseteq C
  BY <1>8 DEF Covering
<1> DEFINE Under(k, j) == k[1] = j[1] /\ (k[2] => j[2])
           D == {j \in VisitKeys(c) : \E k \in C : Under(k, j)}
<1>10. C \subseteq D
  BY <1>9
<1>11. ASSUME NEW k \in C, NEW j \in VisitKeys(c), Under(k, j)
       PROVE  /\ Leads(d, asked, j)
              /\ \A q \in R(j[1]) : <<q, HereC(k)>> \in C /\ <<q, HereD(j)>> \in D /\ Under(<<q, HereC(k)>>, <<q, HereD(j)>>)
  <2>1. k \in VisitKeys(c) /\ k[1] = j[1] /\ (HereC(k) => HereD(j)) /\ HereC(k) \in BOOLEAN /\ HereD(j) \in BOOLEAN
    BY <1>5, <1>6, <1>9, <1>11
  <2>2. Leads(d, asked, j)
    BY <1>4, <1>6, <1>9, <2>1
  <2>3. ASSUME NEW q \in R(j[1])
        PROVE  <<q, HereC(k)>> \in C /\ <<q, HereD(j)>> \in D /\ Under(<<q, HereC(k)>>, <<q, HereD(j)>>)
    <3>1. <<q, HereC(k)>> \in C
      BY <1>6, <1>9, <2>1
    <3>2. q \in P
      BY DEF R
    <3>3. <<q, HereD(j)>> \in VisitKeys(c)
      BY <2>1, <3>2 DEF VisitKeys, P
    <3>4. Under(<<q, HereC(k)>>, <<q, HereD(j)>>)
      BY <2>1
    <3> HIDE DEF Under
    <3> QED BY <3>1, <3>3, <3>4
  <2> QED BY <2>2, <2>3
<1>12. ~Circular(d, asked, D)
  <2> SUFFICES ASSUME NEW U \in SUBSET D, U # {}, \A j \in U : Behind(d, asked, j) \cap U # {}
               PROVE  FALSE
    BY DEF Circular
  <2> DEFINE V == {k \in C : \E j \in U : Under(k, j)}
  <2>1. V # {}
    OBVIOUS
  <2>2. ASSUME NEW k \in V
        PROVE  Behind(c, asked, k) \cap V # {}
    <3>1. PICK j \in U : Under(k, j)
      OBVIOUS
    <3>2. PICK i \in Behind(d, asked, j) : i \in U
      OBVIOUS
    <3>3. j \in VisitKeys(c) /\ k \in VisitKeys(c) /\ k[1] = j[1]
      BY <1>9, <3>1
    <3>4. PICK q \in R(j[1]) : i = <<q, HereD(j)>>
      BY <1>6, <3>2, <3>3
    <3>5. <<q, HereC(k)>> \in C /\ Under(<<q, HereC(k)>>, i)
      BY <1>11, <3>1, <3>3, <3>4
    <3>6. <<q, HereC(k)>> \in Behind(c, asked, k)
      BY <1>6, <3>3
    <3> HIDE DEF Under
    <3> QED BY <3>2, <3>5, <3>6
  <2> QED BY <1>9, <2>1, <2>2 DEF Circular
<1>13. Covering(d, asked, D)
  <2>1. D \subseteq VisitKeys(d)
    BY <1>1
  <2>2. ASSUME NEW j \in D
        PROVE  Leads(d, asked, j) /\ Behind(d, asked, j) \subseteq D
    <3>1. PICK k \in C : Under(k, j)
      OBVIOUS
    <3>2. j \in VisitKeys(c)
      OBVIOUS
    <3>3. /\ Leads(d, asked, j)
          /\ \A q \in R(j[1]) : <<q, HereD(j)>> \in D
      BY <1>11, <3>1, <3>2
    <3> HIDE DEF D
    <3> QED BY <1>6, <3>2, <3>3
  <2> QED BY <1>12, <2>1, <2>2 DEF Covering
<1>14. IsGraph(d, asked) /\ p \in DOMAIN d.pipelines /\ ~HasDynamicRefs(d, "exporter")
  BY <1>1, <1>7, WrittenIsGraph, SameWires DEF P
<1> QED BY <1>8, <1>10, <1>13, <1>14, UpstreamCoveredIs

-----------------------------------------------------------------------------
(* The order of a list. *)

\* Where the processor at k was before the one of place at was moved to to.
CameFrom(from, to, k) ==
  IF k = to THEN from
  ELSE LET i == IF k < to THEN k ELSE k - 1
       IN  IF i < from THEN i ELSE i + 1

Moved(refs, from, to) == InsertAt(RemoveAt(refs, from), to, refs[from])

\* A moved list is the list in another order.
LEMMA MovedList ==
  ASSUME NEW S, NEW refs \in Seq(S), NEW from \in 1..Len(refs), NEW to \in 1..Len(refs)
  PROVE  /\ Moved(refs, from, to) \in Seq(S) /\ Len(Moved(refs, from, to)) = Len(refs)
         /\ \A k \in 1..Len(refs) :
              CameFrom(from, to, k) \in 1..Len(refs) /\ Moved(refs, from, to)[k] = refs[CameFrom(from, to, k)]
<1> DEFINE new == Moved(refs, from, to)
           n == Len(refs)
           a == SubSeq(refs, 1, from - 1)
           b == SubSeq(refs, from + 1, n)
           rest == a \o b
           c == SubSeq(rest, 1, to - 1)
           d == SubSeq(rest, to, n - 1)
           x == refs[from]
<1>1. n \in Nat /\ from \in 1..n /\ to \in 1..n /\ x \in S
  BY ElementOfSeq, LenProperties
<1>2. /\ a \in Seq(S) /\ Len(a) = from - 1 /\ \A k \in 1..(from - 1) : a[k] = refs[k]
      /\ b \in Seq(S) /\ Len(b) = n - from /\ \A k \in 1..(n - from) : b[k] = refs[from + k]
  <2>1. a \in Seq(S) /\ Len(a) = from - 1 /\ \A k \in 1..(from - 1) : a[k] = refs[k]
    BY <1>1
  <2>2. b \in Seq(S) /\ Len(b) = n - from /\ \A k \in 1..(n - from) : b[k] = refs[from + k]
    BY <1>1
  <2> QED BY <2>1, <2>2
<1> HIDE DEF a, b
<1>3. rest \in Seq(S) /\ Len(rest) = n - 1 /\ \A k \in 1..(n - 1) : rest[k] = refs[IF k < from THEN k ELSE k + 1]
  <2>1. Len(a) + Len(b) = n - 1
    BY <1>1, <1>2
  <2>2. /\ rest \in Seq(S) /\ Len(rest) = n - 1
        /\ \A k \in 1..(n - 1) : rest[k] = IF k <= Len(a) THEN a[k] ELSE b[k - Len(a)]
    <3>1. /\ a \o b \in Seq(S) /\ Len(a \o b) = Len(a) + Len(b)
          /\ \A k \in 1..(Len(a) + Len(b)) : (a \o b)[k] = IF k <= Len(a) THEN a[k] ELSE b[k - Len(a)]
      BY <1>2, ConcatProperties
    <3> HIDE DEF n
    <3> QED BY <2>1, <3>1
  <2>3. ASSUME NEW k \in 1..(n - 1)
        PROVE  rest[k] = refs[IF k < from THEN k ELSE k + 1]
    <3>1. CASE k < from
      BY <1>1, <1>2, <2>2, <3>1
    <3>2. CASE ~(k < from)
      <4>1. k - Len(a) \in 1..(n - from) /\ from + (k - Len(a)) = k + 1 /\ ~(k <= Len(a))
        BY <1>1, <1>2, <3>2
      <4> QED BY <1>2, <2>2, <3>2, <4>1
    <3> QED BY <3>1, <3>2
  <2> QED BY <2>2, <2>3
<1>4. new = c \o <<x>> \o d
  BY <1>3 DEF InsertAt, RemoveAt, Moved, a, b
<1> HIDE DEF rest, new
<1>5. /\ c \in Seq(S) /\ Len(c) = to - 1 /\ \A k \in 1..(to - 1) : c[k] = rest[k]
      /\ d \in Seq(S) /\ Len(d) = n - to /\ \A k \in 1..(n - to) : d[k] = rest[to + k - 1]
  <2>1. c \in Seq(S) /\ Len(c) = to - 1 /\ \A k \in 1..(to - 1) : c[k] = rest[k]
    BY <1>1, <1>3
  <2>2. d \in Seq(S) /\ Len(d) = n - to /\ \A k \in 1..(n - to) : d[k] = rest[to + k - 1]
    BY <1>1, <1>3
  <2> QED BY <2>1, <2>2
<1> HIDE DEF c, d, x
<1> DEFINE e == c \o <<x>>
<1>6. e \in Seq(S) /\ Len(e) = to /\ e[to] = x /\ \A k \in 1..(to - 1) : e[k] = c[k]
  <2>1. <<x>> \in Seq(S) /\ Len(<<x>>) = 1 /\ <<x>>[1] = x
    BY <1>1 DEF x
  <2> HIDE DEF x
  <2> DEFINE one == <<x>>
  <2> HIDE DEF one
  <2>2. one \in Seq(S) /\ Len(one) = 1 /\ one[1] = x
    BY <2>1 DEF one
  <2>3. e \in Seq(S) /\ Len(e) = Len(c) + Len(one)
        /\ \A k \in 1..(Len(c) + Len(one)) : e[k] = IF k <= Len(c) THEN c[k] ELSE one[k - Len(c)]
    <3>1. e = c \o one
      BY DEF one
    <3> HIDE DEF e
    <3> QED BY <1>5, <2>2, <3>1, ConcatProperties
  <2> HIDE DEF e
  <2>4. Len(c) + Len(one) = to /\ to - Len(c) = 1 /\ to \in 1..to /\ ~(to <= Len(c))
    BY <1>1, <1>5, <2>2
  <2>5. e[to] = x
    BY <2>2, <2>3, <2>4
  <2>6. \A k \in 1..(to - 1) : k \in 1..to /\ k <= Len(c)
    BY <1>1, <1>5
  <2> QED BY <2>3, <2>4, <2>5, <2>6
<1>7. new = e \o d
  BY <1>4
<1> HIDE DEF e, n
<1>8. new \in Seq(S) /\ Len(new) = n /\ \A k \in 1..n : new[k] = IF k <= Len(e) THEN e[k] ELSE d[k - Len(e)]
  <2>1. Len(e) + Len(d) = n
    BY <1>1, <1>5, <1>6
  <2>2. /\ e \o d \in Seq(S) /\ Len(e \o d) = Len(e) + Len(d)
        /\ \A k \in 1..(Len(e) + Len(d)) : (e \o d)[k] = IF k <= Len(e) THEN e[k] ELSE d[k - Len(e)]
    BY <1>5, <1>6, ConcatProperties
  <2> QED BY <1>7, <2>1, <2>2
<1>9. ASSUME NEW k \in 1..n
      PROVE  CameFrom(from, to, k) \in 1..n /\ new[k] = refs[CameFrom(from, to, k)]
  <2>1. CASE k < to
    <3>1. k \in 1..(to - 1) /\ k \in 1..(n - 1) /\ k <= Len(e)
      BY <1>1, <1>6, <2>1
    <3>2. new[k] = rest[k]
      BY <1>5, <1>6, <1>8, <3>1
    <3> QED BY <1>1, <1>3, <2>1, <3>1, <3>2 DEF CameFrom
  <2>2. CASE k = to
    BY <1>1, <1>6, <1>8, <2>2 DEF CameFrom, x
  <2>3. CASE k > to
    <3>1. k - to \in 1..(n - to) /\ to + (k - to) - 1 = k - 1 /\ k - 1 \in 1..(n - 1) /\ ~(k <= Len(e))
      BY <1>1, <1>6, <2>3
    <3>2. new[k] = d[k - to]
      BY <1>6, <1>8, <3>1
    <3>3. d[k - to] = rest[to + (k - to) - 1]
      BY <1>5, <3>1
    <3> QED BY <1>1, <1>3, <2>3, <3>1, <3>2, <3>3 DEF CameFrom
  <2> QED BY <1>1, <2>1, <2>2, <2>3
<1> QED BY <1>8, <1>9 DEF n, new

\* That order keeps those that are not moved as they were to each other.
LEMMA CameFromIs ==
  ASSUME NEW n \in Nat, NEW from \in 1..n, NEW to \in 1..n
  PROVE  /\ CameFrom(from, to, to) = from
         /\ \A j, k \in 1..n : CameFrom(from, to, j) = CameFrom(from, to, k) => j = k
         /\ \A j, k \in 1..n : j < k /\ j # to /\ k # to => CameFrom(from, to, j) < CameFrom(from, to, k)
         /\ \A i \in 1..n : i # from => \E k \in 1..n : k # to /\ CameFrom(from, to, k) = i
<1>1. CameFrom(from, to, to) = from
  BY DEF CameFrom
<1>2. \A j, k \in 1..n : CameFrom(from, to, j) = CameFrom(from, to, k) => j = k
  BY DEF CameFrom
<1>3. \A j, k \in 1..n : j < k /\ j # to /\ k # to => CameFrom(from, to, j) < CameFrom(from, to, k)
  BY DEF CameFrom
<1>4. ASSUME NEW i \in 1..n, i # from
      PROVE  \E k \in 1..n : k # to /\ CameFrom(from, to, k) = i
  <2> DEFINE r == IF i < from THEN i ELSE i - 1
             k == IF r < to THEN r ELSE r + 1
  <2>1. k \in 1..n /\ k # to /\ CameFrom(from, to, k) = i
    BY <1>4 DEF CameFrom
  <2> QED BY <2>1
<1> QED BY <1>1, <1>2, <1>3, <1>4

\* What has been moved is where it was moved to, or where that is as good.
InPlace(refs, x) ==
  \E i \in DOMAIN refs :
    /\ refs[i] = x /\ x # Expansion
    /\ \/ x.type = LimiterType /\ i = 1
       \/ x.type = BatchType /\ i = Len(refs)
       \/ x.type \in Enriching /\ SamplersBefore(refs, i) = {}
Arranged(refs, moved) ==
  /\ refs \in Seq(WrittenIds) /\ OnceEach(refs) /\ moved \in Seq(WrittenIds)
  /\ \A i, j \in DOMAIN moved : moved[i] = moved[j] => i = j
  /\ \A i \in DOMAIN moved : InPlace(refs, moved[i])

\* What a finding of processor-order says of its processor.
LEMMA OrderFindings ==
  ASSUME NEW Ids, NEW refs \in Seq(Ids), NEW f \in ProcessorOrder(refs)
  PROVE  /\ f.at \in 1..Len(refs) /\ f.to \in 1..Len(refs)
         /\ \/ refs[f.at].type = LimiterType /\ f.at > 1 /\ f.to = 1
            \/ refs[f.at].type = BatchType /\ f.at < Len(refs) /\ f.to = Len(refs)
            \/ /\ refs[f.at].type \in Enriching /\ SamplersBefore(refs, f.at) # {}
               /\ f.to < f.at /\ refs[f.to].type \in Sampling /\ \A j \in 1..(f.to - 1) : refs[j].type \notin Sampling
<1> DEFINE n == Len(refs)
<1>1. n \in Nat /\ DOMAIN refs = 1..n
  BY LenProperties
<1>2. ASSUME NEW i \in DOMAIN refs, refs[i].type = LimiterType, i > 1, f = [rule |-> "limiter", at |-> i, to |-> 1]
      PROVE  f.at = i /\ f.to = 1 /\ 1 \in 1..n
  BY <1>1, <1>2
<1>3. ASSUME NEW i \in DOMAIN refs, refs[i].type = BatchType, BatchIsOverrun(refs, i), f = [rule |-> "batch", at |-> i, to |-> n]
      PROVE  f.at = i /\ f.to = n /\ n \in 1..n /\ i < n
  BY <1>1, <1>3 DEF BatchIsOverrun
<1>4. ASSUME NEW i \in DOMAIN refs, refs[i].type \in Enriching, SamplersBefore(refs, i) # {},
             f = [rule |-> "sampling", at |-> i, to |-> Min(SamplersBefore(refs, i))]
      PROVE  /\ f.at = i /\ f.to \in 1..n /\ f.to < i /\ refs[f.to].type \in Sampling
             /\ \A j \in 1..(f.to - 1) : refs[j].type \notin Sampling
  <2> DEFINE B == SamplersBefore(refs, i)
  <2>1. B \subseteq 1..(i - 1) /\ B \subseteq Nat /\ i \in 1..n
    BY <1>1 DEF SamplersBefore
  <2> HIDE DEF B
  <2>2. B # {} /\ f.at = i /\ f.to = Min(B)
    BY <1>4 DEF B
  <2>3. f.to \in B /\ f.to \in 1..(i - 1) /\ \A j \in B : f.to <= j
    BY <2>1, <2>2, LeastNatural DEF Min
  <2>4. ASSUME NEW j \in 1..(f.to - 1)
        PROVE  refs[j].type \notin Sampling
    <3>1. j \in 1..(i - 1) /\ ~(f.to <= j)
      BY <1>1, <2>1, <2>3
    <3>2. j \notin B
      BY <2>3, <3>1
    <3> QED BY <3>1, <3>2 DEF B, SamplersBefore
  <2>5. refs[f.to].type \in Sampling
    BY <2>3 DEF B, SamplersBefore
  <2> QED BY <1>1, <2>1, <2>2, <2>3, <2>4, <2>5
<1>5. \/ \E i \in DOMAIN refs : refs[i].type = LimiterType /\ i > 1 /\ f = [rule |-> "limiter", at |-> i, to |-> 1]
      \/ \E i \in DOMAIN refs : refs[i].type = BatchType /\ BatchIsOverrun(refs, i) /\ f = [rule |-> "batch", at |-> i, to |-> n]
      \/ \E i \in DOMAIN refs : /\ refs[i].type \in Enriching /\ SamplersBefore(refs, i) # {}
                                /\ f = [rule |-> "sampling", at |-> i, to |-> Min(SamplersBefore(refs, i))]
  BY DEF ProcessorOrder
<1> HIDE DEF n
<1>6. CASE \E i \in DOMAIN refs : refs[i].type = LimiterType /\ i > 1 /\ f = [rule |-> "limiter", at |-> i, to |-> 1]
  <2>1. PICK i \in DOMAIN refs : refs[i].type = LimiterType /\ i > 1 /\ f = [rule |-> "limiter", at |-> i, to |-> 1]
    BY <1>6
  <2>2. f.at = i /\ f.to = 1 /\ 1 \in 1..n
    BY <1>2, <2>1
  <2> QED BY <1>1, <2>1, <2>2 DEF n
<1>7. CASE \E i \in DOMAIN refs : refs[i].type = BatchType /\ BatchIsOverrun(refs, i) /\ f = [rule |-> "batch", at |-> i, to |-> n]
  <2>1. PICK i \in DOMAIN refs : refs[i].type = BatchType /\ BatchIsOverrun(refs, i) /\ f = [rule |-> "batch", at |-> i, to |-> n]
    BY <1>7
  <2>2. f.at = i /\ f.to = n /\ n \in 1..n /\ i < n
    BY <1>3, <2>1
  <2> QED BY <1>1, <2>1, <2>2 DEF n
<1>8. CASE \E i \in DOMAIN refs : /\ refs[i].type \in Enriching /\ SamplersBefore(refs, i) # {}
                                  /\ f = [rule |-> "sampling", at |-> i, to |-> Min(SamplersBefore(refs, i))]
  <2>1. PICK i \in DOMAIN refs : /\ refs[i].type \in Enriching /\ SamplersBefore(refs, i) # {}
                                 /\ f = [rule |-> "sampling", at |-> i, to |-> Min(SamplersBefore(refs, i))]
    BY <1>8
  <2>2. /\ f.at = i /\ f.to \in 1..n /\ f.to < i /\ refs[f.to].type \in Sampling
        /\ \A j \in 1..(f.to - 1) : refs[j].type \notin Sampling
    BY <1>4, <2>1
  <2> QED BY <1>1, <2>1, <2>2 DEF n
<1> QED BY <1>5, <1>6, <1>7, <1>8

\* A move of a finding puts one processor more in its place.
LEMMA MoveArranged ==
  ASSUME NEW refs, NEW moved, Arranged(refs, moved), NEW f \in ProcessorOrder(refs)
  PROVE  Arranged(Moved(refs, f.at, f.to), Append(moved, refs[f.at]))
<1> DEFINE from == f.at
           to == f.to
           n == Len(refs)
           x == refs[from]
           new == Moved(refs, from, to)
           From(k) == CameFrom(from, to, k)
<1>1. refs \in Seq(WrittenIds) /\ OnceEach(refs) /\ moved \in Seq(WrittenIds)
  BY DEF Arranged
<1>2. n \in Nat /\ DOMAIN refs = 1..n
  BY <1>1, LenProperties
<1>3. /\ from \in 1..n /\ to \in 1..n
      /\ \/ x.type = LimiterType /\ from > 1 /\ to = 1
         \/ x.type = BatchType /\ from < n /\ to = n
         \/ /\ x.type \in Enriching /\ SamplersBefore(refs, from) # {}
            /\ to < from /\ refs[to].type \in Sampling /\ \A j \in 1..(to - 1) : refs[j].type \notin Sampling
  BY <1>1, OrderFindings
<1>4. new \in Seq(WrittenIds) /\ Len(new) = n /\ DOMAIN new = 1..n
      /\ \A k \in 1..n : From(k) \in 1..n /\ new[k] = refs[From(k)]
  <2>1. new \in Seq(WrittenIds) /\ Len(new) = n /\ \A k \in 1..n : From(k) \in 1..n /\ new[k] = refs[From(k)]
    BY <1>1, <1>3, MovedList
  <2> QED BY <2>1, LenProperties
<1> HIDE DEF new, n, from, to
<1>5. /\ From(to) = from
      /\ \A j, k \in 1..n : From(j) = From(k) => j = k
      /\ \A j, k \in 1..n : j < k /\ j # to /\ k # to => From(j) < From(k)
      /\ \A i \in 1..n : i # from => \E k \in 1..n : k # to /\ From(k) = i
  BY <1>2, <1>3, CameFromIs
<1>6. x # Expansion /\ x.type \notin Sampling /\ x \in WrittenIds
  <2>1. x \in WrittenIds
    BY <1>1, <1>2, <1>3, ElementOfSeq DEF n
  <2>2. Expansion.type = "${}"
    BY DEF Expansion
  <2> HIDE DEF x
  <2> QED BY <1>3, <2>1, <2>2 DEF LimiterType, BatchType, Enriching, Sampling
<1>7. OnceEach(new)
  <2> SUFFICES ASSUME NEW i \in 1..n, NEW j \in 1..n
               PROVE  /\ new[i] = new[j] /\ new[i] # Expansion => i = j
                      /\ new[i].type = new[j].type /\ new[i].type \in {LimiterType, BatchType} => i = j
    BY <1>4 DEF OnceEach
  <2>1. From(i) \in DOMAIN refs /\ From(j) \in DOMAIN refs /\ new[i] = refs[From(i)] /\ new[j] = refs[From(j)]
    BY <1>2, <1>4
  <2>2. /\ new[i] = new[j] /\ new[i] # Expansion => From(i) = From(j)
        /\ new[i].type = new[j].type /\ new[i].type \in {LimiterType, BatchType} => From(i) = From(j)
    BY <1>1, <2>1 DEF OnceEach
  <2> HIDE DEF From
  <2> QED BY <1>5, <2>2
<1> HIDE DEF From
<1>8. ASSUME NEW y, InPlace(refs, y)
      PROVE  y # x /\ InPlace(new, y)
  <2>1. PICK i \in 1..n : /\ refs[i] = y /\ y # Expansion
                          /\ \/ y.type = LimiterType /\ i = 1
                             \/ y.type = BatchType /\ i = n
                             \/ y.type \in Enriching /\ SamplersBefore(refs, i) = {}
    BY <1>2, <1>8 DEF InPlace, n
  <2>2. i # from
    <3> SUFFICES ASSUME i = from PROVE FALSE
      OBVIOUS
    <3>1. y = x
      BY <2>1
    <3> HIDE DEF x
    <3> QED BY <1>2, <1>3, <2>1, <3>1 DEF LimiterType, BatchType, Enriching
  <2>3. y # x
    BY <1>1, <1>2, <1>3, <2>1, <2>2 DEF OnceEach
  <2>4. PICK k \in 1..n : k # to /\ From(k) = i
    BY <1>5, <2>2
  <2>5. new[k] = y
    BY <1>4, <2>1, <2>4
  <2>6. y.type \in {LimiterType, BatchType} => y.type # x.type
    BY <1>1, <1>2, <1>3, <2>1, <2>2 DEF OnceEach
  <2>7. CASE y.type = LimiterType
    <3>1. i = 1
      BY <2>1, <2>7 DEF LimiterType, BatchType, Enriching
    <3>2. to # 1
      <4>1. to = 1 => refs[to].type = LimiterType
        BY <2>1, <2>7, <3>1
      <4> HIDE DEF x
      <4> QED BY <1>2, <1>3, <2>6, <2>7, <4>1 DEF LimiterType, Sampling
    <3>3. From(1) = 1
      BY <1>2, <1>3, <2>2, <3>1, <3>2 DEF From, CameFrom
    <3>4. 1 \in 1..n /\ new[1] = y
      BY <1>4, <1>2, <1>3, <2>1, <3>1, <3>3
    <3> QED BY <1>4, <2>1, <2>3, <2>7, <3>4 DEF InPlace
  <2>8. CASE y.type = BatchType
    <3>1. i = n
      BY <2>1, <2>8 DEF LimiterType, BatchType, Enriching
    <3>2. to # n
      <4>1. to = n => refs[to].type = BatchType
        BY <2>1, <2>8, <3>1
      <4> HIDE DEF x
      <4> QED BY <1>2, <1>3, <2>6, <2>8, <4>1 DEF BatchType, Sampling
    <3>3. From(n) = n
      BY <1>2, <1>3, <2>2, <3>1, <3>2 DEF From, CameFrom
    <3>4. n \in 1..n /\ new[n] = y
      BY <1>4, <1>2, <1>3, <2>1, <3>1, <3>3
    <3> QED BY <1>4, <2>1, <2>3, <2>8, <3>4 DEF InPlace
  <2>9. CASE y.type \in Enriching
    <3>1. SamplersBefore(refs, i) = {}
      BY <2>1, <2>9 DEF LimiterType, BatchType, Enriching
    <3>2. ASSUME NEW j \in 1..(k - 1)
          PROVE  new[j].type \notin Sampling
      <4>1. j \in 1..n /\ j < k
        BY <1>2
      <4>2. CASE j = to
        BY <1>4, <1>5, <1>6, <4>1, <4>2
      <4>3. CASE j # to
        <5>1. From(j) < i /\ From(j) \in 1..n
          BY <1>4, <1>5, <2>4, <4>1, <4>3
        <5>2. From(j) \in 1..(i - 1)
          BY <1>2, <5>1
        <5>3. refs[From(j)].type \notin Sampling
          BY <3>1, <5>2 DEF SamplersBefore
        <5> QED BY <1>4, <4>1, <5>3
      <4> QED BY <4>2, <4>3
    <3>3. SamplersBefore(new, k) = {}
      BY <3>2 DEF SamplersBefore
    <3> QED BY <1>4, <2>1, <2>3, <2>5, <2>9, <3>3 DEF InPlace
  <2> QED BY <2>1, <2>3, <2>7, <2>8, <2>9
<1>9. InPlace(new, x)
  <2>1. to \in DOMAIN new /\ new[to] = x
    BY <1>3, <1>4, <1>5
  <2>2. x.type \in Enriching => SamplersBefore(new, to) = {}
    <3> SUFFICES ASSUME x.type \in Enriching, NEW j \in 1..(to - 1) PROVE new[j].type \notin Sampling
      BY DEF SamplersBefore
    <3>1. to < from /\ refs[j].type \notin Sampling
      <4> HIDE DEF x
      <4> QED BY <1>3 DEF LimiterType, BatchType, Enriching
    <3>2. From(j) = j /\ j \in 1..n
      BY <1>2, <1>3, <3>1 DEF From, CameFrom
    <3> QED BY <1>4, <3>1, <3>2
  <2> HIDE DEF x
  <2>3. \/ x.type = LimiterType /\ to = 1
        \/ x.type = BatchType /\ to = Len(new)
        \/ x.type \in Enriching
    BY <1>3, <1>4
  <2> QED BY <1>6, <2>1, <2>2, <2>3 DEF InPlace
<1> HIDE DEF x
<1> DEFINE m == Len(moved)
           more == Append(moved, x)
<1>10. /\ m \in Nat /\ DOMAIN moved = 1..m /\ more \in Seq(WrittenIds) /\ DOMAIN more = 1..(m + 1)
       /\ more[m + 1] = x /\ \A i \in 1..m : more[i] = moved[i]
  BY <1>1, <1>6, AppendProperties, LenProperties
<1> HIDE DEF more, m
<1>11. \A i \in DOMAIN more : InPlace(new, more[i])
  <2> TAKE i \in DOMAIN more
  <2>1. CASE i = m + 1
    BY <1>9, <1>10, <2>1
  <2>2. CASE i # m + 1
    <3>1. i \in DOMAIN moved /\ more[i] = moved[i]
      BY <1>10, <2>2
    <3> QED BY <1>8, <3>1 DEF Arranged
  <2> QED BY <2>1, <2>2
<1>12. ASSUME NEW i \in DOMAIN more, NEW j \in DOMAIN more, more[i] = more[j]
       PROVE  i = j
  <2>1. \A k \in DOMAIN moved : moved[k] # x
    BY <1>8 DEF Arranged
  <2>2. \A k, l \in DOMAIN moved : moved[k] = moved[l] => k = l
    BY DEF Arranged
  <2>3. (i = m + 1 \/ i \in 1..m) /\ (j = m + 1 \/ j \in 1..m)
    BY <1>10
  <2> QED BY <1>10, <1>12, <2>1, <2>2, <2>3
<1>13. Arranged(new, more)
  BY <1>4, <1>7, <1>10, <1>11, <1>12 DEF Arranged
<1> QED BY <1>13 DEF new, more, x, from, to

-----------------------------------------------------------------------------
(* Advice. *)

\* What the config of an advice question is.
IsAdvisable(c) ==
  /\ ListsReceivers(c) /\ c.pipelines \in [DOMAIN c.pipelines -> WrittenPipes]
  /\ Expansion \notin c.declared.exporter /\ c.settings \in [c.declared.exporter -> WrittenSettings]
  /\ c = WithSettings(c, c.settings)

\* A config as Parse leaves it lists receivers.
LEMMA QuestionsAre ==
  ASSUME NEW c \in FiniteConfigs
  PROVE  /\ ListsReceivers(c) /\ c.pipelines \in [DOMAIN c.pipelines -> WrittenPipes]
         /\ Expansion \notin c.declared.exporter
<1>1. c \in WrittenConfigs /\ IsFiniteSet(DOMAIN c.pipelines)
  BY DEF FiniteConfigs
<1>2. c.pipelines \in UNION {[keys -> WrittenPipes] : keys \in SUBSET STRING}
      /\ c.declared \in [Kinds -> SUBSET (WrittenIds \ {Expansion})]
  BY <1>1 DEF WrittenConfigs
<1>3. \A p \in DOMAIN c.pipelines : c.pipelines[p] \in WrittenPipes
  BY <1>2
<1>4. \A pipe \in WrittenPipes : pipe.receiver.refs \in Seq(WrittenIds)
  BY DEF WrittenPipes, WrittenLists
<1>5. ListsReceivers(c)
  BY <1>1, <1>3, <1>4 DEF ListsReceivers
<1>6. "exporter" \in Kinds
  BY DEF Kinds, Slots
<1>7. c.pipelines \in [DOMAIN c.pipelines -> WrittenPipes]
  BY <1>2
<1> QED BY <1>2, <1>5, <1>6, <1>7

\* What advice is asked on.
LEMMA AdviceQuestionsAre ==
  ASSUME NEW t \in AdviceQuestions
  PROVE  t.of = "advice" /\ IsAdvisable(t.config) /\ t.schema.decoding \in {"weak", "strict", "unknown"}
<1>1. PICK c \in FiniteConfigs :
        t \in [of : {"advice"}, additional : SUBSET STRING, schema : ExporterSchemas({id.type : id \in c.declared.exporter}),
               config : {WithSettings(c, s) : s \in [c.declared.exporter -> WrittenSettings]}]
  BY DEF AdviceQuestions
<1>2. t.of = "advice" /\ t.schema \in ExporterSchemas({id.type : id \in c.declared.exporter})
      /\ t.config \in {WithSettings(c, s) : s \in [c.declared.exporter -> WrittenSettings]}
  BY <1>1
<1>3. PICK s \in [c.declared.exporter -> WrittenSettings] : t.config = WithSettings(c, s)
  BY <1>2
<1>4. t.config.pipelines = c.pipelines /\ t.config.declared = c.declared /\ t.config.settings = s
  BY <1>3 DEF WithSettings
<1>5. ListsReceivers(t.config)
  BY <1>4, QuestionsAre DEF ListsReceivers
<1>6. t.config = WithSettings(t.config, t.config.settings)
  BY <1>3 DEF WithSettings
<1>7. IsAdvisable(t.config)
  BY <1>4, <1>5, <1>6, QuestionsAre DEF IsAdvisable
<1>8. t.schema.decoding \in {"weak", "strict", "unknown"}
  BY <1>2 DEF ExporterSchemas
<1> QED BY <1>2, <1>7, <1>8

\* A list that nothing is supplied of stays what it is.
LEMMA WrittenStays ==
  ASSUME NEW list, ~Supplied(list), NEW lists, NEW names, NEW l \in ListSuppliedFrom(list, lists, names)
  PROVE  TypesOn(l) = TypesOn(list)
<1> DEFINE S == [i \in DOMAIN list.refs |-> IF list.refs[i] = Expansion THEN names ELSE {list.refs[i]}]
<1>1. ~list.supplied /\ \A i \in DOMAIN list.refs : list.refs[i] # Expansion
  BY DEF Supplied, ToSet
<1>2. PICK r \in Picks(S) : l = [supplied |-> FALSE, refs |-> r]
  BY <1>1 DEF ListSuppliedFrom
<1>3. DOMAIN r = DOMAIN list.refs /\ \A i \in DOMAIN list.refs : r[i] \in S[i]
  BY DEF Picks
<1>4. \A i \in DOMAIN list.refs : r[i] = list.refs[i]
  BY <1>1, <1>3
<1>5. ToSet(r) = ToSet(list.refs)
  BY <1>3, <1>4 DEF ToSet
<1> QED BY <1>2, <1>5 DEF TypesOn

\* The pipelines advice on batching is given of, and on what.
Unbatching(c, additional) ==
  {q \in DOMAIN c.pipelines :
     /\ ~Supplied(c.pipelines[q].processor)
     /\ ~HasProcessorType(c, q, {BatchType} \cup additional)
     /\ c.pipelines[q].exporter.refs # <<>>
     /\ ~UpstreamCovered(c, [types |-> {BatchType} \cup additional, connectors |-> BatchConnectors], q)}

\* What missing-batch finds, and where.
LEMMA BatchAdviceIs ==
  ASSUME NEW c, NEW schema, NEW additional
  PROVE  /\ \A f \in MissingBatch(c, schema, additional) :
              /\ f.rule = "missing-batch" /\ f.pipe \in Unbatching(c, additional)
              /\ f.legs # {} /\ f.legs \subseteq Unbatched(c, f.pipe) /\ f.fix = FixFor(schema, f.legs)
         /\ \A p \in Unbatching(c, additional) : \A id \in Unbatched(c, p) :
              \E f \in MissingBatch(c, schema, additional) : f.pipe = p /\ id \in f.legs
<1> DEFINE Of(p, legs) == [rule |-> "missing-batch", pipe |-> p, legs |-> legs, fix |-> FixFor(schema, legs)]
<1>1. MissingBatch(c, schema, additional) = UNION {BatchAdvice(c, schema, p) : p \in Unbatching(c, additional)}
  BY DEF MissingBatch, Unbatching
<1>2. \A p : BatchAdvice(c, schema, p)
               = IF Unbatched(c, p) = {} THEN {}
                 ELSE IF Unbatched(c, p) = Legs(c, p) THEN {Of(p, Unbatched(c, p))}
                 ELSE {Of(p, {id}) : id \in Unbatched(c, p)}
  BY DEF BatchAdvice
<1>3. \A p, legs : /\ Of(p, legs).rule = "missing-batch" /\ Of(p, legs).pipe = p /\ Of(p, legs).legs = legs
                   /\ Of(p, legs).fix = FixFor(schema, legs)
  OBVIOUS
<1> HIDE DEF Of
<1>4. ASSUME NEW f \in MissingBatch(c, schema, additional)
      PROVE  /\ f.rule = "missing-batch" /\ f.pipe \in Unbatching(c, additional)
             /\ f.legs # {} /\ f.legs \subseteq Unbatched(c, f.pipe) /\ f.fix = FixFor(schema, f.legs)
  <2>1. PICK p \in Unbatching(c, additional) : f \in BatchAdvice(c, schema, p)
    BY <1>1
  <2>2. PICK legs \in SUBSET Unbatched(c, p) : legs # {} /\ f = Of(p, legs)
    <3>1. Unbatched(c, p) # {}
      BY <1>2, <2>1
    <3>2. CASE Unbatched(c, p) = Legs(c, p)
      BY <1>2, <2>1, <3>1, <3>2
    <3>3. CASE Unbatched(c, p) # Legs(c, p)
      <4>1. PICK id \in Unbatched(c, p) : f = Of(p, {id})
        BY <1>2, <2>1, <3>1, <3>3
      <4> QED BY <4>1
    <3> QED BY <3>2, <3>3
  <2> QED BY <1>3, <2>1, <2>2
<1>5. ASSUME NEW p \in Unbatching(c, additional), NEW id \in Unbatched(c, p)
      PROVE  \E f \in MissingBatch(c, schema, additional) : f.pipe = p /\ id \in f.legs
  <2>1. PICK legs \in SUBSET Unbatched(c, p) : id \in legs /\ Of(p, legs) \in BatchAdvice(c, schema, p)
    <3>1. CASE Unbatched(c, p) = Legs(c, p)
      BY <1>2, <3>1
    <3>2. CASE Unbatched(c, p) # Legs(c, p)
      <4>1. Of(p, {id}) \in BatchAdvice(c, schema, p)
        BY <1>2, <3>2
      <4> QED BY <4>1
    <3> QED BY <3>1, <3>2
  <2> QED BY <1>1, <1>3, <2>1
<1> QED BY <1>4, <1>5

\* Every unbatched exporter of such a pipeline is told, and no other.
LEMMA ToldAre ==
  ASSUME NEW c, NEW schema, NEW additional, NEW q, NEW id
  PROVE  <<q, id>> \in Told(MissingBatch(c, schema, additional)) <=> q \in Unbatching(c, additional) /\ id \in Unbatched(c, q)
<1>1. <<q, id>> \in Told(MissingBatch(c, schema, additional))
        <=> \E f \in MissingBatch(c, schema, additional) : f.pipe = q /\ id \in f.legs
  BY DEF Told
<1> QED BY <1>1, BatchAdviceIs

\* An exporter's settings with what a provider may put in them.
Filled(s, enabled) ==
  [form |-> s.form, queue |-> IF s.queue = "expansion" THEN "mapping" ELSE s.queue,
   batch |-> IF s.queue = "expansion" THEN TRUE ELSE s.batch,
   enabled |-> IF s.enabled = "expansion" THEN enabled ELSE s.enabled,
   storage |-> IF s.queue = "expansion" \/ s.storage = "expansion" THEN "named" ELSE s.storage]

\* Whatever is supplied, a finding of the settings stays.
LEMMA SettingsAre ==
  ASSUME NEW s \in WrittenSettings, s.form # "expansion", task.schema.decoding \in {"weak", "strict", "unknown"}
  PROVE  /\ QueueBatching(s) = "none" => \A t \in SettingsSupplied(s) : ~Batches(t)
         /\ (\A t \in SettingsSupplied(s) : ~Batches(t)) /\ s.queue # "scalar" => QueueBatching(s) = "none"
         /\ ~QueueIsDisabled(task.schema, s) /\ ~QueueIsPersisted(s) /\ ~QueueIsUnresolved(task.schema, s)
              <=> \A t \in SettingsSupplied(s) : ~Persists(t) /\ ~Declines(t)
<1>1. /\ s.form \in {"mapping", "null", "scalar"} /\ s.queue \in {"absent", "null", "mapping", "scalar", "expansion"}
      /\ s.batch \in BOOLEAN /\ s.enabled \in {"absent", "true", "false", "quoted false", "expansion"}
      /\ s.storage \in {"absent", "empty", "named", "expansion"}
  BY DEF WrittenSettings
<1>2. \A t \in SettingsSupplied(s) :
        /\ t.form = s.form /\ t.queue \in {s.queue, "null", "mapping"} /\ t.enabled \in {s.enabled, "true", "false"}
        /\ s.queue # "expansion" => t.queue = s.queue /\ t.batch = s.batch
        /\ s.queue # "expansion" /\ s.enabled # "expansion" => t.enabled = s.enabled
        /\ s.queue # "expansion" /\ s.storage # "expansion" => t.storage = s.storage
  BY DEF SettingsSupplied
<1>3. \A e \in {"true", "false"} : Filled(s, e) \in SettingsSupplied(s)
  <2> TAKE e \in {"true", "false"}
  <2> DEFINE t == Filled(s, e)
  <2>1. /\ t.form = s.form /\ t.queue = (IF s.queue = "expansion" THEN "mapping" ELSE s.queue)
        /\ t.batch = (IF s.queue = "expansion" THEN TRUE ELSE s.batch)
        /\ t.enabled = (IF s.enabled = "expansion" THEN e ELSE s.enabled)
        /\ t.storage = (IF s.queue = "expansion" \/ s.storage = "expansion" THEN "named" ELSE s.storage)
    BY DEF Filled
  <2>2. t \in [form : {s.form}, queue : {s.queue, "null", "mapping"}, batch : {s.batch, TRUE},
               enabled : {s.enabled, "true", "false"}, storage : {s.storage, "named"}]
    BY <1>1 DEF Filled
  <2> HIDE DEF t
  <2>3. /\ s.queue # "expansion" => t.queue = s.queue /\ t.batch = s.batch
        /\ s.queue = "expansion" => t.queue # "expansion"
        /\ s.queue # "expansion" /\ s.enabled # "expansion" => t.enabled = s.enabled
        /\ s.enabled = "expansion" => t.enabled # "expansion"
        /\ s.queue # "expansion" /\ s.storage # "expansion" => t.storage = s.storage
    BY <2>1
  <2>4. t \in SettingsSupplied(s)
    BY <2>2, <2>3, Zenon DEF SettingsSupplied
  <2> QED BY <2>4 DEF t
<1>4. \A e : /\ Filled(s, e).form = s.form /\ Filled(s, e).queue = (IF s.queue = "expansion" THEN "mapping" ELSE s.queue)
             /\ Filled(s, e).batch = (IF s.queue = "expansion" THEN TRUE ELSE s.batch)
             /\ Filled(s, e).enabled = (IF s.enabled = "expansion" THEN e ELSE s.enabled)
             /\ Filled(s, e).storage = (IF s.queue = "expansion" \/ s.storage = "expansion" THEN "named" ELSE s.storage)
  BY DEF Filled
<1>5. QueueBatching(s) = "none" => \A t \in SettingsSupplied(s) : ~Batches(t)
  BY <1>1, <1>2 DEF QueueBatching, Batches
<1>6. ASSUME \A t \in SettingsSupplied(s) : ~Batches(t), s.queue # "scalar"
      PROVE  QueueBatching(s) = "none"
  <2>1. ~Batches(Filled(s, "true"))
    BY <1>3, <1>6
  <2> QED BY <1>1, <1>4, <1>6, <2>1 DEF QueueBatching, Batches
<1>7. ASSUME ~QueueIsDisabled(task.schema, s), ~QueueIsPersisted(s), ~QueueIsUnresolved(task.schema, s), NEW t \in SettingsSupplied(s)
      PROVE  ~Persists(t) /\ ~Declines(t)
  <2>1. CASE s.form = "mapping" /\ s.queue = "mapping"
    BY <1>1, <1>2, <1>7, <2>1 DEF QueueIsDisabled, QueueIsPersisted, QueueIsUnresolved, QueueIsWritten, Persists, Declines
  <2>2. CASE s.form = "mapping" /\ s.queue # "mapping"
    <3>1. s.queue # "expansion"
      BY <1>7, <2>2 DEF QueueIsUnresolved, QueueIsWritten
    <3> QED BY <1>2, <2>2, <3>1 DEF Persists, Declines
  <2>3. CASE s.form # "mapping"
    BY <1>2, <2>3 DEF Persists, Declines
  <2> QED BY <2>1, <2>2, <2>3
<1>8. ASSUME \A t \in SettingsSupplied(s) : ~Persists(t) /\ ~Declines(t)
      PROVE  ~QueueIsDisabled(task.schema, s) /\ ~QueueIsPersisted(s) /\ ~QueueIsUnresolved(task.schema, s)
  <2>1. ~Persists(Filled(s, "true")) /\ ~Declines(Filled(s, "false"))
    BY <1>3, <1>8
  <2>2. CASE s.form = "mapping" /\ s.queue \in {"mapping", "expansion"}
    <3>1. s.queue # "expansion"
      BY <1>4, <2>1, <2>2 DEF Persists
    <3>2. s.storage \notin {"named", "expansion"} /\ s.enabled # "false" /\ s.enabled # "expansion"
          /\ (s.enabled = "quoted false" => task.schema.decoding = "strict")
      BY <1>1, <1>4, <2>1, <2>2, <3>1 DEF Persists, Declines
    <3> QED BY <2>2, <3>1, <3>2 DEF QueueIsDisabled, QueueIsPersisted, QueueIsUnresolved, QueueIsWritten
  <2>3. CASE ~(s.form = "mapping" /\ s.queue \in {"mapping", "expansion"})
    BY <2>3 DEF QueueIsDisabled, QueueIsPersisted, QueueIsUnresolved, QueueIsWritten
  <2> QED BY <2>2, <2>3
<1> QED BY <1>5, <1>6, <1>7, <1>8

\* What is advised under each rule.
Advice == answer.findings = PipelineFindings(task.config, task.schema, task.additional)

\* The findings by their rule.
LEMMA AdvisedAre ==
  ASSUME Advice
  PROVE  /\ Advised("missing-batch") = MissingBatch(task.config, task.schema, task.additional)
         /\ Advised("missing-memory-limiter") = MissingMemoryLimiter(task.config)
         /\ Advised("no-persistent-queue") = NoPersistentQueue(task.config, task.schema)
<1> DEFINE B == MissingBatch(task.config, task.schema, task.additional)
           M == MissingMemoryLimiter(task.config)
           Q == NoPersistentQueue(task.config, task.schema)
<1>1. \A f \in B : f.rule = "missing-batch"
  BY BatchAdviceIs
<1>2. \A f \in M : f.rule = "missing-memory-limiter"
  BY DEF MissingMemoryLimiter
<1>3. \A f \in Q : f.rule = "no-persistent-queue"
  BY DEF NoPersistentQueue
<1>4. answer.findings = B \cup M \cup Q
  BY DEF Advice, PipelineFindings
<1> HIDE DEF B, M, Q
<1> QED BY <1>1, <1>2, <1>3, <1>4 DEF Advised, B, M, Q

\* A finding is warranted whatever a provider supplies.
LEMMA AdviceSurvives ==
  ASSUME Advice, IsAdvisable(task.config), task.schema.decoding \in {"weak", "strict", "unknown"}
  PROVE  AdviceSurvivesSupply
<1> DEFINE c == task.config
           Processors(p) == ListSuppliedFrom(c.pipelines[p].processor, {<<>>} \cup {<<n>> : n \in ProcessorNames}, ProcessorNames)
<1>1. \A p, l : ~Supplied(c.pipelines[p].processor) /\ l \in Processors(p) => TypesOn(l) = TypesOn(c.pipelines[p].processor)
  BY WrittenStays
<1>2. \A p, types : ~HasProcessorType(c, p, types) => TypesOn(c.pipelines[p].processor) \cap types = {}
  BY DEF HasProcessorType, RefsOf, TypesOn
<1> HIDE DEF Processors
<1>3. \A s : s \in c.declared.exporter => c.settings[s] \in WrittenSettings
  BY DEF IsAdvisable
<1>4. ASSUME NEW f \in Advised("missing-batch")
      PROVE  /\ \A list \in Processors(f.pipe) : TypesOn(list) \cap BatchingTypes = {}
             /\ \A id \in f.legs : c.settings[id].form = "expansion" \/ \A s \in SettingsSupplied(c.settings[id]) : ~Batches(s)
  <2>1. f.pipe \in Unbatching(c, task.additional) /\ f.legs \subseteq Unbatched(c, f.pipe)
    BY AdvisedAre, BatchAdviceIs
  <2>2. ~Supplied(c.pipelines[f.pipe].processor) /\ ~HasProcessorType(c, f.pipe, BatchingTypes)
    BY <2>1 DEF Unbatching, BatchingTypes
  <2>3. ASSUME NEW id \in f.legs, c.settings[id].form # "expansion"
        PROVE  \A s \in SettingsSupplied(c.settings[id]) : ~Batches(s)
    <3>1. ResolvedKind(c, "exporter", id) = "exporter" /\ QueueBatching(c.settings[id]) = "none"
      BY <2>1 DEF Unbatched
    <3>2. id \in c.declared.exporter
      BY <3>1 DEF ResolvedKind, NoKind
    <3> QED BY <1>3, <2>3, <3>1, <3>2, SettingsAre
  <2> QED BY <1>1, <1>2, <2>2, <2>3
<1>5. ASSUME NEW f \in Advised("missing-memory-limiter"), NEW list \in Processors(f.pipe)
      PROVE  LimiterType \notin TypesOn(list)
  <2>1. ~Supplied(c.pipelines[f.pipe].processor) /\ ~HasProcessorType(c, f.pipe, {LimiterType})
    <3>1. PICK p \in DOMAIN c.pipelines :
            /\ f = [rule |-> "missing-memory-limiter", pipe |-> p]
            /\ ~Supplied(c.pipelines[p].processor) /\ ~HasProcessorType(c, p, {LimiterType})
      BY AdvisedAre DEF MissingMemoryLimiter
    <3> QED BY <3>1
  <2> QED BY <1>1, <1>2, <2>1
<1>6. ASSUME NEW f \in Advised("no-persistent-queue")
      PROVE  c.settings[f.at].form # "expansion" /\ \A s \in SettingsSupplied(c.settings[f.at]) : ~Persists(s) /\ ~Declines(s)
  <2>1. /\ f.at \in c.declared.exporter
        /\ ~QueueIsDisabled(task.schema, c.settings[f.at]) /\ ~QueueIsPersisted(c.settings[f.at])
        /\ ~QueueIsUnresolved(task.schema, c.settings[f.at])
    BY AdvisedAre DEF NoPersistentQueue
  <2>2. c.settings[f.at].form # "expansion"
    BY <2>1 DEF QueueIsUnresolved
  <2> QED BY <1>3, <2>1, <2>2, SettingsAre
<1> QED BY <1>4, <1>5, <1>6 DEF AdviceSurvivesSupply, Processors

\* Where data gets in raw nothing covers the pipeline.
LEMMA RawIsUncovered ==
  ASSUME NEW c, ListsReceivers(c), NEW types, NEW connectors, NEW p \in DOMAIN c.pipelines,
         EntersRaw(c, p, types, connectors)
  PROVE  /\ ~UpstreamCovered(c, [types |-> types, connectors |-> connectors], p)
         /\ ~HasProcessorType(c, p, types) /\ ~Supplied(c.pipelines[p].processor) /\ c.pipelines[p].receiver.refs # <<>>
<1> DEFINE P == DOMAIN c.pipelines
           asked == [types |-> types, connectors |-> connectors]
           next == [q \in P |-> RawInto(c, q, types, connectors)]
           reached == ReachRaw(c, {p}, types, connectors)
<1>1. asked.types = types /\ asked.connectors = connectors
  OBVIOUS
<1>2. next \in [P -> SUBSET P] /\ \A q \in P : next[q] = RawInto(c, q, types, connectors)
  BY DEF RawInto
<1>3. reached = AllFrom(next, {p}) /\ IsFiniteSet(P)
  BY DEF ReachRaw, ListsReceivers
<1>4. ~HasProcessorType(c, p, types) /\ ~Supplied(c.pipelines[p].processor)
  BY DEF EntersRaw, HasProcessorType, RefsOf, TypesOn
<1>5. PICK q \in reached : \E id \in RefsOf(c, q, "receiver") : ResolvedKind(c, "receiver", id) = "receiver"
  BY DEF EntersRaw
<1> HIDE DEF next, asked, reached
<1>6. reached \subseteq P /\ \A T : p \in T /\ (\A s \in T \cap P : next[s] \subseteq T) => reached \subseteq T
  <2> DEFINE S == {p}
  <2>1. S \in SUBSET P /\ (\A T : p \in T => S \subseteq T) /\ reached = AllFrom(next, S)
    BY <1>3
  <2> HIDE DEF S, P
  <2>2. AllFrom(next, S) \subseteq P
        /\ \A T : S \subseteq T /\ (\A s \in T \cap P : next[s] \subseteq T) => AllFrom(next, S) \subseteq T
    BY <1>2, <1>3, <2>1, AllFromIs
  <2> QED BY <2>1, <2>2
<1>7. c.pipelines[p].receiver.refs # <<>>
  <2> SUFFICES ASSUME c.pipelines[p].receiver.refs = <<>> PROVE FALSE
    OBVIOUS
  <2>1. RefsOf(c, p, "receiver") = {}
    BY DEF RefsOf, ToSet
  <2>2. RawInto(c, p, types, connectors) = {}
    BY <2>1 DEF RawInto
  <2>3. \A s \in {p} \cap P : next[s] \subseteq {p}
    BY <1>2, <2>2
  <2>4. reached \subseteq {p}
    BY <1>6, <2>3
  <2> QED BY <1>5, <2>1, <2>4
<1>8. ~UpstreamCovered(c, asked, p)
  <2> SUFFICES ASSUME UpstreamCovered(c, asked, p) PROVE FALSE
    OBVIOUS
  <2>1. IsGraph(c, asked)
    BY WrittenIsGraph
  <2>2. PICK C : Covering(c, asked, C) /\ <<p, FALSE>> \in C
    BY <2>1, UpstreamCoveredIs
  <2> DEFINE T == {r \in P : <<r, FALSE>> \in C /\ ~HasProcessor(c, r, types)}
  <2>3. p \in T
    BY <1>4, <2>2 DEF HasProcessor, HasProcessorType
  <2>4. ASSUME NEW r \in T
        PROVE  /\ ~Gap(c, asked, r, FALSE)
               /\ \A s \in P : LeadsBack(c, asked, r, s) => <<s, FALSE>> \in C
    <3> DEFINE k == <<r, FALSE>>
    <3>1. k \in VisitKeys(c) /\ k[1] = r /\ Leads(c, asked, k) /\ Behind(c, asked, k) \subseteq C
      BY <2>2 DEF Covering
    <3>2. Here(c, asked, k) = FALSE
      BY <1>1 DEF Here, HasProcessor
    <3> HIDE DEF k
    <3>3. /\ Leads(c, asked, k) <=> ~Gap(c, asked, k[1], Here(c, asked, k))
          /\ Behind(c, asked, k) = {<<s, Here(c, asked, k)>> : s \in {x \in P : LeadsBack(c, asked, k[1], x)}}
      BY <3>1, WrittenIsGraph
    <3>4. ~Gap(c, asked, r, FALSE)
      BY <3>1, <3>2, <3>3
    <3>5. Behind(c, asked, k) = {<<s, FALSE>> : s \in {x \in P : LeadsBack(c, asked, r, x)}}
      BY <3>1, <3>2, <3>3
    <3> QED BY <3>1, <3>4, <3>5
  <2>5. ASSUME NEW r \in T, NEW s \in next[r]
        PROVE  s \in T
    <3>1. s \in RawInto(c, r, types, connectors)
      BY <1>2
    <3>2. PICK id \in RefsOf(c, r, "receiver") : id.type \in connectors /\ s \in ConnectorPipelines(c, "exporter", id)
      BY <3>1 DEF RawInto
    <3>3. s \in P /\ ~HasProcessor(c, s, types) /\ c.pipelines[s].signal = c.pipelines[r].signal
      BY <3>1 DEF RawInto
    <3>4. ~Unproved(c, asked, r, FALSE, id)
      BY <2>4 DEF Gap
    <3>5. ResolvedKind(c, "receiver", id) \in {NoKind, "receiver", "connector"}
      BY DEF ResolvedKind
    <3>6. ResolvedKind(c, "receiver", id) = "connector"
      BY <3>4, <3>5 DEF Unproved
    <3>7. LeadsBack(c, asked, r, s)
      BY <1>1, <3>2, <3>3, <3>6 DEF LeadsBack, Brings
    <3> QED BY <2>4, <3>3, <3>7
  <2>6. q \in T
    BY <1>5, <1>6, <2>3, <2>5
  <2>7. Gap(c, asked, q, FALSE)
    BY <1>5 DEF Gap, Unproved
  <2> QED BY <2>4, <2>6, <2>7
<1> QED BY <1>4, <1>7, <1>8 DEF asked

\* Where data gets in raw there is a finding.
LEMMA RawWaysReported ==
  ASSUME Advice, IsAdvisable(task.config), task.schema.decoding \in {"weak", "strict", "unknown"}
  PROVE  EveryRawWayIsReported
<1> DEFINE c == task.config
<1> SUFFICES ASSUME NEW p \in DOMAIN c.pipelines
             PROVE  /\ EntersRaw(c, p, BatchingTypes, BatchConnectors) =>
                         \A id \in Legs(c, p) \cap c.declared.exporter :
                           (\A s \in SettingsSupplied(c.settings[id]) : ~Batches(s)) /\ c.settings[id].queue # "scalar" =>
                             \E f \in Advised("missing-batch") : f.pipe = p /\ id \in f.legs
                    /\ EntersRaw(c, p, {LimiterType}, LimiterConnectors) =>
                         \E f \in Advised("missing-memory-limiter") : f.pipe = p
                    /\ \A id \in Legs(c, p) \cap c.declared.exporter :
                         /\ task.schema.queue[id.type] \notin {"undescribed", "none"} /\ c.settings[id].form # "expansion"
                         /\ \A s \in SettingsSupplied(c.settings[id]) : ~Persists(s) /\ ~Declines(s)
                         => \E f \in Advised("no-persistent-queue") : f.at = id
  BY DEF EveryRawWayIsReported
<1>1. ListsReceivers(c)
  BY DEF IsAdvisable
<1>2. \A id \in Legs(c, p) \cap c.declared.exporter :
        ResolvedKind(c, "exporter", id) = "exporter" /\ id \in RefsOf(c, p, "exporter") /\ c.settings[id] \in WrittenSettings
  BY DEF IsAdvisable, ResolvedKind, Legs
<1>3. ASSUME EntersRaw(c, p, BatchingTypes, BatchConnectors), NEW id \in Legs(c, p) \cap c.declared.exporter,
             \A s \in SettingsSupplied(c.settings[id]) : ~Batches(s), c.settings[id].queue # "scalar"
      PROVE  \E f \in Advised("missing-batch") : f.pipe = p /\ id \in f.legs
  <2>1. c.pipelines[p].exporter.refs # <<>>
    BY <1>2 DEF RefsOf, ToSet
  <2>2. p \in Unbatching(c, task.additional)
    BY <1>1, <1>3, <2>1, RawIsUncovered DEF Unbatching, BatchingTypes
  <2>3. QueueBatching(c.settings[id]) = "none"
    <3>1. CASE c.settings[id].form = "expansion"
      BY <3>1 DEF QueueBatching
    <3>2. CASE c.settings[id].form # "expansion"
      BY <1>2, <1>3, <3>2, SettingsAre
    <3> QED BY <3>1, <3>2
  <2>4. id \in Unbatched(c, p)
    BY <1>2, <2>3 DEF Unbatched
  <2> QED BY <2>2, <2>4, AdvisedAre, BatchAdviceIs
<1>4. ASSUME EntersRaw(c, p, {LimiterType}, LimiterConnectors)
      PROVE  \E f \in Advised("missing-memory-limiter") : f.pipe = p
  <2>1. [rule |-> "missing-memory-limiter", pipe |-> p] \in MissingMemoryLimiter(c)
    BY <1>1, <1>4, RawIsUncovered DEF MissingMemoryLimiter
  <2> QED BY <2>1, AdvisedAre
<1>5. ASSUME NEW id \in Legs(c, p) \cap c.declared.exporter,
             task.schema.queue[id.type] \notin {"undescribed", "none"}, c.settings[id].form # "expansion",
             \A s \in SettingsSupplied(c.settings[id]) : ~Persists(s) /\ ~Declines(s)
      PROVE  \E f \in Advised("no-persistent-queue") : f.at = id
  <2>1. id \in Used(c, "exporter")
    BY <1>2 DEF Used, Slots
  <2>2. ~QueueIsDisabled(task.schema, c.settings[id]) /\ ~QueueIsPersisted(c.settings[id])
        /\ ~QueueIsUnresolved(task.schema, c.settings[id])
    BY <1>2, <1>5, SettingsAre
  <2>3. AcceptsQueue(task.schema, id.type, QueueIsWritten(c.settings[id]))
    BY <1>5 DEF AcceptsQueue
  <2>4. [rule |-> "no-persistent-queue", at |-> id] \in NoPersistentQueue(c, task.schema)
    BY <2>1, <2>2, <2>3 DEF NoPersistentQueue
  <2> QED BY <2>4, AdvisedAre
<1> QED BY <1>3, <1>4, <1>5

\* The config with other settings, or with one processor more.
Resettled(c, legs) ==
  LET Batching(id) == [form |-> "mapping", queue |-> "mapping", batch |-> TRUE, enabled |-> "absent", storage |-> "absent"]
  IN  [c EXCEPT !.settings = [id \in DOMAIN @ |-> IF id \in legs THEN Batching(id) ELSE @[id]]]
Extended(c, p, id) == [c EXCEPT !.pipelines[p].processor.refs = Append(c.pipelines[p].processor.refs, id)]

\* Other settings leave the pipelines as they were.
LEMMA ResettledIs ==
  ASSUME NEW c, IsAdvisable(c), NEW legs \in SUBSET c.declared.exporter, NEW d, d = Resettled(c, legs)
  PROVE  /\ \A types : MoreProcessors(c, d, types) /\ MoreProcessors(d, c, types)
         /\ d.pipelines = c.pipelines
         /\ \A id \in c.declared.exporter :
              QueueBatching(d.settings[id]) = IF id \in legs THEN "queue" ELSE QueueBatching(c.settings[id])
<1> DEFINE Batching == [form |-> "mapping", queue |-> "mapping", batch |-> TRUE, enabled |-> "absent", storage |-> "absent"]
           new == [id \in DOMAIN c.settings |-> IF id \in legs THEN Batching ELSE c.settings[id]]
<1>1. c = WithSettings(c, c.settings) /\ DOMAIN c.settings = c.declared.exporter
  BY DEF IsAdvisable
<1>2. d = [c EXCEPT !.settings = new]
  BY DEF Resettled
<1> HIDE DEF new
<1>3. /\ d.pipelines = c.pipelines /\ d.declared = c.declared /\ d.service = c.service
      /\ d.pipelinesSupplied = c.pipelinesSupplied /\ d.settings = new
  BY <1>1, <1>2 DEF WithSettings
<1>4. \A types : MoreProcessors(c, d, types) /\ MoreProcessors(d, c, types)
  BY <1>3 DEF MoreProcessors, HasProcessor, RefsOf, ResolvedKind
<1>5. \A id \in c.declared.exporter : d.settings[id] = IF id \in legs THEN Batching ELSE c.settings[id]
  BY <1>1, <1>3 DEF new
<1>6. QueueBatching(Batching) = "queue"
  BY DEF QueueBatching
<1> QED BY <1>3, <1>4, <1>5, <1>6

\* One processor more is the only difference.
LEMMA ExtendedIs ==
  ASSUME NEW c, IsAdvisable(c), NEW p \in DOMAIN c.pipelines, NEW id,
         NEW d, d = Extended(c, p, id)
  PROVE  /\ \A types : MoreProcessors(c, d, types)
         /\ d.settings = c.settings /\ \A q \in DOMAIN c.pipelines : q # p => d.pipelines[q] = c.pipelines[q]
         /\ id \in RefsOf(d, p, "processor")
<1> DEFINE list == c.pipelines[p].processor
           refs == Append(list.refs, id)
           pipe == [c.pipelines[p] EXCEPT !.processor = [list EXCEPT !.refs = refs]]
           new  == [c.pipelines EXCEPT ![p] = pipe]
<1>1. c = WithSettings(c, c.settings) /\ c.pipelines \in [DOMAIN c.pipelines -> WrittenPipes]
  BY DEF IsAdvisable
<1>2. c.pipelines[p] \in WrittenPipes
  BY <1>1
<1>3. list \in WrittenLists /\ list.refs \in Seq(WrittenIds)
  BY <1>2 DEF WrittenPipes, WrittenLists
<1>4. ToSet(refs) = ToSet(list.refs) \cup {id}
  <2> DEFINE old == list.refs
  <2> HIDE DEF old
  <2> DEFINE Ids == WrittenIds \cup {id}
  <2> HIDE DEF Ids
  <2>0. WrittenIds \subseteq Ids /\ id \in Ids
    BY DEF Ids
  <2>1. old \in Seq(Ids) /\ Len(old) \in Nat /\ DOMAIN old = 1..Len(old)
    <3>1. old \in Seq(WrittenIds)
      BY <1>3 DEF old
    <3> QED BY <2>0, <3>1, LenProperties, SeqDef
  <2>2. /\ Append(old, id) \in Seq(Ids) /\ Len(Append(old, id)) = Len(old) + 1
        /\ \A i \in 1..Len(old) : Append(old, id)[i] = old[i]
        /\ Append(old, id)[Len(old) + 1] = id
    BY <2>0, <2>1, AppendProperties
  <2>3. DOMAIN Append(old, id) = (1..Len(old)) \cup {Len(old) + 1}
    BY <2>1, <2>2, LenProperties
  <2>4. ToSet(Append(old, id)) = ToSet(old) \cup {id}
    BY <2>1, <2>2, <2>3 DEF ToSet
  <2> QED BY <2>4 DEF old
<1>5. d = [c EXCEPT !.pipelines = new]
  BY DEF Extended
<1>6. /\ pipe.signal = c.pipelines[p].signal /\ pipe.supplied = c.pipelines[p].supplied
      /\ pipe.receiver = c.pipelines[p].receiver /\ pipe.exporter = c.pipelines[p].exporter
      /\ pipe.processor.refs = refs
  <2>1. pipe.processor = [list EXCEPT !.refs = refs]
    BY <1>2 DEF WrittenPipes
  <2>2. [list EXCEPT !.refs = refs].refs = refs
    BY <1>3 DEF WrittenLists
  <2>3. /\ pipe.signal = c.pipelines[p].signal /\ pipe.supplied = c.pipelines[p].supplied
        /\ pipe.receiver = c.pipelines[p].receiver /\ pipe.exporter = c.pipelines[p].exporter
    BY <1>2 DEF WrittenPipes
  <2> QED BY <2>1, <2>2, <2>3
<1> HIDE DEF pipe, refs
<1>7. DOMAIN new = DOMAIN c.pipelines /\ new[p] = pipe /\ \A q \in DOMAIN c.pipelines : q # p => new[q] = c.pipelines[q]
  BY <1>1
<1> HIDE DEF new
<1>8. /\ d.pipelines = new /\ d.declared = c.declared /\ d.service = c.service
      /\ d.pipelinesSupplied = c.pipelinesSupplied /\ d.settings = c.settings
  BY <1>1, <1>5 DEF WithSettings
<1>9. RefsOf(d, p, "processor") = RefsOf(c, p, "processor") \cup {id}
  BY <1>4, <1>6, <1>7, <1>8 DEF RefsOf
<1>10. \A q \in DOMAIN c.pipelines : RefsOf(c, q, "processor") \subseteq RefsOf(d, q, "processor")
  <2> TAKE q \in DOMAIN c.pipelines
  <2>1. CASE q = p
    BY <1>9, <2>1
  <2>2. CASE q # p
    BY <1>7, <1>8, <2>2 DEF RefsOf
  <2> QED BY <2>1, <2>2
<1>11. \A types : \A q \in DOMAIN c.pipelines : HasProcessor(c, q, types) => HasProcessor(d, q, types)
  <2>1. \A i : ResolvedKind(d, "processor", i) = ResolvedKind(c, "processor", i)
    BY <1>8 DEF ResolvedKind
  <2> QED BY <1>10, <2>1 DEF HasProcessor
<1>12. ASSUME NEW q \in DOMAIN c.pipelines
       PROVE  /\ d.pipelines[q].receiver = c.pipelines[q].receiver /\ d.pipelines[q].exporter = c.pipelines[q].exporter
              /\ d.pipelines[q].signal = c.pipelines[q].signal /\ d.pipelines[q].supplied = c.pipelines[q].supplied
  <2>1. CASE q = p
    BY <1>6, <1>7, <1>8, <2>1
  <2>2. CASE q # p
    BY <1>7, <1>8, <2>2
  <2> QED BY <2>1, <2>2
<1>13. \A types : MoreProcessors(c, d, types)
  <2> TAKE types
  <2> QED BY <1>7, <1>8, <1>11, <1>12 DEF MoreProcessors
<1> QED BY <1>7, <1>8, <1>9, <1>13

\* Following a hint ends its finding and begins none.
LEMMA HintsFollowed ==
  ASSUME Advice, IsAdvisable(task.config)
  PROVE  HintsCanBeFollowed
<1> DEFINE c == task.config
           schema == task.schema
           additional == task.additional
           types == {BatchType} \cup additional
           asked == [types |-> types, connectors |-> BatchConnectors]
           B == MissingBatch(c, schema, additional)
           New == [type |-> BatchType, name |-> ""]
           Appended(p) == Append(c.pipelines[p].processor.refs, New)
           Again(d) == MissingBatch(d, schema, additional)
<1>1. Advised("missing-batch") = B /\ ListsReceivers(c) /\ asked.types = types
  BY AdvisedAre DEF IsAdvisable
<1>2. \A f \in B : /\ f.pipe \in Unbatching(c, additional) /\ f.legs # {} /\ f.legs \subseteq Unbatched(c, f.pipe)
                   /\ f.legs \subseteq c.declared.exporter /\ f.fix = FixFor(schema, f.legs)
  <2> TAKE f \in B
  <2>1. f.pipe \in Unbatching(c, additional) /\ f.legs # {} /\ f.legs \subseteq Unbatched(c, f.pipe) /\ f.fix = FixFor(schema, f.legs)
    BY BatchAdviceIs
  <2>2. \A id : ResolvedKind(c, "exporter", id) = "exporter" => id \in c.declared.exporter
    BY DEF ResolvedKind, NoKind
  <2> QED BY <2>1, <2>2 DEF Unbatched
<1>3. \A d : \A x \in Told(Again(d)) :
        \E q, id : x = <<q, id>> /\ q \in Unbatching(d, additional) /\ id \in Unbatched(d, q)
  <2> TAKE d
  <2> TAKE x \in Told(Again(d))
  <2>1. PICK f \in Again(d) : x \in {<<f.pipe, id>> : id \in f.legs}
    BY DEF Told
  <2>2. PICK id \in f.legs : x = <<f.pipe, id>>
    BY <2>1
  <2> QED BY <2>2, BatchAdviceIs
<1>4. \A legs : legs # {} =>
        /\ FixFor(schema, legs) = "queue" <=> \A id \in legs : schema.queue[id.type] \in {"batching", "open"}
        /\ FixFor(schema, legs) # "queue" =>
             (FixFor(schema, legs) = "processor" <=> \A id \in legs : schema.queue[id.type] \notin {"batching", "open"})
  <2> TAKE legs
  <2> DEFINE taking == {id \in legs : AcceptsQueueBatch(schema, id.type)}
  <2>1. /\ taking = legs <=> \A id \in legs : schema.queue[id.type] \in {"batching", "open"}
        /\ taking = {} <=> \A id \in legs : schema.queue[id.type] \notin {"batching", "open"}
    BY DEF AcceptsQueueBatch
  <2>2. FixFor(schema, legs) = IF taking = legs THEN "queue" ELSE IF taking = {} THEN "processor" ELSE "split"
    BY DEF FixFor
  <2> HIDE DEF taking
  <2> QED BY <2>1, <2>2
<1>5. New.type = BatchType
  OBVIOUS
<1> HIDE DEF B, Again, New, asked
<1>6. ASSUME NEW f \in B, f.fix = "queue"
      PROVE  /\ \A id \in f.legs : schema.queue[id.type] \in {"batching", "open"}
             /\ Told(Again(Resettled(c, f.legs))) \subseteq Told(B) \ {<<f.pipe, id>> : id \in f.legs}
  <2> DEFINE d == Resettled(c, f.legs)
  <2>1. \A id \in f.legs : schema.queue[id.type] \in {"batching", "open"}
    BY <1>2, <1>4, <1>6
  <2>2. /\ MoreProcessors(c, d, types) /\ MoreProcessors(d, c, types) /\ d.pipelines = c.pipelines
        /\ \A id \in c.declared.exporter :
             QueueBatching(d.settings[id]) = IF id \in f.legs THEN "queue" ELSE QueueBatching(c.settings[id])
    BY <1>2, ResettledIs
  <2> HIDE DEF d
  <2>3. ListsReceivers(d)
    BY <1>1, <2>2 DEF ListsReceivers
  <2>4. \A q \in Unbatching(d, additional) : q \in Unbatching(c, additional)
    <3> TAKE q \in Unbatching(d, additional)
    <3>1. q \in DOMAIN c.pipelines /\ ~UpstreamCovered(d, asked, q)
      BY <2>2 DEF Unbatching, asked
    <3>2. ~UpstreamCovered(c, asked, q)
      BY <1>1, <2>2, <3>1, CoverageGrows
    <3>3. HasProcessorType(d, q, types) <=> HasProcessorType(c, q, types)
      BY <2>2 DEF HasProcessorType, RefsOf
    <3> QED BY <2>2, <3>1, <3>2, <3>3 DEF Unbatching, asked
  <2>5. \A q \in DOMAIN c.pipelines : \A id \in Unbatched(d, q) : id \in Unbatched(c, q) /\ id \notin f.legs
    <3> TAKE q \in DOMAIN c.pipelines
    <3> TAKE id \in Unbatched(d, q)
    <3>1. \A i : ResolvedKind(d, "exporter", i) = ResolvedKind(c, "exporter", i)
      BY <2>2, SameWires
    <3>2. id \in Legs(c, q) /\ ResolvedKind(c, "exporter", id) = "exporter" /\ QueueBatching(d.settings[id]) = "none"
      BY <2>2, <3>1 DEF Unbatched, Legs, RefsOf
    <3>3. id \in c.declared.exporter
      BY <3>2 DEF ResolvedKind, NoKind
    <3> QED BY <2>2, <3>2, <3>3 DEF Unbatched
  <2>6. ASSUME NEW x \in Told(Again(d))
        PROVE  x \in Told(B) \ {<<f.pipe, id>> : id \in f.legs}
    <3>1. PICK q, id : x = <<q, id>> /\ q \in Unbatching(d, additional) /\ id \in Unbatched(d, q)
      BY <1>3
    <3>2. q \in Unbatching(c, additional) /\ id \in Unbatched(c, q) /\ id \notin f.legs
      BY <2>4, <2>5, <3>1 DEF Unbatching
    <3>3. <<q, id>> \in Told(B)
      BY <3>2, ToldAre DEF B
    <3> QED BY <3>1, <3>2, <3>3
  <2> QED BY <2>1, <2>6 DEF d
<1>7. ASSUME NEW f \in B, f.fix # "queue"
      PROVE  /\ f.fix = "processor" <=> \A id \in f.legs : schema.queue[id.type] \notin {"batching", "open"}
             /\ Told(Again(Extended(c, f.pipe, New))) \subseteq Told({g \in B : g.pipe # f.pipe})
             /\ ~\E g \in ProcessorOrder(Appended(f.pipe)) : g.at = Len(Appended(f.pipe))
  <2> DEFINE p == f.pipe
             d == Extended(c, p, New)
  <2>1. f.fix = "processor" <=> \A id \in f.legs : schema.queue[id.type] \notin {"batching", "open"}
    BY <1>2, <1>4, <1>7
  <2>2. p \in DOMAIN c.pipelines
    BY <1>2 DEF Unbatching
  <2> HIDE DEF p
  <2>0. d = Extended(c, p, New)
    OBVIOUS
  <2> HIDE DEF d
  <2>3. /\ MoreProcessors(c, d, types)
        /\ d.settings = c.settings /\ \A q \in DOMAIN c.pipelines : q # p => d.pipelines[q] = c.pipelines[q]
        /\ New \in RefsOf(d, p, "processor")
    BY <2>0, <2>2, ExtendedIs
  <2>4. \A q \in Unbatching(d, additional) : q \in Unbatching(c, additional) /\ q # p
    <3> TAKE q \in Unbatching(d, additional)
    <3>1. q \in DOMAIN c.pipelines /\ ~UpstreamCovered(d, asked, q) /\ ~HasProcessorType(d, q, types)
      BY <2>3 DEF Unbatching, asked, MoreProcessors
    <3>2. ~UpstreamCovered(c, asked, q)
      BY <1>1, <2>3, <3>1, CoverageGrows
    <3>3. q # p
      BY <1>5, <2>3, <3>1 DEF HasProcessorType
    <3>4. d.pipelines[q] = c.pipelines[q]
      BY <2>3, <3>1, <3>3
    <3>5. HasProcessorType(d, q, types) <=> HasProcessorType(c, q, types)
      BY <3>4 DEF HasProcessorType, RefsOf
    <3> QED BY <3>1, <3>2, <3>3, <3>4, <3>5 DEF Unbatching, asked
  <2>5. \A q \in DOMAIN c.pipelines : Unbatched(d, q) = Unbatched(c, q)
    <3> TAKE q \in DOMAIN c.pipelines
    <3>1. (\A i : ResolvedKind(d, "exporter", i) = ResolvedKind(c, "exporter", i)) /\ RefsOf(d, q, "exporter") = RefsOf(c, q, "exporter")
      BY <2>3, SameWires
    <3> QED BY <2>3, <3>1 DEF Unbatched, Legs
  <2>6. ASSUME NEW x \in Told(Again(d))
        PROVE  x \in Told({g \in B : g.pipe # p})
    <3>1. PICK q, id : x = <<q, id>> /\ q \in Unbatching(d, additional) /\ id \in Unbatched(d, q)
      BY <1>3
    <3>2. q \in Unbatching(c, additional) /\ q # p /\ id \in Unbatched(c, q)
      BY <2>4, <2>5, <3>1 DEF Unbatching
    <3>3. PICK g \in B : g.pipe = q /\ id \in g.legs
      BY <3>2, BatchAdviceIs DEF B
    <3>4. g \in {h \in B : h.pipe # p} /\ x \in {<<g.pipe, i>> : i \in g.legs}
      BY <3>1, <3>2, <3>3
    <3> QED BY <3>4 DEF Told
  <2>7. ASSUME NEW g \in ProcessorOrder(Appended(p)), g.at = Len(Appended(p))
        PROVE  FALSE
    <3> DEFINE old == c.pipelines[p].processor.refs
               refs == Append(old, New)
           Ids == WrittenIds \cup {New}
    <3>1. old \in Seq(Ids)
      <4>1. c.pipelines[p] \in WrittenPipes
        BY <2>2 DEF IsAdvisable
      <4>2. old \in Seq(WrittenIds)
        BY <4>1 DEF WrittenPipes, WrittenLists
      <4> HIDE DEF old
      <4>3. WrittenIds \subseteq Ids
        OBVIOUS
      <4> HIDE DEF Ids
      <4> QED BY <4>2, <4>3, SeqDef
    <3> HIDE DEF old
    <3>0. New \in Ids
      OBVIOUS
    <3> HIDE DEF Ids
    <3>2. refs \in Seq(Ids) /\ Len(refs) = Len(old) + 1 /\ refs[Len(old) + 1] = New
      BY <3>0, <3>1, AppendProperties
    <3>3. Appended(p) = refs
      BY DEF old
    <3> HIDE DEF refs
    <3>4. g \in ProcessorOrder(refs) /\ g.at = Len(refs) /\ refs[g.at].type = BatchType
      BY <1>5, <2>7, <3>2, <3>3
    <3>5. g.at \in 1..Len(refs) /\ Len(refs) \in Nat
      BY <3>2, <3>4, OrderFindings, LenProperties
    <3>6. ~(g.at < Len(refs))
      BY <3>4, <3>5
    <3> QED BY <3>2, <3>4, <3>6, OrderFindings DEF BatchType, LimiterType, Enriching
  <2> QED BY <2>1, <2>6, <2>7 DEF d, p
<1>8. \A legs : Resettled(c, legs)
        = [c EXCEPT !.settings = [id \in DOMAIN @ |->
             IF id \in legs THEN [form |-> "mapping", queue |-> "mapping", batch |-> TRUE, enabled |-> "absent", storage |-> "absent"] ELSE @[id]]]
  BY DEF Resettled
<1>9. \A p : Extended(c, p, New) = [c EXCEPT !.pipelines[p].processor.refs = Appended(p)]
  BY DEF Extended
<1> QED BY <1>1, <1>6, <1>7, <1>8, <1>9 DEF HintsCanBeFollowed, Again, New

-----------------------------------------------------------------------------
(* What holds of the answers. *)

\* A list that processor-order has nothing to say of is in order.
LEMMA ArrangedEndsInOrder ==
  ASSUME NEW refs, NEW moved, Arranged(refs, moved), ProcessorOrder(refs) = {},
         NEW i \in DOMAIN refs, NEW j \in DOMAIN refs, i < j
  PROVE  /\ refs[j].type # LimiterType /\ refs[i].type # BatchType
         /\ ~(refs[i].type \in Sampling /\ refs[j].type \in Enriching)
<1>1. Len(refs) \in Nat /\ DOMAIN refs = 1..Len(refs) /\ i \in Nat /\ j \in Nat /\ 1 <= i /\ j <= Len(refs)
  BY LenProperties DEF Arranged
<1>2. \A k \in DOMAIN refs : k > 1 => refs[k].type # LimiterType
  <2> SUFFICES ASSUME NEW k \in DOMAIN refs, k > 1, refs[k].type = LimiterType PROVE FALSE
    OBVIOUS
  <2>1. [rule |-> "limiter", at |-> k, to |-> 1] \in ProcessorOrder(refs)
    BY DEF ProcessorOrder
  <2> QED BY <2>1
<1>3. refs[i].type # BatchType
  <2> SUFFICES ASSUME refs[i].type = BatchType PROVE FALSE
    OBVIOUS
  <2>1. i + 1 \in DOMAIN refs /\ i + 1 > 1 /\ i < Len(refs)
    BY <1>1
  <2>2. BatchIsOverrun(refs, i)
    BY <1>2, <2>1 DEF BatchIsOverrun
  <2>3. [rule |-> "batch", at |-> i, to |-> Len(refs)] \in ProcessorOrder(refs)
    BY <2>2 DEF ProcessorOrder
  <2> QED BY <2>3
<1>4. ~(refs[i].type \in Sampling /\ refs[j].type \in Enriching)
  <2> SUFFICES ASSUME refs[i].type \in Sampling, refs[j].type \in Enriching PROVE FALSE
    OBVIOUS
  <2>1. i \in SamplersBefore(refs, j)
    BY <1>1 DEF SamplersBefore
  <2>2. [rule |-> "sampling", at |-> j, to |-> Min(SamplersBefore(refs, j))] \in ProcessorOrder(refs)
    BY <2>1 DEF ProcessorOrder
  <2> QED BY <2>2
<1>5. refs[j].type # LimiterType
  BY <1>1, <1>2
<1> QED BY <1>3, <1>4, <1>5

\* The walk says what every way in says.
LEMMA CoverageIs ==
  ASSUME NEW c \in FiniteConfigs, NEW p \in DOMAIN c.pipelines, NEW start, start = <<p, HasProcessor(c, p, BatchTypes)>>
  PROVE  UpstreamCovered(c, BatchAsked, p)
           <=> /\ ~HasDynamicRefs(c, "exporter")
               /\ \A s \in AllInto(c, {start}) : ~Leaks(c, s) /\ s \notin AllInto(c, Into(c, s))
<1>1. ListsReceivers(c)
  BY QuestionsAre
<1>2. IsGraph(c, BatchAsked)
  BY <1>1, WrittenIsGraph
<1>3. UpstreamCovered(c, BatchAsked, p)
        <=> ~HasDynamicRefs(c, "exporter") /\ \E C : Covering(c, BatchAsked, C) /\ <<p, FALSE>> \in C
  BY <1>2, UpstreamCoveredIs
<1>4. (\E C : Covering(c, BatchAsked, C) /\ <<p, FALSE>> \in C)
        <=> \A s \in AllInto(c, {start}) : ~Leaks(c, s) /\ s \notin AllInto(c, Into(c, s))
  <2> DEFINE ways == AllInto(c, {start})
  <2>1. ways = AllInto(c, {start})
    OBVIOUS
  <2> HIDE DEF ways
  <2>2. (\E C : Covering(c, BatchAsked, C) /\ <<p, FALSE>> \in C)
          <=> \A s \in ways : ~Leaks(c, s) /\ s \notin AllInto(c, Into(c, s))
    BY <1>1, <2>1, CoveringIsEveryPath
  <2> QED BY <2>2 DEF ways
<1> QED BY <1>3, <1>4

\* Each answer is that of its question, and a list is moved as Arranged says.
PipelineIInv ==
  /\ task \in AdviceQuestions \cup UpstreamQuestions \cup ArrangeQuestions
  /\ Answered("advice") => Advice
  /\ Answered("upstream") => answer.covered = UpstreamCovered(task.config, BatchAsked, task.from)
  /\ Answered("arrange") => Arranged(answer.refs, answer.moved)

\* What a question of each kind holds.
LEMMA PipelineQuestionsAre ==
  ASSUME NEW t \in AdviceQuestions \cup UpstreamQuestions \cup ArrangeQuestions
  PROVE  /\ t.of = "advice" => IsAdvisable(t.config) /\ t.schema.decoding \in {"weak", "strict", "unknown"}
         /\ t.of = "upstream" => t.config \in FiniteConfigs /\ t.from \in DOMAIN t.config.pipelines
         /\ t.of = "arrange" => t.refs \in Seq(WrittenIds) /\ OnceEach(t.refs)
<1>1. CASE t \in AdviceQuestions
  BY <1>1, AdviceQuestionsAre
<1>2. CASE t \in UpstreamQuestions
  BY <1>2 DEF UpstreamQuestions
<1>3. CASE t \in ArrangeQuestions
  BY <1>3 DEF ArrangeQuestions
<1> QED BY <1>1, <1>2, <1>3

\* Each answer keeps it.
LEMMA PipelineStepKeeps ==
  ASSUME PipelineIInv, [PipelineStep \/ Upstream]_asking
  PROVE  PipelineIInv'
<1>1. CASE Advise
  BY <1>1 DEF Advise, PipelineIInv, Asked, Answered, Advice
<1>2. CASE Arrange
  <2>1. task.of = "arrange" /\ task' = task /\ answer' = [refs |-> task.refs, moved |-> <<>>]
    BY <1>2 DEF Arrange, Asked
  <2>2. task.refs \in Seq(WrittenIds) /\ OnceEach(task.refs)
    BY <2>1, PipelineQuestionsAre DEF PipelineIInv
  <2>3. <<>> \in Seq(WrittenIds) /\ DOMAIN <<>> = {}
    OBVIOUS
  <2>4. Arranged(task.refs, <<>>)
    BY <2>2, <2>3 DEF Arranged
  <2>5. Arranged(answer'.refs, answer'.moved)
    BY <2>1, <2>4
  <2> QED BY <2>1, <2>5 DEF PipelineIInv, Answered, Arranged, InPlace
<1>3. CASE Move
  <2>1. PICK f \in ProcessorOrder(answer.refs) :
          answer' = [refs |-> Moved(answer.refs, f.at, f.to), moved |-> Append(answer.moved, answer.refs[f.at])]
    BY <1>3 DEF Move, Moved
  <2>2. task.of = "arrange" /\ task' = task /\ Arranged(answer.refs, answer.moved)
    BY <1>3 DEF Move, Answered, PipelineIInv
  <2>3. Arranged(Moved(answer.refs, f.at, f.to), Append(answer.moved, answer.refs[f.at]))
    BY <2>2, MoveArranged
  <2>4. Arranged(answer'.refs, answer'.moved)
    BY <2>1, <2>3
  <2> QED BY <2>2, <2>4 DEF PipelineIInv, Answered, Arranged, InPlace
<1>4. CASE Upstream
  <2>1. /\ task.of = "upstream" /\ task' = task
        /\ answer' = [covered |-> UpstreamCovered(task.config, BatchAsked, task.from)]
    BY <1>4 DEF Upstream, Asked, BatchAsked
  <2> QED BY <2>1 DEF PipelineIInv, Answered
<1>5. CASE UNCHANGED asking
  BY <1>5 DEF asking, PipelineIInv, Answered, Advice, Arranged, InPlace
<1> QED BY <1>1, <1>2, <1>3, <1>4, <1>5 DEF PipelineStep

\* It says what AdviceHolds says.
LEMMA PipelineInvIsAdvice == PipelineIInv => AdviceHolds
<1> SUFFICES ASSUME PipelineIInv PROVE AdviceHolds
  OBVIOUS
<1>1. Answered("advice") => AdviceSurvivesSupply /\ EveryRawWayIsReported /\ HintsCanBeFollowed
  <2> SUFFICES ASSUME Answered("advice") PROVE AdviceSurvivesSupply /\ EveryRawWayIsReported /\ HintsCanBeFollowed
    OBVIOUS
  <2>1. Advice /\ IsAdvisable(task.config) /\ task.schema.decoding \in {"weak", "strict", "unknown"}
    BY PipelineQuestionsAre DEF PipelineIInv, Answered
  <2> QED BY <2>1, AdviceSurvives, RawWaysReported, HintsFollowed
<1>2. MovesEndInOrder
  <2> SUFFICES ASSUME Answered("arrange") PROVE MovesEndInOrder
    BY DEF MovesEndInOrder
  <2>1. Arranged(answer.refs, answer.moved)
    BY DEF PipelineIInv
  <2>2. \A i, j \in DOMAIN answer.moved : answer.moved[i] = answer.moved[j] => i = j
    BY <2>1 DEF Arranged
  <2> QED BY <2>1, <2>2, ArrangedEndsInOrder DEF MovesEndInOrder
<1>3. CoverageIsEveryPath
  <2> SUFFICES ASSUME Answered("upstream") PROVE CoverageIsEveryPath
    BY DEF CoverageIsEveryPath
  <2>1. /\ task.config \in FiniteConfigs /\ task.from \in DOMAIN task.config.pipelines
        /\ answer.covered = UpstreamCovered(task.config, BatchAsked, task.from)
    BY PipelineQuestionsAre DEF PipelineIInv, Answered
  <2> QED BY <2>1, CoverageIs DEF CoverageIsEveryPath
<1> QED BY <1>1, <1>2, <1>3 DEF AdviceHolds

\* Whatever the config, the schema, the list and the types asked about: advice
\* on a pipeline is warranted, complete and can be taken, the walk upstream
\* with its memory of visits says what every way in says, and the moves of
\* processor-order end in order (missing-batch, missing-memory-limiter,
\* no-persistent-queue, processor-order, UpstreamCovered).
THEOREM AdviceStaysGood == PipelineSpec => []AdviceHolds
<1>1. PipelineInit => PipelineIInv
  BY DEF PipelineInit, PipelineIInv, Answered
<1>2. PipelineIInv /\ [PipelineStep \/ Upstream]_asking => PipelineIInv'
  BY PipelineStepKeeps
<1>3. PipelineIInv => AdviceHolds
  BY PipelineInvIsAdvice
<1> QED BY <1>1, <1>2, <1>3, PTL DEF PipelineSpec

=============================================================================
