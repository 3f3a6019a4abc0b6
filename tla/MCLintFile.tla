----------------------------- MODULE MCLintFile -----------------------------
(* Instances of LintFile for TLC. *)
EXTENDS LintFile, TLC

MCRuleList == <<"debug", "unknown">>
MCOwnLevel == [debug |-> "warning", unknown |-> "error"]

None == [r \in {} |-> "off"]

Clean  == [broken |-> FALSE, finds |-> [r \in Rules |-> {}], directives |-> <<>>]
Broken == [Clean EXCEPT !.broken = TRUE]
Found2 == [Clean EXCEPT !.finds = [debug   |-> {<<2, "rule">>, <<3, "info">>},
                                   unknown |-> {<<2, "rule">>}]]
Excepted == [Found2 EXCEPT !.directives = (1 :> "unknown")]
Misspelt == [Found2 EXCEPT !.directives = (1 :> "unknwon") @@ (2 :> "debug")]

-----------------------------------------------------------------------------
(* Every way of naming one rule, on a plain file. *)

Levels == {None, "debug" :> "off", "debug" :> "error"}
Names  == {{}, {"debug"}}

\* An entry for any path, and for another file.
Entries == {[paths |-> p, disable |-> d, severity |-> s] :
              p \in {{"a.yaml", "-"}, {"b.yaml"}}, d \in Names,
              s \in {None, "debug" :> "info"}}
Overrides == {<<>>} \cup {<<e>> : e \in Entries}
               \cup {<<e, f>> : e \in {x \in Entries : x.disable = {}}, f \in {x \in Entries : x.disable # {}}}

Files == {[default |-> d, enable |-> e, disable |-> x, severity |-> s, overrides |-> o] :
            d \in {"unset", "none"}, e \in Names, x \in Names, s \in Levels, o \in Overrides}
Flags == {[default |-> d, enable |-> e, disable |-> x, severity |-> s] :
            d \in {"unset", "none"}, e \in Names, x \in Names, s \in Levels}

PolicyCases ==
  [file : Files, flags : Flags, ignoreMissing : {FALSE}, minSeverity : {"info"}, failOn : {"error"},
   path : {"a.yaml", "b.yaml", "-"}, embedded : {FALSE}, manifest : {FALSE}, docs : {<<<<Found2>>>>}]

-----------------------------------------------------------------------------
(* Every shape of file, under a few policies. *)

NoSettings == [default |-> "unset", enable |-> {}, disable |-> {}, severity |-> None, overrides |-> <<>>]
NoFlags    == [default |-> "unset", enable |-> {}, disable |-> {}, severity |-> None]
Relevelled == [NoSettings EXCEPT !.overrides =
                 <<[paths |-> {"a.yaml"}, disable |-> {}, severity |-> ("unknown" :> "warning")]>>]
Typo       == [NoSettings EXCEPT !.disable = {"unknwon"}]

Configs == {Clean, Broken, Found2, Excepted, Misspelt}
Documents == {<<>>, Malformed} \cup {<<x>> : x \in Configs} \cup {<<x, y>> : x, y \in Configs}
Streams == {<<x>> : x \in Documents} \cup {<<x, y>> : x \in Documents, y \in {<<>>, <<Found2>>, Malformed}}

SourceCases(paths, embedded, manifest, docs) ==
  [file : {NoSettings, Relevelled, Typo}, flags : {NoFlags}, ignoreMissing : BOOLEAN,
   minSeverity : {"info", "error"}, failOn : {"warning", "error"},
   path : paths, embedded : {embedded}, manifest : manifest, docs : docs]

MCCases ==
  PolicyCases
    \cup SourceCases({"a.yaml", "b.yaml"}, FALSE, BOOLEAN, {<<<<x>>>> : x \in Configs})
    \cup SourceCases({"a.yaml"}, TRUE, {TRUE}, Streams)

\* A plain file after any of them, standard input never.
MCFilesBeside(c) ==
  {[c EXCEPT !.path = p, !.embedded = FALSE, !.manifest = FALSE, !.docs = <<<<Found2>>>>] :
     p \in {"a.yaml", "b.yaml"}}
=============================================================================
