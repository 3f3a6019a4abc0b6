---------------------------- MODULE MCSchemaStore ----------------------------
(* Instances of SchemaStore for TLC. *)
EXTENDS SchemaStore, TLC

\* "2" is a file named without its v, and "index" the name an index is listed
\* under by a directory that cannot read it.
MCNames == {"v1", "v2", "2", "index"}
MCNormalOf == [n \in MCNames |-> IF n = "2" THEN "v2" ELSE n]
MCAgeOf == [n \in MCNames |-> CASE n = "v1" -> 1 [] n = "index" -> 0 [] OTHER -> 2]

Good(n) == Schema(n, "contrib", FALSE)
Nothing == [n \in MCNames |-> Missing]
Holding(answers) == answers @@ Nothing

Held == {Nothing, Holding("v1" :> Good("v1")), Holding("v2" :> Good("v2")),
         Holding("v1" :> Good("v1") @@ "v2" :> Good("v2")),
         Holding("v2" :> Unread),
         Holding("v2" :> Schema("v1", "contrib", FALSE)),
         Holding("v2" :> Schema("v2", "core", FALSE) @@ "v1" :> Good("v1")),
         Holding("v2" :> Schema("v2", "unset", TRUE))}

Location(k, s, i, h, f) == [kind |-> k, secure |-> s, index |-> i, held |-> h, flat |-> f]

Remotes == {Location("remote", TRUE, i, h, Nothing) :
              i \in {NoIndex, Index({"v1"}), Index({"v1", "v2"})}, h \in Held}
Registries == {Location("dir", TRUE, i, h, Nothing) : i \in {BadIndex, Index({"v1", "v2"})}, h \in Held}
Flats == {Location("dir", TRUE, NoIndex, Nothing, f) : f \in Held \cup {Holding("2" :> Good("v2"))}}
Paths == {Location(k, TRUE, NoIndex, [n \in MCNames |-> a], Nothing) :
            k \in {"path", "url"}, a \in {Good("v1"), Unread, Missing}}
Insecure == {Location("remote", FALSE, Index({"v1"}), Holding("v1" :> Good("v1")), Nothing)}

Stores == {<<l>> : l \in Remotes \cup Registries \cup Flats}
            \cup {<<l, m>> : l \in Remotes \cup Registries \cup Flats \cup Paths \cup Insecure,
                             m \in {x \in Remotes \cup Flats : x.held \in {Nothing, Holding("v1" :> Good("v1"))}}
                                     \cup {Location("dir", TRUE, Index({"v1", "v2"}), Holding("v2" :> Good("v2")), Nothing)}}

MCCases ==
  {[locations |-> s, asked |-> a, distribution |-> "contrib", allowInsecure |-> FALSE,
    allowFallback |-> f, memoize |-> m] :
      s \in Stores, a \in {"v2", "latest"}, f \in BOOLEAN, m \in BOOLEAN}
=============================================================================
