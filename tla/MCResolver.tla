------------------------------- MODULE MCResolver -------------------------------
(***************************************************************************)
(* One world for every run of the resolver, in three quarters that share   *)
(* the hosts, the settings and the on-disk cache:                          *)
(*   - local files, environment variables and `missing` (paths a, b, V):   *)
(*     cycles, repeated imports, the three modes, nested alternatives, and *)
(*     every way a local import can fail;                                  *)
(*   - two remote hosts p and q and a local file that starts from them     *)
(*     (paths c, d, W): headers written, forwarded and withheld, the CORS  *)
(*     judgment, variables and local paths named by remote documents, and  *)
(*     hosts that do not answer;                                           *)
(*   - imports with integrity checks (paths e, f): hits, misses, files     *)
(*     that are not what they are filed under, and digests the fetched     *)
(*     value does not have.                                                *)
(* What a location holds may change from one read of it to the next.       *)
(***************************************************************************)
EXTENDS MCImports

WorldValues == SUBSET {"x", "f", "_f", "text"}
None == Plain(Nowhere)

(* The local quarter. *)
A == Plain(LocalTo("Here", "a"))
B == Plain(LocalTo("Parent", "b"))
V == Plain(EnvTo("V"))

(* (A ? V), A, B as Text *)
Twice == [All({}, <<A, V, A, As(B, "RawText")>>) EXCEPT
            !.top = <<5, 3, 4>>,
            !.alternatives = 5 :> [left |-> <<1>>, right |-> <<2>>]]
(* ([B, A] ? (None ? B)), B *)
Nested == [All({}, <<B, A, None, B, B>>) EXCEPT
            !.top = <<7, 5>>,
            !.alternatives = (7 :> [left |-> <<1, 2>>, right |-> <<6>>])
                          @@ (6 :> [left |-> <<3>>, right |-> <<4>>])]
(* A as Location, V as Text *)
Odd == All({}, <<As(A, "Location"), As(V, "RawText")>>)

LocalRoots == {Root(Twice, Stdin), Root(Nested, Stdin),
               Root(Odd, At("Local", "none", "a")),
               Root(All({}, <<A>>), At("NoImport", "none", "nil"))}

LocalAt(path) ==
    CASE path = "a" -> {Served(Leaf({"x"})), Served(All({"x"}, <<B>>)), Absent,
                        Served(Malformed(Leaf({})))}
      [] path = "b" -> {Served(Leaf({"x"})), Served(All({}, <<A, V>>)),
                        Served(IllTyped(Leaf({}))), Homeless}
      [] path = "V" -> {Served(Leaf({})), Served(All({}, <<B>>)), Absent}
      [] OTHER -> {Absent}

(* The remote quarter. *)
(* https://p/c using token, ./d, https://q/c, https://p/d             *)
PcWithToken == Using(Plain(UrlTo("p", "c")), "token")
Rd == Plain(LocalTo("Here", "d"))
Qc == Plain(UrlTo("q", "c"))
Pd == Plain(UrlTo("p", "d"))
W == Plain(EnvTo("W"))

Token == All({}, <<PcWithToken, Pd>>)
Fallback == [All({}, <<Qc, Rd>>) EXCEPT
                !.top = <<3>>,
                !.alternatives = 3 :> [left |-> <<1>>, right |-> <<2>>]]
Leaking == All({}, <<IllTypedUsing(Qc)>>)

X == Leaf({"x"})
Up == All({}, <<Rd, As(W, "Location"), As(Qc, "RawText")>>)
Over == All({"x"}, <<Qc>>)                     \* https://q/c
Env == All({}, <<W>>)                          \* env:W
(* ./s, which leads to q, and ./u, of which no URL can be made              *)
Astray == All({}, <<Plain(LocalTo("Here", "s")), Plain(LocalTo("Here", "u"))>>)
Home == All({}, <<Plain(LocalTo("Home", "d"))>>)   \* ~/d

RemoteRoots == {Root(Token, Stdin), Root(Fallback, At("Local", "none", "c")),
                Root(Fallback, At("Remote", "p", "c")),
                Root(Up, At("Remote", "p", "c")), Root(Leaking, Stdin)}

RemoteAt(host, path) ==
    CASE host = "p" /\ path = "c" -> {Served(Up), Served(Over), Served(Astray), Absent}
      [] host = "p" /\ path = "d" -> {Served(X), Served(Env), Served(Over)}
      [] host = "q" -> {Granting(<<"p">>, Up), Granting(<<"*">>, X), Served(X),
                        Granting(<<"p", "*">>, X), Granting(<<"*">>, Home)}
      [] OTHER -> {Served(X), Absent, Served(Over)}

(* The hashed quarter. *)
E == Plain(LocalTo("Here", "e"))
F == Plain(LocalTo("Here", "f"))

HashedRoots == {
    Root(All({}, <<Hashed(E, {"_f"}), E, Hashed(E, {"x"})>>), Stdin),
    Root([All({}, <<Hashed(E, {"x"}), F, F>>) EXCEPT
             !.top = <<4, 3>>,
             !.alternatives = 4 :> [left |-> <<1>>, right |-> <<2>>]], Stdin),
    Root(All({}, <<F, Hashed(None, {"x"})>>), Stdin),
    Root(All({}, <<Hashed(As(E, "RawText"), {"x"}), Hashed(F, {"x"})>>), Stdin),
    Root(All({}, <<Hashed(As(E, "Location"), {"_f"})>>), Stdin)}

HashedAt(path) ==
    CASE path = "e" -> {Served(Leaf({"x"})), Served(Leaf({"f"})), Absent}
      [] path = "f" -> {Served(All({}, <<Hashed(E, {"_f"})>>)),
                        Served(All({}, <<Hashed(E, {"x"})>>)),
                        Served(IllTyped(Leaf({})))}
      [] OTHER -> {Absent}

WorldPaths == {"a", "b", "V", "c", "d", "W", "s", "u", "e", "f", "nil"}
WorldServe(kind, headers) ==
    CASE kind.path \in {"a", "b", "V"} -> LocalAt(kind.path)
      [] kind.path \in {"e", "f"} -> HashedAt(kind.path)
      [] OTHER -> RemoteAt(kind.host, kind.path)
WorldRoots == LocalRoots \cup RemoteRoots \cup HashedRoots
WorldDocuments ==
    {r.doc : r \in WorldRoots}
    \cup UNION {{s.doc : s \in WorldServe([path |-> p, host |-> h], "none")} :
                p \in WorldPaths, h \in {"p", "q", "none"}}
WorldDisks == {<<>>, ({"x"} :> {"x"}) @@ ({"_f"} :> {"_f"}),
               ({"_f"} :> {"f"}) @@ ({"x"} :> {"text"})}
WorldSettings == {s \in AllSettings :
                    /\ s.allow_remote = s.use_cache
                    /\ ~s.cwd_readable => s.use_cache}
=============================================================================
