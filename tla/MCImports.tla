------------------------------- MODULE MCImports -------------------------------
(***************************************************************************)
(* Values for the constants of ImportResolution that the worlds of the     *)
(* model-checking modules share, and shorthands to write documents with.   *)
(*                                                                         *)
(* A value is the set of the bodies it was normalized from, which is all   *)
(* the digests need to tell apart.  "f" stands for a function with a named *)
(* binder and "_f" for its alpha-normal form.                              *)
(***************************************************************************)
EXTENDS ImportProperties, FiniteSets, TLC

(* "s" and "u" stand for paths that are an authority when joined to a URL:  *)
(* that of the host q, and one that is refused.                             *)
MCJoin(base, prefix, path) ==
    CASE base.tag = "Remote" /\ path = "s" -> [host |-> "q", path |-> "d"]
      [] base.tag = "Remote" /\ path = "u" -> [host |-> "refused", path |-> path]
      [] OTHER -> [host |-> base.host, path |-> path]
MCEval(doc, vals) == doc.body \cup UNION {vals[i] : i \in DOMAIN vals}
MCTextOf(doc) == {"text"}
MCPlaceOf(kind) == {"text"}
MCAlpha(v) == {IF b = "f" THEN "_f" ELSE b : b \in v}
MCSha(v) == v

AllSettings == [allow_remote : BOOLEAN, use_cache : BOOLEAN,
                cwd_readable : BOOLEAN]
EmptyDisk == {<<>>}

NoNodes == [S \in {} |-> S]
Leaf(body) == [top |-> <<>>, imports |-> NoNodes, alternatives |-> NoNodes,
               body |-> body, parses |-> TRUE, typechecks |-> TRUE]
Malformed(doc) == [doc EXCEPT !.parses = FALSE]
IllTyped(doc) == [doc EXCEPT !.typechecks = FALSE]

(* A document that imports each of a sequence of imports.                   *)
All(body, imps) == [Leaf(body) EXCEPT !.top = [i \in DOMAIN imps |-> i],
                                      !.imports = imps]

LocalTo(prefix, path) ==
    [tag |-> "Local", prefix |-> prefix, host |-> "none", path |-> path]
UrlTo(host, path) ==
    [tag |-> "Remote", prefix |-> "Here", host |-> host, path |-> path]
EnvTo(name) ==
    [tag |-> "Env", prefix |-> "Here", host |-> "none", path |-> name]
Nowhere ==
    [tag |-> "Missing", prefix |-> "Here", host |-> "none", path |-> "nil"]

Plain(target) == [target |-> target, mode |-> "Code", hash |-> {},
                  headers |-> "none", headersTypecheck |-> TRUE]
Hashed(import, v) == [import EXCEPT !.hash = {v}]
As(import, mode) == [import EXCEPT !.mode = mode]
Using(import, headers) == [import EXCEPT !.headers = headers]
IllTypedUsing(import) == [import EXCEPT !.headersTypecheck = FALSE]

Served(doc) == [status |-> "served", doc |-> doc, allow_origin |-> <<>>]
Granting(origins, doc) == [Served(doc) EXCEPT !.allow_origin = origins]
Absent == [Served(Leaf({})) EXCEPT !.status = "absent"]
Homeless == [Absent EXCEPT !.status = "noHome"]

At(tag, host, path) ==
    [kind |-> [tag |-> tag, host |-> host, path |-> path],
     mode |-> "Code", headers |-> "none"]
Stdin == At("Missing", "none", "nil")
Root(doc, base) == [doc |-> doc, base |-> base]
=============================================================================
