--------------------------- MODULE ImportProperties ---------------------------
(***************************************************************************)
(* What makes the import resolver of ImportResolution correct.             *)
(***************************************************************************)
EXTENDS ImportResolution, FiniteSets

Outcomes == [tag : {"running", "failing", "resolved", "failed", "panicked"},
             recoverable : BOOLEAN, cause : Causes \cup {"none"}]
Addresses == (1..Len(loaded)) \X Ids
PartialFunction(f, S, T) == f \in [DOMAIN f -> T] /\ DOMAIN f \subseteq S

(* An activation works on nodes of a document that was loaded, and the one  *)
(* below it is at the import, or the alternative, it was started for.       *)
Frame == [inst : Nat, list : Seq(Ids), at : Nat \ {0},
          role : {"document", "left", "right"}, level : Nat]
FrameOK(fr, docs) ==
    fr.inst \in 1..Len(docs) /\ fr.list \in Seq(Nodes(docs[fr.inst].doc))
StartedFrom(fr, caller, docs) ==
    /\ caller.at <= Len(caller.list)
    /\ IF fr.role = "document"
       THEN caller.list[caller.at] \in DOMAIN docs[caller.inst].doc.imports
       ELSE /\ caller.list[caller.at] \in DOMAIN docs[caller.inst].doc.alternatives
            /\ fr.inst = caller.inst
FramesOK(fs, docs) ==
    /\ fs \in Seq(Frame)
    /\ fs # <<>> /\ fs[1].role = "document"
    /\ \A f \in 1..Len(fs) : FrameOK(fs[f], docs)
    /\ \A f \in 2..Len(fs) : StartedFrom(fs[f], fs[f - 1], docs)

(* Every variable has its type, and names only what exists: results are     *)
(* indices into the arena of results, addresses and activations name        *)
(* documents that were loaded (ctxt.rs).                                    *)
TypeOK ==
    /\ settings \in [allow_remote : BOOLEAN, use_cache : BOOLEAN,
                     cwd_readable : BOOLEAN]
    /\ loaded \in Seq(Parsed)
    /\ results \in Seq(Values)
    /\ PartialFunction(result, Addresses, 1..Len(results))
    /\ PartialFunction(selected, Addresses, BOOLEAN)
    /\ PartialFunction(mem_cache, ImportLocation, 1..Len(results))
    /\ PartialFunction(disk, Hashes, Values)
    /\ stack \in Seq(ImportLocation)
    /\ FramesOK(frames, loaded)
    /\ outcome \in Outcomes

-----------------------------------------------------------------------------
Import_(n, i) == loaded[n].doc.imports[i]
LocOf(n, i) == Chain(loaded[n].base, Import_(n, i))

(* The cycle stack is exactly the chain of imports under way, on every path *)
(* out of a fetch: with_cycle_detection warns that an error that skipped    *)
(* the pop would leave "the stack messed up".                               *)
StackIsCallChain ==
    /\ frames[1].level = 0
    /\ Len(stack) = Top.level
    /\ \A f \in DOMAIN frames : f > 1 =>
          IF frames[f].role = "document"
          THEN /\ frames[f].level = frames[f - 1].level + 1
               /\ stack[frames[f].level] = Chain(BaseAt(f - 1), ImportAt(f - 1))
          ELSE frames[f].level = frames[f - 1].level

(* No location is being resolved twice at once, and none that is being      *)
(* resolved already has an entry in the in-memory cache: fetch_import looks *)
(* there first, so an entry for a pending location would hide a cycle.      *)
PendingLocationsAreDistinctAndUncached ==
    /\ \A i, j \in DOMAIN stack : stack[i] = stack[j] => i = j
    /\ \A i \in DOMAIN stack : stack[i] \notin DOMAIN mem_cache

(* "imports should all have been resolved at this stage" (ctxt.rs): when a  *)
(* document is typechecked, and when the call succeeds, each import and     *)
(* alternative the expression uses has its result, whatever was left half   *)
(* resolved in the side of an alternative that was given up.                *)
UsedNodesAreSettled ==
    (AtEnd /\ Top.role = "document") \/ outcome.tag = "resolved" =>
        \A x \in Used(Top.inst) :
            IF x \in DOMAIN DocAt(Depth).imports
            THEN <<Top.inst, x>> \in DOMAIN result
            ELSE <<Top.inst, x>> \in DOMAIN selected

(* An import with an integrity check has, wherever the value came from, the *)
(* digest it asks for: disk, in-memory cache or a fetch (resolve.rs,        *)
(* check_hash and the cache hit that skips it).                             *)
IntegrityHonoured ==
    \A a \in DOMAIN result :
        LET import == Import_(a[1], a[2])
            v == results[result[a]]
        IN  import.mode = "Code" =>
                \A h \in import.hash : Sha(v) = h \/ Sha(Alpha(v)) = h

(* Two imports without an integrity check that chain to one location (same  *)
(* kind, mode and headers) have one result, even when what the location     *)
(* holds changes during the call (mem_cache).                               *)
OneResultPerLocation ==
    \A a, b \in DOMAIN result :
        /\ Import_(a[1], a[2]).hash = {}
        /\ Import_(b[1], b[2]).hash = {}
        /\ LocOf(a[1], a[2]) = LocOf(b[1], b[2])
        => result[a] = result[b]

(* With remote imports refused, no remote location is ever fetched or       *)
(* cached, however it was written and however deep the importing document   *)
(* is (fetch_import, the check made after chaining).                        *)
RemoteRefused ==
    ~settings.allow_remote =>
        /\ \A i \in DOMAIN stack : stack[i].kind.tag # "Remote"
        /\ \A l \in DOMAIN mem_cache : l.kind.tag # "Remote"

(* A relative import of a remote document that Url::join takes elsewhere.   *)
Strays(n, i) ==
    /\ IsRelative(Import_(n, i).target)
    /\ loaded[n].base.kind.tag = "Remote"
    /\ LocOf(n, i).kind.host # loaded[n].base.kind.host

(* A header list goes only to the host whose `using` clause gave it, and to *)
(* the hosts that relative imports lead to: it is forwarded along these and *)
(* never to an absolute import.  A relative import mostly stays on the host *)
(* of its document; where it strays the headers go with it, for chain does  *)
(* not ask which host Url::join returned.                                   *)
HeadersTravelByRelativeImports ==
    \A l \in (DOMAIN mem_cache) \cup {stack[i] : i \in DOMAIN stack} :
        l.headers # NoHeaders =>
            /\ l.kind.tag = "Remote"
            /\ \E n \in DOMAIN loaded : \E i \in DOMAIN loaded[n].doc.imports :
                  \/ /\ Import_(n, i).headers = l.headers
                     /\ Import_(n, i).target.host = l.kind.host
                  \/ /\ Strays(n, i)
                     /\ LocOf(n, i).headers = l.headers
                     /\ LocOf(n, i).kind.host = l.kind.host

(* What a remote document imports, directly or through what it imports,     *)
(* comes from remote locations, except for locations taken `as Location`    *)
(* and values that the on-disk cache holds under a digest (chain).          *)
RemoteCodeReadsOnlyRemote ==
    /\ \A i, j \in DOMAIN stack :
          i < j /\ stack[i].kind.tag = "Remote" => stack[j].kind.tag = "Remote"
    /\ \A a \in DOMAIN result :
          LET import == Import_(a[1], a[2]) IN
          /\ loaded[a[1]].base.kind.tag = "Remote"
          /\ import.hash = {} /\ import.mode # "Location"
          => LocOf(a[1], a[2]).kind.tag = "Remote"

-----------------------------------------------------------------------------
(* `?` goes on with its right side exactly when what failed, however deep,  *)
(* is that something could not be retrieved (Error::new, and                *)
(* inheriting_recoverability through every wrapping).                       *)
FallsBackOnRetrievalOnly ==
    /\ outcome.tag = "failing" /\ outcome'.tag = "running"
          => outcome.cause \in Retrieval
    /\ outcome.tag = "failing" /\ outcome'.tag = "failing"
          /\ Top.role = "left" => outcome.cause \notin Retrieval
FallbackRule == [][FallsBackOnRetrievalOnly]_vars

(* What an expression may already have read never changes: results of       *)
(* imports, choices of sides, entries of the in-memory cache (ctxt.rs,      *)
(* OnceCell and FrozenVec).                                                 *)
Extends(g, f) == \A x \in DOMAIN f : x \in DOMAIN g /\ g[x] = f[x]
FactsOnlyGrow ==
    /\ Extends(result', result) /\ Extends(selected', selected)
    /\ Extends(mem_cache', mem_cache) /\ Extends(results', results)
    /\ Extends(loaded', loaded)
FactsAreFinal == [][FactsOnlyGrow]_vars

(* The node an activation is at has no result yet, so that OnceCell::set,   *)
(* whose failure the code ignores, never drops a result (ctxt.rs).          *)
CellsAreSetOnce ==
    \A f \in DOMAIN frames :
        /\ frames[f].at <= Len(frames[f].list)
        /\ f < Depth \/ Going
        => AddressAt(f) \notin (DOMAIN result) \cup (DOMAIN selected)

(* What the code's comments and tests say of it.                            *)

NewlyOnDisk(h) ==
    h \in DOMAIN disk' /\ (h \in DOMAIN disk => disk'[h] # disk[h])

(* "a cache file has to store that [alpha-normalized] form to verify        *)
(* against its own name" (tests/spec.rs): a value that has the digest is    *)
(* stored so that the next reader accepts it.                               *)
CacheFilesVerify ==
    [][\A h \in DOMAIN disk' :
          NewlyOnDisk(h) /\ Sha(Alpha(disk'[h])) = h => Sha(disk'[h]) = h]_vars

-----------------------------------------------------------------------------
(* The resolver is a depth-first walk that gives a location one value.      *)
Memo == INSTANCE ImportMemo WITH
    Location <- ImportLocation, Value <- Values, path <- stack,
    value <- [l \in DOMAIN mem_cache |-> results[mem_cache[l]]]
ImplementsMemo == Memo!MemoSpec

(* How far the walk has come, one number for each activation: its node, and *)
(* later than any node that it fails; the right side is later than the      *)
(* left.  A call that has ended is further than all.                        *)
Past == Cardinality(Ids) + 2
Place(f) ==
    (IF frames[f].role = "right" THEN Past ELSE 0)
        + (IF f = Depth /\ Failing THEN Past ELSE frames[f].at)
Standing == IF Ended THEN <<Past + 1>> ELSE [f \in 1..Depth |-> Place(f)]
Later(q, p) ==
    \E i \in 1..Len(q) :
        /\ \A j \in 1..(i - 1) : j <= Len(p) /\ q[j] = p[j]
        /\ i <= Len(p) => p[i] < q[i]

(* The walk never comes back to where it was, nor to anything before it:    *)
(* neither a side that was given up, nor a node that was done with, nor an  *)
(* error on its way out starts anything again (resolve_nodes).              *)
WalkMovesOn == [][Later(Standing', Standing)]_vars

(* Every call ends, cycles included: with a result, an error or a panic.    *)
EveryCallEnds == <>(outcome.tag \in {"resolved", "failed", "panicked"})
=============================================================================
