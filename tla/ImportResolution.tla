--------------------------- MODULE ImportResolution ---------------------------
(***************************************************************************)
(* The import resolver of dhall/src/semantics/resolve/resolve.rs: what one *)
(* call of `resolve` (or `resolve_without_remote_imports`, or              *)
(* `skip_resolve`) does to the compilation context and to the on-disk      *)
(* cache.                                                                  *)
(*                                                                         *)
(* The mutual recursion  resolve_with_env -> resolve_nodes -> fetch_import *)
(* -> fetch -> resolve_with_env  is a stack of activations of              *)
(* resolve_nodes, the variable `frames`.  An import that is answered       *)
(* without loading a document is one step; one that loads a document is    *)
(* the step that pushes its frame (Load) and the step that pops it         *)
(* (FinishDocument, or Unwind when it failed).                             *)
(*                                                                         *)
(* What is abstracted: a document is its tree of imports plus what         *)
(* typechecking and normalizing it gives; a value is a member of Values; a *)
(* path, URL or header list is an atom.                                    *)
(***************************************************************************)
EXTENDS Naturals, Sequences

CONSTANTS
    Paths,          \* paths of files and URLs, canonical; names of variables
    NoPath,         \* the path of `missing`
    Hosts,          \* scheme and authority of a URL; NoHost for the rest
    NoHost,
    Headers,        \* lists of (name, value) pairs; NoHeaders is the empty one
    NoHeaders,
    Ids,            \* positions of imports and alternatives in a document
    Documents,      \* the dhall expressions that can be read
    Values,         \* normalized expressions with their types
    Hashes,         \* sha256 digests
    Settings,       \* what the caller and the system may have set up
    DiskContents,   \* what the cache directory may hold at the start
    Roots,          \* what the caller hands over: a document and its location
    RefusedHosts,   \* those of a URL that the url crate does not parse
    Join(_, _, _),  \* where a local import leads: the canonical path, and from
                    \* a remote base the host too, as Url::join finds them
    Serve(_, _),    \* the answers reading a location with some headers may get
    Eval(_, _),     \* typecheck + normalize, given the values of its imports
    TextOf(_),      \* the text literal made of what `as Text` read
    PlaceOf(_),     \* the union value `as Location` gives
    Alpha(_),       \* alpha normalization of a value
    Sha(_)          \* the digest of the binary encoding of a value

KindTags  == {"Local", "Remote", "Env", "Missing", "NoImport"}
Modes     == {"Code", "RawText", "Location"}
Prefixes  == {"Here", "Parent", "Absolute", "Home"}
(* Where a local import leads.  Joined to a URL, a relative path mostly     *)
(* stays on its host, but some paths are read as another authority.         *)
Destination == [host : Hosts, path : Paths]
ImportLocationKind == [tag : KindTags, host : Hosts, path : Paths]
ImportLocation == [kind : ImportLocationKind, mode : Modes, headers : Headers]

Target == [tag : {"Local", "Remote", "Env", "Missing"}, prefix : Prefixes,
           host : Hosts, path : Paths]
Optional(S) == {{}} \cup {{x} : x \in S}
Import == [target : Target, mode : Modes, hash : Optional(Hashes),
           headers : Headers, headersTypecheck : BOOLEAN]

(* A document: `imports` and `alternatives` are what traverse_accumulate    *)
(* stores in the context for it, `top` the nodes it accumulates; `body` is  *)
(* what it contributes itself.                                              *)
Nodes(doc) == (DOMAIN doc.imports) \cup (DOMAIN doc.alternatives)
IsDocument(doc) ==
    /\ doc.imports \in [DOMAIN doc.imports -> Import]
    /\ doc.alternatives \in [DOMAIN doc.alternatives ->
                                [left : Seq(Nodes(doc)), right : Seq(Nodes(doc))]]
    /\ doc.top \in Seq(Nodes(doc))
    /\ Nodes(doc) \subseteq Ids
    /\ (DOMAIN doc.imports) \cap (DOMAIN doc.alternatives) = {}
    /\ \A i \in DOMAIN doc.imports : doc.imports[i].headers # NoHeaders
          => doc.imports[i].target.tag = "Remote"
    /\ doc.body \in Values
    /\ doc.parses \in BOOLEAN /\ doc.typechecks \in BOOLEAN

(* traverse_accumulate gives each import and alternative it meets an id of  *)
(* its own and puts it in one list: the one of the side it is in, or `top`. *)
NodesOf(list) == {list[i] : i \in DOMAIN list}
Children(doc, a) ==
    NodesOf(doc.alternatives[a].left) \cup NodesOf(doc.alternatives[a].right)
Distinct(list) == \A i, j \in DOMAIN list : list[i] = list[j] => i = j
OccursOnce(doc) ==
    /\ Distinct(doc.top)
    /\ \A a \in DOMAIN doc.alternatives :
          /\ Distinct(doc.alternatives[a].left)
          /\ Distinct(doc.alternatives[a].right)
          /\ NodesOf(doc.alternatives[a].left)
                \cap NodesOf(doc.alternatives[a].right) = {}
          /\ Children(doc, a) \cap NodesOf(doc.top) = {}
          /\ \A b \in (DOMAIN doc.alternatives) \ {a} :
                Children(doc, a) \cap Children(doc, b) = {}

Parsed == [doc : Documents, base : ImportLocation]
Answer == [status : {"served", "absent", "noHome"}, doc : Documents,
           allow_origin : Seq(Hosts)]
AnyOrigin == "*"

ASSUME ResolutionAssumption ==
    /\ NoPath \in Paths /\ NoHost \in Hosts /\ NoHeaders \in Headers
    /\ RefusedHosts \subseteq Hosts
    /\ \A d \in Documents : IsDocument(d)
    /\ Settings \subseteq [allow_remote : BOOLEAN, use_cache : BOOLEAN,
                           cwd_readable : BOOLEAN]
    /\ \A files \in DiskContents :
          DOMAIN files \subseteq Hashes /\ files \in [DOMAIN files -> Values]
    /\ Roots \subseteq Parsed
    /\ \A r \in Roots : r.base.mode = "Code" /\ r.base.headers = NoHeaders
    /\ \A k \in ImportLocationKind, f \in Prefixes, p \in Paths :
          Join(k, f, p) \in Destination
    /\ \A k \in ImportLocationKind, h \in Headers : Serve(k, h) \subseteq Answer
    /\ \A d \in Documents : TextOf(d) \in Values
    /\ \A k \in ImportLocationKind : PlaceOf(k) \in Values
    /\ \A v \in Values : Sha(v) \in Hashes /\ Alpha(v) \in Values

ASSUME OccurrenceAssumption == \A d \in Documents : OccursOnce(d)

ASSUME EvalAssumption ==
    \A d \in Documents : \A S \in SUBSET DOMAIN d.imports :
        \A vals \in [S -> Values] : Eval(d, vals) \in Values

VARIABLES
    settings,   \* allow_remote, whether a cache directory was set up, and
                \* whether the working directory can be read
    loaded,     \* the expressions traversed so far: imports and alternatives
                \* of the n-th are addressed <<n, id>>
    result,     \* StoredImport::result
    selected,   \* StoredImportAlternative::selected
    results,    \* CtxtS::import_results
    mem_cache,  \* ImportEnv::mem_cache
    disk,       \* the files of the on-disk cache, by hash
    stack,      \* ImportEnv::stack
    frames,     \* the activations of resolve_nodes, innermost last
    outcome     \* running, or how the call ended or is failing

vars == <<settings, loaded, result, selected, results, mem_cache, disk, stack,
          frames, outcome>>

-----------------------------------------------------------------------------
(* Errors.  Error::new decides whether `?` may recover; wrapping an error   *)
(* to point at the import site makes it a TypeError and then carries the    *)
(* decision of the original across.  `cause` remembers what went wrong.     *)

Retrieval == {"IO", "Missing", "MissingEnvVar", "MissingHome"}
Causes == Retrieval \cup
    {"TypeError", "ParseError", "ImportCycle", "SanityCheck",
     "UnexpectedImport", "Url", "RemoteImportsDisabled", "CorsRejected",
     "HashMismatch"}

Running == [tag |-> "running", recoverable |-> FALSE, cause |-> "none"]
(* Mutant: a failed integrity check counts as something not retrieved.      *)
ErrorForgivingMismatch(cause) ==
    [tag |-> "failing", recoverable |-> cause \in Retrieval \cup {"HashMismatch"},
     cause |-> cause]
Error(cause) == [tag |-> "failing", recoverable |-> cause \in Retrieval,
                 cause |-> cause]
(* Mutant: the wrapping decides afresh, as a TypeError.                     *)
WrappedAfresh(error) == [Error("TypeError") EXCEPT !.cause = error.cause]
Wrapped(error) ==
    LET typeError == Error("TypeError") IN
    [typeError EXCEPT !.recoverable = error.recoverable,
                      !.cause = error.cause]
Panic == [Running EXCEPT !.tag = "panicked"]

(* OnceCell::set ignores a second value; HashMap::insert replaces.          *)
SetOnce(cells, a, v) ==
    [x \in (DOMAIN cells) \cup {a} |-> IF x \in DOMAIN cells THEN cells[x] ELSE v]
Insert(map, k, v) ==
    [x \in (DOMAIN map) \cup {k} |-> IF x = k THEN v ELSE map[x]]

-----------------------------------------------------------------------------
(* ImportLocation::chain                                                   *)

MissingKind == [tag |-> "Missing", host |-> NoHost, path |-> NoPath]
ChainKind(base, target) ==
    LET joined == Join(base, target.prefix, target.path) IN
    CASE target.tag = "Local" /\ base.tag = "Remote" ->
           [tag |-> "Remote", host |-> joined.host, path |-> joined.path]
      [] target.tag = "Local" /\ base.tag # "Remote" ->
           [tag |-> "Local", host |-> NoHost, path |-> joined.path]
      [] target.tag = "Remote" ->
           [tag |-> "Remote", host |-> target.host, path |-> target.path]
      [] target.tag = "Env" ->
           [tag |-> "Env", host |-> NoHost, path |-> target.path]
      [] OTHER -> MissingKind

IsRelative(target) ==
    target.tag = "Local" /\ target.prefix \in {"Here", "Parent"}

(* Url::parse, or Url::join, is an error.                                   *)
UrlRefused(base, target) ==
    /\ target.tag = "Remote" \/ (IsRelative(target) /\ base.tag = "Remote")
    /\ ChainKind(base, target).host \in RefusedHosts

(* Mutant: no sanity check of environment variables.                        *)
ChainFaultWithoutSanity(base, import) ==
    IF base.kind.tag = "NoImport" THEN "UnexpectedImport"
    ELSE IF /\ import.target.tag = "Local"
            /\ base.kind.tag \in {"Env", "Missing"}
            /\ ~settings.cwd_readable
         THEN "IO"
    ELSE IF UrlRefused(base.kind, import.target) THEN "Url"
    ELSE "none"

ChainFault(base, import) ==
    IF base.kind.tag = "NoImport" THEN "UnexpectedImport"
    ELSE IF /\ import.target.tag = "Local"
            /\ base.kind.tag \in {"Env", "Missing"}
            /\ ~settings.cwd_readable
         THEN "IO"
    ELSE IF UrlRefused(base.kind, import.target) THEN "Url"
    ELSE IF /\ import.target.tag = "Env"
            /\ base.kind.tag = "Remote"
            /\ import.mode # "Location"
         THEN "SanityCheck"
    ELSE "none"

ChainPanics(base, import) ==
    /\ base.kind.tag = "Remote"
    /\ import.target.tag = "Local"
    /\ import.target.prefix \in {"Absolute", "Home"}

(* Mutant: absolute imports inherit the headers too.                        *)
ForwardedToAll(base, import) ==
    IF import.headers # NoHeaders THEN import.headers ELSE base.headers

Forwarded(base, import) ==
    IF import.headers # NoHeaders THEN import.headers
    ELSE IF IsRelative(import.target) /\ base.kind.tag = "Remote"
         THEN base.headers
    ELSE NoHeaders

Chain(base, import) ==
    [kind |-> ChainKind(base.kind, import.target), mode |-> import.mode,
     headers |-> Forwarded(base, import)]

(* check_cors: only a remote parent needs leave from another origin.        *)
CorsCompliant(parent, kind, allow_origin) ==
    \/ parent.tag # "Remote"
    \/ parent.host = kind.host
    \/ allow_origin \in {<<AnyOrigin>>, <<parent.host>>}

(* Why reading `kind` fails, given the answer; an unreachable host panics. *)
FetchFault(parent, loc, answer) ==
    CASE loc.kind.tag = "Missing" -> "Missing"
      [] loc.kind.tag = "Env" /\ answer.status # "served" -> "MissingEnvVar"
      [] loc.kind.tag = "Local" /\ answer.status = "noHome" -> "MissingHome"
      [] loc.kind.tag = "Local" /\ answer.status = "absent" -> "IO"
      [] loc.kind.tag = "Remote"
            /\ ~CorsCompliant(parent, loc.kind, answer.allow_origin)
                                                       -> "CorsRejected"
      [] loc.mode = "Code" /\ ~answer.doc.parses -> "ParseError"
      [] OTHER -> "none"

FetchPanics(loc, answer) ==
    loc.kind.tag = "Remote" /\ answer.status # "served"

(* The base location of the expression read from `loc`: what an environment *)
(* variable holds has no location of its own (parse_str).                   *)
BaseOf(loc) ==
    [loc EXCEPT !.kind = IF loc.kind.tag = "Env" THEN MissingKind ELSE @,
                !.mode = "Code"]

-----------------------------------------------------------------------------
(* The activation being executed and the node it has come to.  `level`, the *)
(* height of the cycle stack when an activation began, is there for the     *)
(* properties only.                                                         *)

Depth == Len(frames)
Top == frames[Depth]
DocAt(f) == loaded[frames[f].inst].doc
BaseAt(f) == loaded[frames[f].inst].base
NodeAt(f) == frames[f].list[frames[f].at]
AddressAt(f) == <<frames[f].inst, NodeAt(f)>>
ImportAt(f) == DocAt(f).imports[NodeAt(f)]

Going == outcome.tag = "running"
AtNode == Going /\ Top.at <= Len(Top.list)
AtImport == AtNode /\ NodeAt(Depth) \in DOMAIN DocAt(Depth).imports
AtAlternative == AtNode /\ NodeAt(Depth) \in DOMAIN DocAt(Depth).alternatives
AtEnd == Going /\ Top.at > Len(Top.list)

Activation(inst, list, role, level) ==
    [inst |-> inst, list |-> list, at |-> 1, role |-> role, level |-> level]
Below(f) == SubSeq(frames, 1, f)
Advance(f) == [Below(f) EXCEPT ![f].at = @ + 1]
Stop(error) ==
    /\ outcome' = error
    /\ UNCHANGED <<settings, loaded, result, selected, results, mem_cache,
                   disk, stack, frames>>

(* The import at hand, where it is and the location it chains to.           *)
Here == ImportAt(Depth)
HereBase == BaseAt(Depth)
HereLoc == Chain(HereBase, Here)

-----------------------------------------------------------------------------
(* Cache::get and Cache::insert.  A file is the encoding of the value that  *)
(* was written, not of its alpha-normal form.  A file that does not have    *)
(* the digest it is filed under is deleted by the reader that finds it.     *)

(* Mutant: what is read is not checked against its name.                    *)
DiskHoldsUnverified(hash) ==
    settings.use_cache /\ \E h \in hash : h \in DOMAIN disk

DiskHolds(hash) ==
    /\ settings.use_cache
    /\ \E h \in hash : h \in DOMAIN disk /\ Sha(disk[h]) = h

DiskAfterGet(hash) ==
    [h \in (DOMAIN disk) \ {x \in hash : settings.use_cache /\ ~DiskHolds(hash)}
        |-> disk[h]]

DiskAfterInsert(files, hash, v) ==
    IF settings.use_cache
    THEN [h \in (DOMAIN files) \cup hash |-> IF h \in hash THEN v ELSE files[h]]
    ELSE files

-----------------------------------------------------------------------------
(* fetch_import, up to the caches.                                          *)

(* The `using` clause does not typecheck in the empty context.              *)
HeadersFail ==
    /\ AtImport /\ ~Here.headersTypecheck
    /\ Stop(Error("TypeError"))

ChainFails ==
    /\ AtImport /\ Here.headersTypecheck
    /\ ChainFault(HereBase, Here) # "none"
    /\ Stop(Error(ChainFault(HereBase, Here)))

ChainAborts ==
    /\ AtImport /\ Here.headersTypecheck
    /\ ChainPanics(HereBase, Here)
    /\ Stop(Panic)

Chained ==
    /\ AtImport /\ Here.headersTypecheck
    /\ ChainFault(HereBase, Here) = "none"
    /\ ~ChainPanics(HereBase, Here)
(* Mutant: the check looks at how the import is written.                    *)
RemoteAllowedAsWritten == settings.allow_remote \/ Here.target.tag # "Remote"
RemoteAllowed == settings.allow_remote \/ HereLoc.kind.tag # "Remote"

RefuseRemote ==
    /\ Chained /\ ~RemoteAllowed
    /\ Stop(Error("RemoteImportsDisabled"))

(* get_from_disk_cache hit: neither the hash nor the location is looked at  *)
(* again, and the in-memory cache is left alone.                            *)
DiskHit ==
    /\ Chained /\ RemoteAllowed /\ DiskHolds(Here.hash)
    /\ results' = Append(results, disk[CHOOSE h \in Here.hash : TRUE])
    /\ result' = SetOnce(result, AddressAt(Depth), Len(results) + 1)
    /\ frames' = Advance(Depth)
    /\ UNCHANGED <<settings, loaded, selected, mem_cache, disk, stack, outcome>>

PastDisk == Chained /\ RemoteAllowed /\ ~DiskHolds(Here.hash)

-----------------------------------------------------------------------------
(* The end of fetch_import for the import the f-th activation is at:        *)
(* check_hash, then write_to_disk_cache whatever the mode, then the result  *)
(* is stored in the import.                                                 *)

HashAgrees(import, v) ==
    import.mode = "Code" => \A h \in import.hash : Sha(Alpha(v)) = h

Conclude(f, r, v, files) ==
    \/ /\ HashAgrees(ImportAt(f), v)
       /\ result' = SetOnce(result, AddressAt(f), r)
       /\ disk' = DiskAfterInsert(files, ImportAt(f).hash, v)
       /\ frames' = Advance(f)
       /\ UNCHANGED outcome
    \/ /\ ~HashAgrees(ImportAt(f), v)
       /\ outcome' = Error("HashMismatch")
       /\ frames' = Below(f)
       /\ disk' = files
       /\ UNCHANGED result

(* push_import_result and write_to_mem_cache, for a value just fetched.     *)
(* Mutants: the index is taken one too low; the entry is not written.       *)
MemoiseOffByOne(loc, v) ==
    /\ results' = Append(results, v)
    /\ mem_cache' = Insert(mem_cache, loc, Len(results))
MemoiseNothing(loc, v) == results' = Append(results, v) /\ UNCHANGED mem_cache
Memoise(loc, v) ==
    /\ results' = Append(results, v)
    /\ mem_cache' = Insert(mem_cache, loc, Len(results) + 1)

MemHit ==
    /\ PastDisk /\ HereLoc \in DOMAIN mem_cache
    /\ LET r == mem_cache[HereLoc] IN
           Conclude(Depth, r, results[r], DiskAfterGet(Here.hash))
    /\ UNCHANGED <<settings, loaded, selected, results, mem_cache, stack>>

MustFetch == PastDisk /\ HereLoc \notin DOMAIN mem_cache

(* Mutant: only the innermost location is compared.                         *)
InStackTopOnly(loc) == stack # <<>> /\ stack[Len(stack)] = loc
InStack(loc) == \E i \in DOMAIN stack : stack[i] = loc
Cycle ==
    /\ MustFetch /\ InStack(HereLoc)
    /\ outcome' = Wrapped(Error("ImportCycle"))
    /\ disk' = DiskAfterGet(Here.hash)
    /\ UNCHANGED <<settings, loaded, result, selected, results, mem_cache,
                   stack, frames>>

Fetching == MustFetch /\ ~InStack(HereLoc)

(* `as Location` reads nothing.                                             *)
FetchLocation ==
    /\ Fetching /\ Here.mode = "Location"
    /\ Memoise(HereLoc, PlaceOf(HereLoc.kind))
    /\ Conclude(Depth, Len(results) + 1, PlaceOf(HereLoc.kind),
                DiskAfterGet(Here.hash))
    /\ UNCHANGED <<settings, loaded, selected, stack>>

FetchText(answer) ==
    /\ Fetching /\ Here.mode = "RawText"
    /\ ~FetchPanics(HereLoc, answer)
    /\ FetchFault(HereBase.kind, HereLoc, answer) = "none"
    /\ Memoise(HereLoc, TextOf(answer.doc))
    /\ Conclude(Depth, Len(results) + 1, TextOf(answer.doc),
                DiskAfterGet(Here.hash))
    /\ UNCHANGED <<settings, loaded, selected, stack>>

FetchFails(answer) ==
    /\ Fetching /\ Here.mode # "Location"
    /\ ~FetchPanics(HereLoc, answer)
    /\ FetchFault(HereBase.kind, HereLoc, answer) # "none"
    /\ outcome' = Wrapped(Error(FetchFault(HereBase.kind, HereLoc, answer)))
    /\ disk' = DiskAfterGet(Here.hash)
    /\ UNCHANGED <<settings, loaded, result, selected, results, mem_cache,
                   stack, frames>>

(* download_http unwraps the result of sending the request.                 *)
FetchAborts(answer) ==
    /\ Fetching /\ Here.mode # "Location"
    /\ FetchPanics(HereLoc, answer)
    /\ outcome' = Panic
    /\ disk' = DiskAfterGet(Here.hash)
    /\ UNCHANGED <<settings, loaded, result, selected, results, mem_cache,
                   stack, frames>>

(* with_cycle_detection pushes the location; resolve_with_env traverses the *)
(* expression that was read and starts on its nodes.                        *)
Load(answer) ==
    /\ Fetching /\ Here.mode = "Code"
    /\ ~FetchPanics(HereLoc, answer)
    /\ FetchFault(HereBase.kind, HereLoc, answer) = "none"
    /\ stack' = Append(stack, HereLoc)
    /\ loaded' = Append(loaded, [doc |-> answer.doc, base |-> BaseOf(HereLoc)])
    /\ frames' = Append(frames, Activation(Len(loaded) + 1, answer.doc.top,
                                           "document", Len(stack) + 1))
    /\ disk' = DiskAfterGet(Here.hash)
    /\ UNCHANGED <<settings, result, selected, results, mem_cache, outcome>>

-----------------------------------------------------------------------------
(* The end of resolve_with_env.  What is typechecked and normalized reads   *)
(* the results of the imports in the selected sides only.                   *)

ChosenSide(n, a) ==
    IF selected[<<n, a>>] THEN loaded[n].doc.alternatives[a].left
                          ELSE loaded[n].doc.alternatives[a].right

(* S holds the nodes in sight at the top and, with an alternative, those of *)
(* its selected side.                                                       *)
ClosedUnderUse(n, S) ==
    /\ NodesOf(loaded[n].doc.top) \subseteq S
    /\ \A a \in S \cap DOMAIN loaded[n].doc.alternatives :
          <<n, a>> \in DOMAIN selected => NodesOf(ChosenSide(n, a)) \subseteq S

Used(n) ==
    {x \in Nodes(loaded[n].doc) :
        \A S \in SUBSET Nodes(loaded[n].doc) : ClosedUnderUse(n, S) => x \in S}

ValueOf(n) ==
    LET used == {i \in Used(n) \cap DOMAIN loaded[n].doc.imports :
                    <<n, i>> \in DOMAIN result}
    IN
    Eval(loaded[n].doc, [i \in used |-> results[result[<<n, i>>]]])

Popped(seq) == SubSeq(seq, 1, Len(seq) - 1)
(* Mutant: the entry is made for the location found in the document.        *)
CallerLocOfBase == BaseAt(Depth)
CallerLoc == Chain(BaseAt(Depth - 1), ImportAt(Depth - 1))

FinishDocument ==
    /\ AtEnd /\ Top.role = "document" /\ Depth > 1
    /\ DocAt(Depth).typechecks
    /\ stack' = Popped(stack)
    /\ Memoise(CallerLoc, ValueOf(Top.inst))
    /\ Conclude(Depth - 1, Len(results) + 1, ValueOf(Top.inst), disk)
    /\ UNCHANGED <<settings, loaded, selected>>

DocumentIllTyped ==
    /\ AtEnd /\ Top.role = "document" /\ Depth > 1
    /\ ~DocAt(Depth).typechecks
    /\ Stop(Error("TypeError"))

FinishRoot ==
    /\ AtEnd /\ Depth = 1
    /\ Stop([Running EXCEPT !.tag = "resolved"])

-----------------------------------------------------------------------------
(* Alternatives, in resolve_nodes.                                          *)

EnterAlternative ==
    /\ AtAlternative
    /\ LET alt == DocAt(Depth).alternatives[NodeAt(Depth)] IN
           frames' = Append(frames,
                            Activation(Top.inst, alt.left, "left", Len(stack)))
    /\ UNCHANGED <<settings, loaded, result, selected, results, mem_cache,
                   disk, stack, outcome>>

(* Mutant: the side that was finished is not told apart.                    *)
FinishSideAsLeft ==
    /\ AtEnd /\ Top.role \in {"left", "right"}
    /\ selected' = SetOnce(selected, AddressAt(Depth - 1), TRUE)
    /\ frames' = Advance(Depth - 1)
    /\ UNCHANGED <<settings, loaded, result, results, mem_cache, disk, stack,
                   outcome>>
FinishSide ==
    /\ AtEnd /\ Top.role \in {"left", "right"}
    /\ selected' = SetOnce(selected, AddressAt(Depth - 1), Top.role = "left")
    /\ frames' = Advance(Depth - 1)
    /\ UNCHANGED <<settings, loaded, result, results, mem_cache, disk, stack,
                   outcome>>

Failing == outcome.tag = "failing"

(* Mutant: the left side is tried again.                                    *)
RecoverByRetry ==
    /\ Failing /\ Top.role = "left" /\ outcome.recoverable
    /\ frames' = Append(Below(Depth - 1),
                        Activation(Top.inst, Top.list, "left", Len(stack)))
    /\ outcome' = Running
    /\ UNCHANGED <<settings, loaded, result, selected, results, mem_cache,
                   disk, stack>>

(* `Err(e) if e.is_recoverable()`: go on with the right side.               *)
Recover ==
    /\ Failing /\ Top.role = "left" /\ outcome.recoverable
    /\ LET alt == DocAt(Depth - 1).alternatives[NodeAt(Depth - 1)] IN
           frames' = Append(Below(Depth - 1),
                            Activation(Top.inst, alt.right, "right", Len(stack)))
    /\ outcome' = Running
    /\ UNCHANGED <<settings, loaded, result, selected, results, mem_cache,
                   disk, stack>>

(* Any other error leaves resolve_nodes ...                                 *)
LeaveSide ==
    /\ Failing
    /\ \/ Top.role = "left" /\ ~outcome.recoverable
       \/ Top.role = "right"
    /\ frames' = Below(Depth - 1)
    /\ UNCHANGED <<settings, loaded, result, selected, results, mem_cache,
                   disk, stack, outcome>>

(* ... and the fetch that was loading the document: with_cycle_detection    *)
(* pops the location, fetch_import wraps the error.                         *)
(* Mutants: the error skips the pop; a failure empties the in-memory cache. *)
LeaveDocumentWithoutPop ==
    /\ Failing /\ Top.role = "document" /\ Depth > 1
    /\ frames' = Below(Depth - 1)
    /\ outcome' = Wrapped(outcome)
    /\ UNCHANGED <<settings, loaded, result, selected, results, mem_cache,
                   disk, stack>>
LeaveDocumentForgetting ==
    /\ Failing /\ Top.role = "document" /\ Depth > 1
    /\ frames' = Below(Depth - 1)
    /\ stack' = Popped(stack)
    /\ outcome' = Wrapped(outcome)
    /\ mem_cache' = <<>>
    /\ UNCHANGED <<settings, loaded, result, selected, results, disk>>
LeaveDocument ==
    /\ Failing /\ Top.role = "document" /\ Depth > 1
    /\ frames' = Below(Depth - 1)
    /\ stack' = Popped(stack)
    /\ outcome' = Wrapped(outcome)
    /\ UNCHANGED <<settings, loaded, result, selected, results, mem_cache, disk>>

GiveUp ==
    /\ Failing /\ Depth = 1
    /\ Stop([outcome EXCEPT !.tag = "failed"])

Ended == outcome.tag \in {"resolved", "failed", "panicked"}
Done == Ended /\ UNCHANGED vars

-----------------------------------------------------------------------------
(* ImportEnv::new, on the expression the caller parsed.                     *)
Init ==
    /\ settings \in Settings
    /\ disk \in DiskContents
    /\ \E root \in Roots :
          /\ loaded = <<root>>
          /\ frames = <<Activation(1, root.doc.top, "document", 0)>>
    /\ result = <<>> /\ selected = <<>> /\ mem_cache = <<>>
    /\ results = <<>> /\ stack = <<>>
    /\ outcome = Running

Fetch ==
    \/ FetchLocation
    \/ Fetching /\ \E answer \in Serve(HereLoc.kind, HereLoc.headers) :
          \/ FetchText(answer)
          \/ FetchFails(answer)
          \/ FetchAborts(answer)
          \/ Load(answer)

Next ==
    \/ HeadersFail \/ ChainFails \/ ChainAborts \/ RefuseRemote
    \/ DiskHit \/ MemHit \/ Cycle \/ Fetch
    \/ FinishDocument \/ DocumentIllTyped \/ FinishRoot
    \/ EnterAlternative \/ FinishSide
    \/ Recover \/ LeaveSide \/ LeaveDocument \/ GiveUp
    \/ Done

(* One thread runs the call, and each step of it is code that cannot block  *)
(* once an answer has come.                                                 *)
Spec == Init /\ [][Next]_vars /\ WF_vars(Next)
=============================================================================
