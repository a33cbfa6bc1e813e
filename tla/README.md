# A verification project for dhall-rust

This directory holds TLA+ models of the Dhall implementation in `dhall/` and
`serde_dhall/`, the TLC configurations that check them on small instances, and
TLAPS proofs of what matters most. Paths below are relative to the repository.

Contents: [1. the system](#1-the-system) · [2. the plan](#2-the-plan) · [3. the
modules](#3-the-modules) · [4. the runs](#4-the-runs) · [5. the
proofs](#5-the-proofs) · [6. disagreements found](#6-disagreements-found) · [7.
what is not modelled](#7-what-is-not-modelled)

## 1. The system

A Dhall file goes through five phases: it is **parsed** (text or binary), its
imports are **resolved**, it is **typechecked**, **normalized**, and finally
**encoded**, printed or handed to serde. `dhall/src/lib.rs` has one type per
phase. Everything but import resolution is a pure function of its input; the
resolver reads files, the environment and the network and keeps caches, and is
where order, failure and other processes matter. The crate starts no thread and
has no async code: concurrency is between *processes* that share the cache
directory, and between the call and a world that changes while it runs.

| component | state it keeps | operations | what makes it correct |
|---|---|---|---|
| import resolver, `semantics/resolve/resolve.rs`, `env.rs` | the cycle stack, the in-memory cache, the disk cache's handle (`ImportEnv`) | `resolve`, `resolve_without_remote_imports`, `skip_resolve`; inside, `resolve_nodes`, `fetch_import`, `chain`, `fetch`, `check_hash`, `with_cycle_detection` | a cycle is always found and never invented; a location has one value per call; `?` falls back exactly on what could not be retrieved; a digest asked for of code is a digest obtained; remote documents see nothing local; every call ends |
| compilation context, `ctxt.rs` | arenas of imports, alternatives and results with set-once cells | `push_import`, `push_import_alternative`, `push_import_result`, `set_resultid`, `set_selected` | what was read once never changes; what typechecking reads is there |
| errors, `error/mod.rs` | the `recoverable` flag of an error | `Error::new`, `inheriting_recoverability` | the decision made where the error arose survives every wrapping |
| on-disk cache, `semantics/resolve/cache.rs` | files named by digest, shared by processes | `Cache::new`, `get`, `insert` | a hit has the digest; a damaged file does not stay; nothing valid is lost |
| import paths, `resolve.rs` (`chain_local`, `canonicalize`, `resolve_home`) | the location an expression was read from | joining, canonicalizing, finding the home directory | an import is resolved relative to the file that names it, however that file was reached |
| name environments, `resolve/env.rs` (`NameEnv`), `resolve/hir.rs` | the binders in scope | `insert`, `remove`, `label`, `unlabel` | a variable names the same binder before and after |
| lazy values, `nze/lazy.rs`, `nze/nir.rs`, `nze/env.rs` | a thunk's source and its value | `force` | evaluated once, never read half-way |
| normalizer and operators, `nze/normalize.rs`, `operations/normalization.rs`, `builtins.rs` | none | evaluation | the laws of the language; confluence of the shortcuts |
| typechecker, `tck/`, `operations/typecheck.rs` | the typing context | inference | an accepted expression normalizes to a value of its type |
| binary encoding, `syntax/binary/` | none | encode, decode | decoding undoes encoding |
| text parser and printer, `syntax/text/` | none | parse, print | parsing undoes printing |
| serde bridge, `serde_dhall/src/{serialize,deserialize,value,static_type}.rs` | the map serializer's pending key | the `Serializer` and `Deserializer` traits | what is written reads back; no number is truncated |
| serde options, `serde_dhall/src/options/` | a builder | `imports`, `remote_imports`, `type_annotation`, ... | the order of independent calls does not matter |
| functions as values, `serde_dhall/src/function.rs` | none | `call` | needs no file and no import |
| derive macros, `dhall_proc_macros` | none | code generation | – |

**How they interact.** `Parsed::resolve(cx)` builds an `ImportEnv` and calls
`resolve_with_env`, which traverses the expression, pushing each import and
alternative into the context (`traverse_accumulate`), and then settles the
nodes in order (`resolve_nodes`). Settling an import may parse another document
and call `resolve_with_env` on it, *and typecheck and normalize it* before its
importer goes on; these phases read the results of imports back from the
context. An import with a digest goes through the on-disk cache, which other
processes use at the same time. Errors travel up the same recursion, wrapped
once per document, until a left side of `?` takes one that is recoverable.

**What is hard.** The recursion mutates a context shared by the two sides of an
alternative, and the left one may fail half-way. The in-memory cache is looked
at *before* the cycle stack. Whether an import is remote is known only after it
is chained to where it was found. Headers are inherited. Two caches and a
digest interact, and only some of the ways to a value compare the digest. Files
change while the call runs. Cache files are written in place, read and deleted
without locks. Each of these is listed in `PROJECT.json` under `hazards`, at
its line, with the properties that watch it.

## 2. The plan

In order of importance. All but the last item are done.

1. **The resolver.** `ImportResolution` (state machine), `ImportProperties`,
   the abstract `ImportMemo`, a world for TLC, and the proofs: typing, the
   cycle stack, pending locations, the refusal of remote imports, refinement,
   the results, the cells, and that the walk runs out of steps.
2. **`NameEnv`**: binders pushed and popped by the two traversals, `label` and
   `unlabel` as inverses; run over all small terms; proofs: the round trip and
   alpha normalization, for every environment and expression.
3. **`DiskCache`**: processes sharing the cache directory; file creation,
   partial writes, verification, deletion and crashes as separate steps;
   proofs: hits verify, undisturbed files are whole and calls are short, for
   any number of processes.
4. **`ImportPaths`**: `chain_local`, `canonicalize` and `resolve_home` on
   sequences of components, which are the parameter `Join` of
   `ImportResolution`, against what a path means where it is written; proofs:
   the file meant is opened, and paths stay short, for chains of any length.
5. **The language**: `Normalization`, `Typing`, and `Phases`, which takes a
   program through them and through the cache, against `Meaning`.
6. **The binary encoding**: `Syntax`, `BinaryCodec`, and `BinaryFiles`, in which
   files are cut and changed.
7. **The serde bridge**: `SerdeValues`, `SerdeData`, and `SerdeBridge`, in which
   Rust code writes, reads, prints and calls; `ImportOptions`, which needs no
   recursion and so has a proof, for any number of calls.
8. **Text**: `TextPrinter`, `TextParser`, and `TextFiles`, in which one is
   applied to what the other made.
9. Left: `lazy.rs` as a state machine whose evaluations re-enter.

## 3. The modules

### ImportResolution

One call of `resolve`. The mutual recursion `resolve_with_env → resolve_nodes →
fetch_import → fetch → resolve_with_env` becomes a stack of activations:

| variable | code |
|---|---|
| `frames` | the activations of `resolve_nodes`, innermost last: the document it works for (`inst`), its nodes (`list`), the position (`at`), whether it runs a whole document or a side of an alternative (`role`), and the height of the cycle stack when it began (`level`, for the properties only) |
| `loaded` | the expressions traversed so far with their base locations; node `id` of the `n`-th is `<<n, id>>`, which stands for `ImportId` and `ImportAlternativeId` |
| `result`, `selected` | the `OnceCell`s of `StoredImport` and `StoredImportAlternative` |
| `results` | `CtxtS::import_results`; an index is an `ImportResultId` |
| `mem_cache`, `stack` | the fields of `ImportEnv` |
| `disk` | the files in the cache directory, by digest |
| `settings` | `allow_remote`, whether `Cache::new` succeeded, whether the working directory can be read |
| `outcome` | running; failing, with an error and its `recoverable` flag; or how the call ended |

An import answered without loading a document is one step, from the `using`
clause to the stored result, with every cache read and write the code makes on
the way: `HeadersFail`, `ChainFails`, `ChainAborts`, `RefuseRemote`, `DiskHit`,
`MemHit`, `Cycle`, `FetchLocation`, `FetchText`, `FetchFails`, `FetchAborts`.
Loading a document is `Load` (read, parse, push the cycle stack, traverse) and
`FinishDocument` (pop it, typecheck, normalize, memoise, check the digest,
write the disk cache, store). `EnterAlternative`, `FinishSide`, `Recover`,
`LeaveSide`, `LeaveDocument`, `DocumentIllTyped`, `FinishRoot` and `GiveUp` are
the rest of `resolve_nodes` and of the paths errors take.

Reading is nondeterministic: `Serve(kind, headers)` is the set of answers a
read may get, and each read takes one afresh, so files change, appear and
vanish during a call.

Abstractions. A document is its tree of imports and alternatives, a `body` and
whether it parses and typechecks. A value is what `Eval` makes of the body and
the values of the imports the *selected* sides use. A path, a host and a header
list are atoms; `Join` says where a local import leads from where it is found.
What it says is a `Destination`, with a host of its own: `chain_local` takes
whatever `Url::join` returns, and a path such as `./http:/other/x` or a quoted
component that begins with `\\` is read as another authority. `RefusedHosts`
stand for URLs that the `url` crate does not make (the cause `Url`). The
`using` clause is whether it typechecks and the headers it gives. A disk file with the right digest decodes
and typechecks (its contents were encoded by this code from a typechecked
value); one without it is deleted by the reader. Left out: files that are not UTF-8 (they fail like files that cannot be read), the
status of an HTTP response (the code does not look at it).

`ImportProperties` holds the properties. `ImportMemo` is the abstract
specification: a depth-first walk that never enters a location it is visiting
or has finished and gives each at most one value. Its `path` is `stack`, its
`value` the values `mem_cache` points to; `ImplementsMemo` is the refinement.
`WalkMovesOn` compares places of the walk: `Place` is where one activation is,
`Standing` the places of all, and `Later` orders them by the first that differs.

`MCImports` has the values of the constants the worlds share. A value is the
set of bodies it was normalized from; a digest is that set itself, which is
collision-free; `"f"` and `"_f"` are a function and its alpha-normal form.

### NameEnv

The two traversals that move binders in and out of scope, over a *serialized*
expression: a sequence of tokens that open a binder, close it, or are a
variable. First `traverse_accumulate` replaces names by positions (`Enter`,
`Leave`, `UseVar`, with `NameEnv::unlabel_var`), then `hir_to_expr` replaces
positions by names (`PrintOpening`, `PrintClosing`, `PrintBound`,
`PrintMissing`, with `NameEnv::label_var`), with or without alpha
normalization. `NameEnv` in the code is a vector of labels; it is a sequence
here, `count_named` and the two lookups are sets of positions and their
cardinalities instead of loops. The binders that the visitor goes through are
those of `Lam`, `Pi` and `Let`; all other syntax is left out, as it neither
binds nor names. `MCNames` builds every expression of up to `MaxNodes` tokens
that are binders or variables.

### DiskCache

Any number of processes in `Cache::get` and `Cache::insert`. The unit of
interleaving is the system call: open (`StartGet`), read one block
(`ReadBlock`), end of file and comparison of digests (`EndRead`),
`path.exists()` (`CheckExists`), `remove_file` (`Remove`), `File::create` with
its truncation (`Create`), write one block at the process's own offset
(`WriteBlock`), close (`EndWrite`). `WriteFails` is a full disk, `Crash` a
process that dies at any of these points. The file system is external: names
are bound to nodes, a node outlives its name while it is open, a write beyond
the end of a file that was truncated meanwhile leaves a hole. `written` and
`torn` are history, for `WholeUnlessInterrupted` only. What processes write
need not verify (`claim_cache_files_verify` says why), so `Encodings` is any
set. Left out: read errors in mid-file, and a file that verifies and does not
decode; both end as a file that does not verify.

`ImportResolution` sees one process's calls of the cache as atomic. That is
sound for what it says of values, because `HitsAreVerified` holds under every
interleaving, and a miss is always possible there.

### ImportPaths

A chain of files that import one another by local paths. `here` is the
`PathBuf` the code has, as components with their anchor; `meant` follows the
same imports over absolute paths. `Follow` is one import: `chain_local` with
the directory of `here`, `canonicalize`, and the collection into a `PathBuf`,
in which an absolute component replaces what is in front of it (that is why
paths from the root come out right although `.` is put in front). `FollowEnv`
reads an environment variable, whose imports start from the working directory.
`Opened` is `resolve_home` and the operating system's reading of the result,
without symbolic links. `anchor`, `followed` and `overRoot` remember how the
chain began and name the two kinds of chain that go astray. `to_string_lossy`
and Windows prefixes are left out, as is the joining of URLs, of whose outcome
`ImportResolution` assumes nothing.

### Syntax, BinaryCodec, BinaryFiles

`Syntax` is the expression type the language modules share: a node is its kind,
its labels, a number and its subexpressions. `BinaryCodec` is `encode.rs` and
`decode.rs`. A file is the sequence of its CBOR heads (`Array(3)`, `Str(x)`,
`U(n)`, ...), as `minicbor` reads and writes them one at a time; the bytes of a
head are minicbor's. `encode` keeps the code's flattening of applications and
`let`s, the short forms for `_`, for `List t` and for the empty record, the
integers that become bignums beyond `Width` bits, and the sorted labels of a
`BTreeMap`. `decode` returns the expression and where it stopped, or an error.

`BinaryFiles` is the life of a file: `WriteFile` encodes an expression or picks
a file another implementation wrote, `Cut` ends it anywhere, `Append` continues
it, `ChangeHead` replaces one head, and `Decode` reads it. Left out: indefinite
lengths, which decode to the same values.

### Normalization, Typing, Phases, Meaning

`Normalization` is evaluation and reading back: `normalize.rs`,
`operations/normalization.rs`, the reductions of `builtins.rs`, `nir.rs`. A
value (`Nir`) is a node like an expression; a closure is a node with its
environment. Variables of the context are `NzVar`s, the fresh ones of a
comparison are apart. The operators keep each shortcut of the code for operands
that are not known (`x && x`, `0 + x`, a projection of a merge, and so on).
`Typing` is `typecheck.rs` and `operations/typecheck.rs`, one rule per kind of
expression, in the order in which the code looks at subexpressions. A result is
a type with its universe, `IllTyped` for a refusal, or a panic; an `unwrap` or
`unreachable!` that is reached is `Panic`, and so can be found.

`Phases` takes a program from `resolved` through `Typecheck` and `Normalize`
and through a cache file. `WriteToCache` encodes the normal form with its names,
as `write_cache_file` does; `OthersWrite` encodes the alpha-normal form, as other
implementations that share the directory do. Another run reads the file: if it
has the digest of the program, `ReadFromCache` decodes it and starts with what it
holds; if not, `ReadAfresh` removes it and starts with the program. A file of
this code has the digest only if the normal form has no binder but `_`
(`claim_cache_files_verify` in section 6). `Meaning` has the properties, and a semantics to
compare with: numbers, truth values, texts as sequences, lists, optionals and
records are TLA+ values there, without a shortcut.

Abstractions. Values are computed at once rather than when they are forced, so
the order of forcing in `lazy.rs` is not seen. Texts are joined from atoms.
Doubles, `Text/show`, `Double/show` and `Integer/toDouble` are left out.
`Text/replace` returns texts in a form that differs from a literal's (section
6), hence three exceptions. `NormalFormsMeanTheSame` compares texts by their
contents. `CachedFormIsTheSame` is not said of programs that use it.
`AssertionsDecideEquality` says that equal sides are accepted only of assertions
without it, though of every assertion that what is accepted is equal.

### SerdeValues, SerdeData, ImportOptions, SerdeBridge

`SerdeValues` has `value.rs` and `function.rs`: what `Value::from_nir_and_ty`
makes of a normal form, `SimpleValue`, `SimpleType`, `Function`, and back.
`SerdeData` has `serialize.rs`, `deserialize.rs` and `static_type.rs` with the
derive macro. A *datum* is the calls that Rust data makes on a `Serializer`; a
*shape* is a Rust type: the calls its `Deserialize` makes and the visitor it
passes. Machine integers have `Width` bits for 64 and `2 * Width` for 128.

`ImportOptions` has the part of `options/de.rs` that keeps state: `Configure`
sets `imports` or `remote_imports`, of which the second may turn on the first,
`Admits` is what `parse_to_value` makes of them, and `calls` is a history. It
stands on its own (`OptionsSpec`), and `SerdeBridge` extends it.

`SerdeBridge` is Rust code at work: it sets the options in any order
(`SetOption`, at most `MaxCalls` times), writes a datum (`ToString_`) or reads a program
(`parse_to_value`), prints the value and reads it again (`Display`), calls the
functions it gets with serialized arguments (`Call`), and takes the Rust data
out (`FromDhall`). What a struct does not ask for is read too, to be ignored
(`ignored_any`): a number too large for serde refuses the struct, and a function
is handed back and forth without end, which is the stage `aborted`. An expression that is written is the expression that is read;
its text is left out. Functions have no names for their binders. Also left out:
`f64` and `char`, where a source comes from, `with_builtin_type`.

### TextPrinter, TextParser, TextFiles

A text is a sequence of tokens: a word, a symbol in one spelling, a blank, a
character of a quoted text. `TextPrinter` is `printer.rs`: `PhaseOf` gives each
part of an expression its `PrintPhase`, `needs_paren` compares, the `fmt_*`
write. `TextParser` has the grammar of `dhall.abnf` with the changes of
`build.rs`, as data: a record of rules over `Tok`, `Sq`, `Or`, `Many`, ..., of
which `Match` is the interpreter pest would generate: it takes the first
alternative that matches and never comes back to it. A rule that is not silent
is a node of the parse tree, and `Consumed` makes an expression of it as the
function of that name in `parser.rs` does: dotted and punned record fields,
duplicate labels, chains of `with` and `let`, indentation of multi-line texts,
and `operator_expression` as precedence climbing over the table `PRATT`.
`StandardGrammar` has operators as the standard's grammar has them, one rule per
level, where `build.rs` puts a single rule. `TextFiles` reads a text (`Parse`)
or takes an expression from elsewhere, and prints it (`Show`).

Left out: comments, escapes other than those the printer writes, percent
encoding, the digits of numbers, the ASCII and Unicode spellings of a symbol,
IP addresses and ports of URLs, shebang lines.

## 4. The runs

| run | world | shows |
|---|---|---|
| `resolver` (MCResolver) | one world in three quarters. Local: two files and a variable, each with three to four contents that may change from read to read; nested `?`; a path imported twice; imports in all three modes; cycles a→b→a through both sides of an alternative. Remote: two hosts, a token, CORS grants of each shape, `env:` and `~` inside remote documents, a relative import that is read as the other host and one no URL can be made of, remote imports on and off. Hashed: digests right and wrong in each mode, a value that is not alpha-normal, three cache directories (empty, right, wrong) | typing, the cycle stack, the caches, set-once cells, what typechecking reads; where requests go, with which headers, and what remote code reads; integrity; the fall-back rule, refinement, that every step moves on, termination |
| `names` (MCNames) | every expression of up to three binders and variables over `x` and `_`, indices up to two | the traversals agree on scopes, names come back, alpha normalization keeps meanings |
| `disk_cache` (MCDiskCache) | two processes, one digest of two blocks, a right encoding and one with other names; a directory with no file, the right one, a short or a long one, writable or not | mutual interference, crashes, healing, termination |
| `paths` (MCPaths) | chains of up to six imports, nine paths under each of four prefixes, eight starting paths and text without a file | paths against their meaning, and that they stay short |
| `codec` (MCCodec) | expressions of every kind over a few atoms, nested once more where the encoding flattens; numbers on both sides of each limit; eighteen files only other implementations write; each file whole, cut anywhere, continued, or with one head changed | decoding undoes encoding; a short file is an error, never another expression; what is accepted can be encoded again and decodes to itself |
| `language` (MCLanguage) | some 14,000 programs: every operator over parameters and the literals it has shortcuts for, nested once more where two shortcuts can meet; every builtin and binder; every operator over operands of every sort, most of them ill typed | no panic, nothing stuck, no shortcut that changes a result, results as the semantics says, a cache file that verifies is equal to the program in type and normal form, `assert` accepts nothing unequal and, but for `Text/replace`, everything equal |
| `serde` (MCSerde) | Rust types of every shape, nested twice, with data at each limit, with and without their static type; Dhall values, types and functions read as shapes that do and do not fit, structs with fields to ignore among them; calls with arguments that do and do not fit; the options in every order | what is written reads back; static types fit; printed values read back; calls compose; refused imports stay refused; no number is truncated |
| `text` (MCText) | every kind of expression around every kind, at every place; imports of every kind; chains of every two of the thirteen operators and of three of five, with and without parentheses; hand-written texts with the abbreviations and stray separators that only people write, indented texts, and texts that are refused | printed text reads back; operators bind as in the standard |
| `claim_*` | the worlds above, or the programs of one claim | the disagreements of section 6: TLC finds each |

Bounds. In the resolver's world nothing is cut short: the state spaces are
finite because the cycle stack is (a location is on it at most once), so every
behaviour of each root is explored to its end, some 5,000 states. Two files and
a variable give cycles of length one to three, a location imported along two
paths, and a recoverable failure below a fatal one; alternatives nest twice,
which is what tells "the innermost left side" from "a left side". Two hosts are
what same-origin and cross-origin need. More documents add longer chains of the
same frames; for the safety properties, the proofs close that gap. `MaxNodes = 3` in
`names` is what it takes for a variable under two binders of its name; the
proofs have no such bound. In `disk_cache` two processes are enough for each
pair of steps to meet, and with two of them two nodes are all that can be in
use; two blocks are the least that can be half written. `MaxHops = 6` in
`paths` is beyond the point where new kinds of location appear: two hops reach
both exceptions; the proofs hold for every bound.

`Width = 5` in `codec` and `language` puts 31 and 32 on the two sides of the
largest machine integer, above the 24 below which CBOR has no argument bytes.
`Width = 3` in `serde` keeps the limits of 64 and 128 bits (8 and 64) apart and
the world small. `MaxCalls = 3` is what it takes to set an option, override it
by the other, and set it again (the proof has no such bound); functions take at most two arguments. Shapes
nest two deep because every container treats what is inside it alike. The world
of `serde` has no case of the kinds listed under "only in prose" in section 6:
the properties of the run say nothing about tuples of ten fields and more,
sequences of maps whose keys differ, unit structs that are written, numbers too
large for 128 bits inside a union, and functions whose type depends on their
argument beside an empty list, a `None` or a union.

In `text` an expression nests two deep, as parentheses depend on an expression
and the one around it only, and three deep where operators meet; `Numbers` are
0 to 3, which number the operands. `PrintedTextReadsBack` is said of the
expressions that `IsPrintable` describes: the others, some 170 of 3,300 in this
world, are misprinted, and section 6 names their kinds.

Fairness. `Spec` has `WF_vars(Next)`: one thread runs the call and no step of
it waits for another thread. A read that never returns is outside the model:
the code sets no timeout of its own. `EveryCallEnds` also depends on `Done`, a
self-loop after the call has ended, in place of deadlock. `DiskCache` has weak
fairness for each process's own next system call, and none for starting a call
or dying: the operating system runs every process that is not killed. `Heals`
assumes besides that calls of `get` for the digest keep ending, and that files
can be removed. The other runs have no liveness properties. `paths` stops at
its bound, and a file, a program, a job or a text of `codec`, `language`,
`serde` and `text` is done after a few steps, hence `CHECK_DEADLOCK FALSE` there.

Every property of a passing run has a mutant in `PROJECT.json`: a plausible
slip (a dropped guard, a skipped pop, an index off by one) after which TLC
reports the property violated. The mutated operators stand beside the
originals, marked `Mutant`.

## 5. The proofs

The four modules `ImportProofs`, `ImportResultProofs`, `ImportCellProofs` and
`ImportProgressProofs`, each extending the one before, hold for every value of
the constants that satisfies `ResolutionAssumption` (constants have
the types their comments say; a header list is written only on a URL import, as
in the grammar; a document's alternatives refer to its own nodes),
`EvalAssumption` (typechecking and normalizing gives a value) and
`OccurrenceAssumption` (each node of a document is in one list, once:
`traverse_accumulate` pushes it where it meets it, and `push_import` and
`push_import_alternative` give it an index no other has). They assume nothing
of how many documents, locations or hosts there are, nor of what a read
answers; the last three say so where they need finitely many. All safety and
action properties of the resolver's run are theorems:

| theorem | says |
|---|---|
| `Typing` | `Spec => []TypeOK`. Each activation is at the import or alternative that the one above it was started for, so no index is out of range, the pops in `with_cycle_detection` never meet an empty stack, and a cache entry points to a result that exists |
| `StackFollowsCalls` | `Spec => []StackIsCallChain`: the cycle stack is exactly the locations of the imports under way, after every success, failure, recovery and panic |
| `PendingStaysApart` | `Spec => []PendingLocationsAreDistinctAndUncached`: nothing is resolved inside itself, and no pending location has a cache entry. No run checks this property on its own, as the refinement implies it |
| `RemoteStaysRefused` | `Spec => []RemoteRefused` |
| `Refinement` | `Spec => Memo!MemoSpec` |
| `FactsNeverChange` | `Spec => FactsAreFinal`: results, choices, cache entries and documents stay as they were |
| `IntegrityIsHonoured` | `Spec => []IntegrityHonoured`: the digest asked for of an import of code is the digest of what came, from the disk, the memory cache or afresh. An import `as Text` or `as Location` is excluded: no digest of it is compared (resolve.rs:506) |
| `LocationsHaveOneResult` | `Spec => []OneResultPerLocation`, though files may change between reads |
| `FallbackFollowsRule` | `Spec => FallbackRule`: `?` takes the right side on failed retrievals only, and on all of them |
| `HeadersTravel` | `Spec => []HeadersTravelByRelativeImports`: headers reach the host whose `using` clause gave them, and the hosts at which relative imports stray when `Url::join` finds another authority in their path; no absolute import takes them to a third. Nothing is assumed of `Url::join` |
| `RemoteCodeStaysRemote` | `Spec => []RemoteCodeReadsOnlyRemote` |
| `CellsFillOnce` | `Spec => []CellsAreSetOnce`: the code discards the failure of `OnceCell::set`; there is never one |
| `UsedNodesSettle` | `Spec => []UsedNodesAreSettled`: the `expect` of `get_result_unwrap` and the choice of an alternative are met after success |
| `StepsMoveOn` | `Spec => WalkMovesOn`, if documents have finitely many imports: every step takes the walk to a later place, a recovery and a retried side included |
| `DepthIsBounded` | with as many activations as `DepthBound` allows at most: by the locations under way and the nodes of a document |
| `StepsRunOut` | if there are finitely many locations too, `StepsLeft`, a number, gets smaller with every step, so that no behaviour has more steps than it has at first |

The argument. `StackIsCallChain` alone is not inductive: after `LeaveDocument`
pops one frame and one location, nothing in it says that the entry of a frame
further down is still at its place. `StackInv` adds that levels never decrease
along the frames and that a document's level is one more than its caller's, so
that popping removes exactly the innermost document's entry. From `StackInv`,
lemma `StepKinds` reduces the eighteen disjuncts of `Next` to five effects on
`stack` and `mem_cache` (quiet, visits, enters, finishes, abandons), which are
the actions of `ImportMemo`; the next three theorems are each a short argument
over these five. `ResultKinds`, `FrameKinds`, `OutcomeKinds` and `CellKinds`
do the same for the results, the activations, the outcome and the cells.

* *Results.* A digest is compared on the way in and never again, so
  `IntegrityHonoured` is inductive given typing. `OneResultPerLocation` is not:
  two imports of a location are related only through the in-memory cache.
  `ResultsAreCached` is: the result of an import without a digest is the entry
  of its location, and entries stay. It needs that a location under way has no
  entry (`PendingStaysApart`), as otherwise finishing it would replace one.
* *Recovery.* `DecidedByCause` says of a failing call that its flag is the one
  its first cause was given, which every wrapping keeps.
* *Reach.* Headers are inherited along relative imports, so the property of one
  request depends on locations many documents ago. `HeadersInv` says it of
  every location the call has come to: on the cycle stack, in the in-memory
  cache, or the base of a document. `RemoteInv` says that from a remote entry
  of the cycle stack on all others are remote, and that the activations above a
  remote document stand for remote locations; `RemoteResults` turns that into a
  statement about the results such a document ends up with. `NothingMissing`
  is what rules out the one location that is neither.
* *Cells.* That a cell is empty when an activation comes to it depends on all
  the lists that are still to be gone through, a fall-back side among them that
  may share the document with the failed one. `CellsInv` says that there is a
  set of nodes *ahead*: the rest of every activation's list and the right side
  of every left one under way, closed under the sides of alternatives; all
  their cells are empty, and none is the node an activation waits at. A step
  takes one node off the set, or adds those of a document just read. That the
  set loses a node for good when the step passes it is where
  `OccurrenceAssumption` is used (`NotAhead`).
* *Settled nodes.* `SettledInv` says that there is a set of nodes *behind*: what
  every activation has passed and, with an alternative, the side it chose; all
  their cells are filled. A left side that is given up is never in it. When the
  first activation has come to its end (`EndInv`), the set holds what
  typechecking reads.
* *Progress.* An activation's place is a number: its position in its list, more
  than any position once it fails, and more than that on a right side
  (`PlaceIn`). Each of the eighteen disjuncts advances the innermost activation
  that stays, or adds one to them (`WalkKinds`), which is a later place in the
  lexical order. The numbers are bounded because a list is no longer than a
  document has nodes (`WithinLists`): it names each once, by the invariant of
  the cells. Their number is bounded because two activations of one document
  wait at different nodes, again by that invariant, so that an activation is
  known by its level and its node (`SameLevel`), and levels are no more than
  locations, which are under way once (`PendingStaysApart`). Finitely many
  places in a lexical order of bounded depth leave finitely many later ones
  (`FewerLater`). The two hypotheses are needed: a server that makes up new
  locations for ever keeps the code busy for ever, as nothing in it bounds the
  depth. With `WF_vars(Next)` these theorems are the argument for
  `EveryCallEnds`, which itself is only model-checked.

`NameProofs` is about every expression and every environment, of any length:

| theorem | says |
|---|---|
| `UnlabelUndoesLabel`, `LabelUndoesUnlabel` | a bound position and the name and index printed for it determine each other, in every environment |
| `NamesTyped`, `ScopesStayInStep` | `TypeOK`; both traversals have the same binders in scope at each token |
| `NamesRoundTrip` | `NamesComeBack`: without alpha normalization the expression comes back as it was |
| `AlphaIsMeaningPreserving` | `AlphaKeepsMeaning`, for expressions without `let` and without a free `_` (section 6 says what becomes of the others) |

The round trip needs that the environment while printing is the one while
resolving, at every token. `NameInv` is the inductive invariant: it records the
scope in which the first traversal met each token (`scopes`) and says what the
token was turned into there (`TurnedInto`), and that the second traversal meets
it in that scope again. Under alpha normalization the index of a free variable
is reduced by `saturating_sub`; `SmallIndexIsBound` shows by counting that an
index that small would have been bound, so that saturation never happens.

`DiskProofs` is about any number of processes, digests and files:

| theorem | says |
|---|---|
| `DiskTyped` | `TypeOK`: a process has a file open exactly while it reads or writes it |
| `DiskHitsAreVerified` | `HitsAreVerified`, whatever the others do between the read and the use |
| `UndisturbedFilesAreWhole` | `WholeUnlessInterrupted` |
| `CallsAreShort` | if what is written and was found has at most `longest` blocks, a call has at most `2 * longest + 5` steps after its first; each step of its process leaves fewer (`StepsLeft`), and no step of another changes the number |

That the file is whole when the last writer is done is not inductive. `Covered`
is: each block is right already, or a process that has the file open is still
in front of it. Truncation puts its new writer in front of every block; a write
moves one writer past the block it has just made right; and a writer that
finishes is in front of nothing. `CallsAreShort` is the safety half of
`CallsEnd`: a reader cannot be led on by writers of its file, because a writer
writes at its own place, so that no file outgrows what is written to it
(`LengthInv`), and a file that cannot be removed is not tried again.

`PathProofs` is about chains of imports of any length, with any paths, working
and home directory that satisfy `PathsAssumption` (the components are of the
kinds the grammar and `PathBuf` have) and `StartsAssumption` (a chain begins at
a file, so its path ends in a name, and the root is nowhere but in front):

| theorem | says |
|---|---|
| `NeighboursAreOpened` | `Spec => []NeighbourIsOpened`: the location computed opens the file meant, but behind `~` and after a climb over the root |
| `PathsAreShort` | `Spec => []PathsStayShort` |

That a location opens the file meant is not inductive, since the next location
is made from its directory: `a/..` and `.` open the same directory and have
different parents by their text. `PathInv` says more, by the anchor of the
chain. A location relative to the working directory leads to the file meant
*and* ends in its name (or is a directory, from which nothing is imported), so
that taking off the last component is going to the parent. One from the root is
the root and the components of the file meant, so that popping never reaches
the root unless the meaning does. Lemma `CanonicalPath` is the heart of it:
`canonicalize` keeps where a path leads, from any directory, and leaves a path
that climbs first and then goes down; `ShortPath` counts in a path of this
shape. `Walk` and `canonicalize` are functions on positions rather than folds,
and each statement about all paths is proved of a least counterexample
(`Least`, `SequenceInduction`), which needs no induction theorem with an
operator as a parameter.

`OptionsProofs` is about any number of calls of `imports` and `remote_imports`,
in any order: `RefusalsAlwaysStand`, `OptionsSpec => []RefusalsStand`. The
options forget which calls set them, so the property is not inductive; it is
once `OptionsInv` says what each of the two is worth: it is off exactly if a
call that turned it off has not been overridden (`Refused`). `SerdeBridge`
changes `options` and `calls` by `Configure` alone. That it therefore implements
`OptionsSpec` is seen by reading it; the prover does not take the module, for
the recursive operators of serialization.

Only model-checked: `EveryCallEnds`, `CallsEnd` and `Heals` (liveness is out of
the prover's reach; `StepsRunOut` and `CallsAreShort` are the safety halves of
the first two) and everything about the language, the binary encoding,
serde's data and text: evaluation, checking, encoding, serialization, printing and
parsing recur over expressions, in `RECURSIVE` operators that the prover does
not take, and what they compute would need induction over data.

## 6. Disagreements found

Each of these has a run that violates what is quoted:

* `claim_cache_files_verify`: the digest is that of the alpha-normal form, the
  file holds the form with names: a function with a named binder is rewritten
  on every run and deleted on every read.
* `claim_neighbours`: "the location relative to which it must be resolved" – a
  relative import in a file found through `~` becomes `./~/...`; and `..` in a
  file of the root directory leads into the working directory.
* `claim_annotations`: "checks that the expression's type matches the provided
  type" – the type of `l // r` keeps the larger universe of the operands, though
  the fields that need it may be overwritten, and equality of types compares
  universes: `{ a = Natural } // { a = 1 }` is refused under `{ a : Natural }`,
  the type that is inferred for it.
* `claim_swallow`: "Refuse rather than truncate" – a number too large for serde,
  as the payload of a union that is read as a `SimpleValue`, is not refused: the
  error is taken for a union without a payload.

Only in prose, found by reading beside the models:

* resolve.rs:309, "it is the same server, so the credentials still apply" – the
  server is the one that `Url::join` finds in the path (resolve.rs:115), which
  may be another (`Strays`); the import still counts as relative, and the
  headers go along.
* resolve.rs:638, "Add the resolved import to the on-disk cache if the hash
  matches" – imports taken `as Text` or `as Location` are filed under a digest
  nobody compared.
* resolve.rs:111 and 462 – an unreachable host, or an absolute or `~` path
  inside a remote document, is a panic, where the function returns errors.
* lib.rs:163 and 169, "with every bound variable renamed to `_`" and "works on
  expressions with free variables" – a free `_` is captured, and the variables
  of a `let` are renamed while the `let` is not.
* cache.rs:63, "Delete cache file since it's invalid" – a reader whose read
  failed deletes whatever is there by then, also the right file of another
  process; all that is lost is a cache entry.
* value.rs:15 and 620 – values are said to be printable. A value that holds a
  function with a dependent type beside an empty list, a `None` or a union has
  no `SimpleType` to print there (value.rs:249), and cannot be.
* value.rs:147 – tuples are records `{ _1, _2, ... }`. The fields arrive in the
  order of their names, in which `_10` precedes `_2`: a tuple of ten fields or
  more is read permuted.
* ser.rs:51 and 164 – a type annotation is to fit what is written. A record that
  lacks annotated fields is accepted, so is a function under any function type,
  and a `Value` is written whatever the annotation.
* serialize.rs – a unit struct is written as `{=}` and not read back
  (`deserialize_unit_struct` is forwarded to `deserialize_any`); the derived
  `StaticType` of newtype and tuple structs is that of a type which is refused
  when written; a `Vec` of maps with different keys is written as a list that
  has no type.
* deserialize.rs – elements beyond those a tuple asks for are dropped, but a
  field a struct does not ask for is read: one with a number beyond 128 bits
  refuses the struct, and one that is a function is handed to
  `deserialize_ignored_any` and back (deserialize.rs:138) without end; a union constructor that takes a payload cannot be read as a
  `Function`.
* nir.rs:471, "compare two values for equality modulo alpha/beta-equivalence" –
  `Text/replace` makes the empty text as one chunk without characters
  (nir.rs:423), every other construction as no chunk, and `assert` finds them
  different.
* printer.rs:10, "automatically getting all the parentheses and precedences
  right" – `with` and `assert` never get parentheses (`f (x with a = 1)` prints
  as `f x with a = 1`), nor does an import under a selector, where the path
  swallows it (`(./a).x` prints as `./a.x`), nor an import with a digest as the
  headers of another; the type of an empty list and both sides of a `with` are
  printed as if anything could stand there; the labels of a `with` are not
  quoted, and a label is not quoted if it is a keyword that `fmt_label` does not
  list, such as `merge`, or starts with a digit. `IsPrintable` is the complement
  of this list, for what the model has.

## 7. What is not modelled

* Of texts: comments, numbers digit by digit, percent encoding, and the escapes
  that the printer does not write. `Phases` and `SerdeBridge` take expressions
  and leave their text out.
* `lazy.rs` as a mechanism: whether an evaluation may meet its own cell is not
  seen by modules that evaluate at once.
* Doubles, characters, `Text/show`, `Double/show`, `Integer/toDouble`.
* How a URL is joined (only that any host may come of it) and HTTP, which are the `url` and `reqwest` crates'; the status of
  a response, which the code does not look at.
* Messages of errors with their spans, the derive macros' parsing of Rust items,
  and `serde_dhall`'s convenience conversions, which keep no state and decide
  nothing.
