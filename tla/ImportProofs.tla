-------------------------- MODULE ImportProofs --------------------------
(***************************************************************************)
(* What the import resolver keeps true for every set of documents, answers *)
(* and values: its variables keep their types and name only what exists    *)
(* (Typing); its cycle stack is the chain of imports under way, on every   *)
(* path out of a fetch (StackFollowsCalls); a location under way is        *)
(* neither entered again nor cached (PendingStaysApart); refused remote    *)
(* imports are never fetched (RemoteStaysRefused); and it is the           *)
(* depth-first memoising walk of ImportMemo (Refinement).  The lemmas on   *)
(* the way say what a step may do to the sequence of activations, to the   *)
(* cells of the arenas and to the cache.                                   *)
(***************************************************************************)
EXTENDS ImportProperties, SequenceTheorems, TLAPS

-----------------------------------------------------------------------------
(* Sequences, cells and maps.                                               *)

(* Cutting a sequence keeps its first elements (Below, Popped).             *)
LEMMA Prefix ==
    ASSUME NEW S, NEW s \in Seq(S), NEW n \in 0..Len(s)
    PROVE  /\ SubSeq(s, 1, n) \in Seq(S)
           /\ Len(SubSeq(s, 1, n)) = n
           /\ \A i \in 1..n : SubSeq(s, 1, n)[i] = s[i]
  <1>1. /\ Len(s) \in Nat
        /\ \A i \in 1..n : s[i] \in S
    BY ElementOfSeq, LenProperties
  <1>2. n \in Int /\ (IF 1 <= n THEN n - 1 + 1 ELSE 0) = n
    BY <1>1
  <1>3. n - 1 + 1 = n /\ \A i \in 1..n : 1 + i - 1 = i
    BY <1>2
  <1>4. QED
    BY <1>1, <1>2, <1>3, SubSeqProperties

(* OnceCell::set and HashMap::insert keep the types of cells and maps.      *)
LEMMA SetOnceType ==
    ASSUME NEW S, NEW T, NEW cells, NEW a \in S, NEW v \in T,
           PartialFunction(cells, S, T)
    PROVE  PartialFunction(SetOnce(cells, a, v), S, T)
  BY DEF PartialFunction, SetOnce

LEMMA InsertType ==
    ASSUME NEW S, NEW T, NEW map, NEW k \in S, NEW v \in T,
           PartialFunction(map, S, T)
    PROVE  PartialFunction(Insert(map, k, v), S, T)
  BY DEF PartialFunction, Insert

LEMMA PartialFunctionMonotone ==
    ASSUME NEW S, NEW T, NEW S2, NEW T2, NEW f, S \subseteq S2, T \subseteq T2,
           PartialFunction(f, S, T)
    PROVE  PartialFunction(f, S2, T2)
  BY DEF PartialFunction

-----------------------------------------------------------------------------
(* How steps change the stack of activations.                               *)

LEMMA BelowFrames ==
    ASSUME NEW fs, NEW docs, FramesOK(fs, docs), NEW n \in 1..Len(fs)
    PROVE  /\ FramesOK(SubSeq(fs, 1, n), docs)
           /\ Len(SubSeq(fs, 1, n)) = n
           /\ \A i \in 1..n : SubSeq(fs, 1, n)[i] = fs[i]
  <1>1. fs \in Seq(Frame) /\ Len(fs) \in Nat
    BY LenProperties DEF FramesOK
  <1>2. n \in 0..Len(fs)
    BY <1>1
  <1>3. /\ SubSeq(fs, 1, n) \in Seq(Frame)
        /\ Len(SubSeq(fs, 1, n)) = n
        /\ \A i \in 1..n : SubSeq(fs, 1, n)[i] = fs[i]
    BY <1>1, <1>2, Prefix
  <1>4. SubSeq(fs, 1, n) # <<>> /\ SubSeq(fs, 1, n)[1].role = "document"
    <2>1. n # 0 /\ 1 \in 1..n
      BY <1>1
    <2>2. QED
      BY <1>3, <2>1, EmptySeq DEF FramesOK
  <1>5. \A i \in 1..n : FrameOK(SubSeq(fs, 1, n)[i], docs)
    BY <1>1, <1>3 DEF FramesOK
  <1>6. \A i \in 2..n : StartedFrom(SubSeq(fs, 1, n)[i], SubSeq(fs, 1, n)[i - 1], docs)
    <2> SUFFICES ASSUME NEW i \in 2..n
                 PROVE  StartedFrom(SubSeq(fs, 1, n)[i], SubSeq(fs, 1, n)[i - 1], docs)
      OBVIOUS
    <2>1. i \in 1..n /\ i - 1 \in 1..n /\ i \in 2..Len(fs)
      BY <1>1
    <2>2. StartedFrom(fs[i], fs[i - 1], docs)
      BY <2>1 DEF FramesOK
    <2>3. QED
      BY <1>3, <2>1, <2>2
  <1>7. QED
    BY <1>3, <1>4, <1>5, <1>6 DEF FramesOK

(* One activation is taken one node further; those above it are gone.       *)
Advanced(fs, n) == [SubSeq(fs, 1, n) EXCEPT ![n].at = @ + 1]

LEMMA AdvanceFrames ==
    ASSUME NEW fs, NEW docs, FramesOK(fs, docs), NEW n \in 1..Len(fs)
    PROVE  /\ FramesOK(Advanced(fs, n), docs)
           /\ Len(Advanced(fs, n)) = n
           /\ \A i \in 1..(n - 1) : Advanced(fs, n)[i] = fs[i]
           /\ Advanced(fs, n)[n] = [fs[n] EXCEPT !.at = @ + 1]
  <1> DEFINE lower == SubSeq(fs, 1, n)
             moved == [fs[n] EXCEPT !.at = @ + 1]
  <1>1. FramesOK(lower, docs) /\ Len(lower) = n /\ \A i \in 1..n : lower[i] = fs[i]
    BY BelowFrames
  <1>2. n \in Nat /\ n \in 1..n /\ lower \in Seq(Frame) /\ fs[n] \in Frame
    BY <1>1, LenProperties, ElementOfSeq DEF FramesOK
  <1>3. moved \in Frame /\ moved.inst = fs[n].inst /\ moved.list = fs[n].list
        /\ moved.role = fs[n].role /\ moved.level = fs[n].level
    BY <1>2 DEF Frame
  <1>4. Advanced(fs, n) = [lower EXCEPT ![n] = moved]
    BY <1>1, <1>2 DEF Advanced
  <1>5. /\ Advanced(fs, n) \in Seq(Frame)
        /\ Len(Advanced(fs, n)) = n
        /\ \A i \in 1..n : Advanced(fs, n)[i] = IF i = n THEN moved ELSE lower[i]
    <2> HIDE DEF lower, moved
    <2> QED BY <1>1, <1>2, <1>3, <1>4, ExceptSeq
  <1>6. \A i \in 1..(n - 1) : Advanced(fs, n)[i] = fs[i]
    BY <1>1, <1>2, <1>5
  <1>7. Advanced(fs, n)[n] = moved
    BY <1>2, <1>5
  <1>8. Advanced(fs, n) # <<>> /\ Advanced(fs, n)[1].role = "document"
    <2>1. n # 0 /\ 1 \in 1..n
      BY <1>2
    <2>2. lower[1].role = "document" /\ Advanced(fs, n)[1].role = lower[1].role
      BY <1>1, <1>3, <1>5, <2>1 DEF FramesOK
    <2>3. QED
      BY <1>5, <2>1, <2>2, EmptySeq
  <1>9. \A i \in 1..n : FrameOK(Advanced(fs, n)[i], docs)
    BY <1>1, <1>2, <1>3, <1>5 DEF FramesOK, FrameOK
  <1>10. \A i \in 2..n : StartedFrom(Advanced(fs, n)[i], Advanced(fs, n)[i - 1], docs)
    <2> SUFFICES ASSUME NEW i \in 2..n
                 PROVE  StartedFrom(Advanced(fs, n)[i], Advanced(fs, n)[i - 1], docs)
      OBVIOUS
    <2>1. i \in 1..n /\ i - 1 \in 1..n /\ i - 1 # n
      BY <1>2
    <2>2. StartedFrom(lower[i], lower[i - 1], docs)
      BY <1>1, <2>1 DEF FramesOK
    <2>3. Advanced(fs, n)[i - 1] = lower[i - 1]
      BY <1>5, <2>1
    <2>4. /\ Advanced(fs, n)[i].role = lower[i].role
          /\ Advanced(fs, n)[i].inst = lower[i].inst
      BY <1>1, <1>3, <1>5, <2>1
    <2>5. QED
      BY <2>2, <2>3, <2>4 DEF StartedFrom
  <1>11. QED
    BY <1>5, <1>6, <1>7, <1>8, <1>9, <1>10 DEF FramesOK

(* A new activation on top, for the node the one below is at.               *)
LEMMA PushFrame ==
    ASSUME NEW fs, NEW docs, FramesOK(fs, docs),
           NEW fr \in Frame, FrameOK(fr, docs),
           StartedFrom(fr, fs[Len(fs)], docs)
    PROVE  /\ FramesOK(Append(fs, fr), docs)
           /\ Len(Append(fs, fr)) = Len(fs) + 1
           /\ \A i \in 1..Len(fs) : Append(fs, fr)[i] = fs[i]
           /\ Append(fs, fr)[Len(fs) + 1] = fr
  <1>1. fs \in Seq(Frame) /\ Len(fs) \in Nat \ {0}
    BY LenProperties, EmptySeq DEF FramesOK
  <1>2. /\ Append(fs, fr) \in Seq(Frame) /\ Append(fs, fr) # <<>>
        /\ Len(Append(fs, fr)) = Len(fs) + 1
        /\ \A i \in 1..Len(fs) : Append(fs, fr)[i] = fs[i]
        /\ Append(fs, fr)[Len(fs) + 1] = fr
    BY <1>1, AppendProperties
  <1>3. Append(fs, fr)[1].role = "document"
    BY <1>1, <1>2 DEF FramesOK
  <1>4. \A i \in 1..(Len(fs) + 1) : FrameOK(Append(fs, fr)[i], docs)
    <2> SUFFICES ASSUME NEW i \in 1..(Len(fs) + 1)
                 PROVE  FrameOK(Append(fs, fr)[i], docs)
      OBVIOUS
    <2>1. i \in 1..Len(fs) \/ i = Len(fs) + 1
      BY <1>1
    <2>2. QED
      BY <1>2, <2>1 DEF FramesOK
  <1>5. \A i \in 2..(Len(fs) + 1) :
            StartedFrom(Append(fs, fr)[i], Append(fs, fr)[i - 1], docs)
    <2> SUFFICES ASSUME NEW i \in 2..(Len(fs) + 1)
                 PROVE  StartedFrom(Append(fs, fr)[i], Append(fs, fr)[i - 1], docs)
      OBVIOUS
    <2>1. CASE i \in 2..Len(fs)
      <3>1. i \in 1..Len(fs) /\ i - 1 \in 1..Len(fs)
        BY <1>1, <2>1
      <3>2. StartedFrom(fs[i], fs[i - 1], docs)
        BY <2>1 DEF FramesOK
      <3>3. QED
        BY <1>2, <3>1, <3>2
    <2>2. CASE i = Len(fs) + 1
      <3>1. i - 1 = Len(fs) /\ Len(fs) \in 1..Len(fs)
        BY <1>1, <2>2
      <3>2. QED
        BY <1>2, <2>2, <3>1
    <2>3. QED
      BY <1>1, <2>1, <2>2
  <1>6. QED
    BY <1>2, <1>3, <1>4, <1>5 DEF FramesOK

(* Loading one more document leaves the activations well formed.            *)
LEMMA MoreDocuments ==
    ASSUME NEW docs \in Seq(Parsed), NEW p \in Parsed, NEW fs, FramesOK(fs, docs)
    PROVE  FramesOK(fs, Append(docs, p))
  <1>1. Len(docs) \in Nat /\ Len(Append(docs, p)) = Len(docs) + 1
        /\ \A n \in 1..Len(docs) : Append(docs, p)[n] = docs[n]
    BY LenProperties, AppendProperties
  <1>2. fs \in Seq(Frame) /\ Len(fs) \in Nat
    BY LenProperties DEF FramesOK
  <1>3. \A i \in 1..Len(fs) : fs[i].inst \in 1..Len(docs)
    BY DEF FramesOK, FrameOK
  <1>4. \A i \in 1..Len(fs) : FrameOK(fs[i], Append(docs, p))
    BY <1>1, <1>3 DEF FramesOK, FrameOK
  <1>5. \A i \in 2..Len(fs) : StartedFrom(fs[i], fs[i - 1], Append(docs, p))
    <2> SUFFICES ASSUME NEW i \in 2..Len(fs)
                 PROVE  StartedFrom(fs[i], fs[i - 1], Append(docs, p))
      OBVIOUS
    <2>1. i - 1 \in 1..Len(fs)
      BY <1>2
    <2>2. QED
      BY <1>1, <1>3, <2>1 DEF FramesOK, StartedFrom
  <1>6. QED
    BY <1>4, <1>5 DEF FramesOK

-----------------------------------------------------------------------------
(* What the type invariant says of the activation a step works on.          *)

LEMMA OutcomeTypes ==
    /\ Running \in Outcomes /\ Panic \in Outcomes
    /\ \A c \in Causes : Error(c) \in Outcomes /\ Wrapped(Error(c)) \in Outcomes
    /\ \A o \in Outcomes : Wrapped(o) \in Outcomes
  <1>1. Running \in Outcomes
    BY DEF Running, Outcomes
  <1>2. Panic \in Outcomes
    BY <1>1 DEF Panic, Outcomes
  <1>3. \A c \in Causes : Error(c) \in Outcomes
    BY DEF Error, Outcomes
  <1>4. Error("TypeError") \in Outcomes
    BY <1>3 DEF Causes
  <1>5. \A o \in Outcomes : Wrapped(o) \in Outcomes
    BY <1>4 DEF Wrapped, Outcomes
  <1>6. QED
    BY <1>1, <1>2, <1>3, <1>5

(* The location an import chains to.                                        *)
LEMMA ChainType ==
    ASSUME NEW base \in ImportLocation, NEW import \in Import
    PROVE  Chain(base, import) \in ImportLocation
  <1>1. base.kind \in ImportLocationKind /\ base.headers \in Headers
    BY DEF ImportLocation
  <1>2. /\ import.target \in Target /\ import.mode \in Modes
        /\ import.headers \in Headers
    BY DEF Import
  <1>3. MissingKind \in ImportLocationKind
    BY ResolutionAssumption DEF MissingKind, ImportLocationKind, KindTags
  <1>4. ChainKind(base.kind, import.target) \in ImportLocationKind
    <2> DEFINE k == base.kind
               t == import.target
    <2>1. k \in ImportLocationKind /\ t \in Target
      BY <1>1, <1>2
    <2>2. k.host \in Hosts /\ NoHost \in Hosts /\ t.host \in Hosts
          /\ t.path \in Paths /\ t.prefix \in Prefixes
      BY <2>1, ResolutionAssumption DEF ImportLocationKind, Target
    <2>3. /\ Join(k, t.prefix, t.path).host \in Hosts
          /\ Join(k, t.prefix, t.path).path \in Paths
      BY <2>1, <2>2, ResolutionAssumption DEF Destination
    <2>4. t.tag \in {"Local", "Remote", "Env", "Missing"}
      BY <2>1 DEF Target
    <2> HIDE DEF k, t
    <2>5. ChainKind(k, t) \in ImportLocationKind
      BY <1>3, <2>2, <2>3, <2>4 DEF ChainKind, ImportLocationKind, KindTags
    <2>6. QED
      BY <2>5 DEF k, t
  <1>5. Forwarded(base, import) \in Headers
    BY <1>1, <1>2, ResolutionAssumption DEF Forwarded
  <1>6. QED
    BY <1>2, <1>4, <1>5 DEF Chain, ImportLocation

LEMMA BaseType ==
    ASSUME NEW loc \in ImportLocation
    PROVE  BaseOf(loc) \in ImportLocation
  <1>1. MissingKind \in ImportLocationKind
    BY ResolutionAssumption DEF MissingKind, ImportLocationKind, KindTags
  <1>2. QED
    BY <1>1 DEF BaseOf, ImportLocation, Modes

LEMMA DepthFacts ==
    ASSUME TypeOK
    PROVE  /\ Depth \in Nat \ {0} /\ Depth = Len(frames)
           /\ \A f \in 1..Depth :
                 /\ frames[f] \in Frame
                 /\ frames[f].inst \in 1..Len(loaded)
                 /\ frames[f].list \in Seq(Nodes(DocAt(f)))
                 /\ loaded[frames[f].inst] \in Parsed
                 /\ DocAt(f) \in Documents /\ IsDocument(DocAt(f))
                 /\ BaseAt(f) \in ImportLocation
  <1>1. FramesOK(frames, loaded) /\ loaded \in Seq(Parsed)
    BY DEF TypeOK
  <1>2. frames \in Seq(Frame) /\ Depth \in Nat \ {0} /\ Depth = Len(frames)
    BY <1>1, EmptySeq DEF FramesOK, Depth
  <1>3. ASSUME NEW f \in 1..Depth
        PROVE  /\ frames[f] \in Frame
               /\ frames[f].inst \in 1..Len(loaded)
               /\ frames[f].list \in Seq(Nodes(DocAt(f)))
               /\ loaded[frames[f].inst] \in Parsed
    BY <1>1, <1>2, ElementOfSeq DEF FramesOK, FrameOK, DocAt
  <1>4. ASSUME NEW p \in Parsed
        PROVE  p.doc \in Documents /\ IsDocument(p.doc) /\ p.base \in ImportLocation
    BY ResolutionAssumption DEF Parsed
  <1>5. QED
    BY <1>2, <1>3, <1>4 DEF DocAt, BaseAt

(* An activation that is not at its end names a node of its document; an    *)
(* import among them has a type.                                            *)
LEMMA NodeFacts ==
    ASSUME TypeOK, NEW f \in 1..Depth, frames[f].at <= Len(frames[f].list)
    PROVE  /\ NodeAt(f) \in Nodes(DocAt(f))
           /\ AddressAt(f) \in Addresses
           /\ NodeAt(f) \in DOMAIN DocAt(f).imports =>
                 /\ ImportAt(f) \in Import
                 /\ Chain(BaseAt(f), ImportAt(f)) \in ImportLocation
  <1>1. /\ frames[f] \in Frame
        /\ frames[f].inst \in 1..Len(loaded)
        /\ frames[f].list \in Seq(Nodes(DocAt(f)))
        /\ IsDocument(DocAt(f))
        /\ BaseAt(f) \in ImportLocation
    BY DepthFacts
  <1>2. frames[f].at \in 1..Len(frames[f].list)
    BY <1>1, LenProperties DEF Frame
  <1>3. NodeAt(f) \in Nodes(DocAt(f))
    BY <1>1, <1>2, ElementOfSeq DEF NodeAt
  <1>4. AddressAt(f) \in Addresses
    BY <1>1, <1>3 DEF AddressAt, Addresses, IsDocument
  <1>5. ASSUME NodeAt(f) \in DOMAIN DocAt(f).imports
        PROVE  ImportAt(f) \in Import
    BY <1>1, <1>5 DEF ImportAt, IsDocument
  <1>6. QED
    BY <1>1, <1>3, <1>4, <1>5, ChainType

LEMMA HereFacts ==
    ASSUME TypeOK, AtImport
    PROVE  /\ Depth \in 1..Depth /\ Top = frames[Depth]
           /\ Top.at <= Len(Top.list) /\ frames[Depth].at <= Len(frames[Depth].list)
           /\ NodeAt(Depth) \in DOMAIN DocAt(Depth).imports
           /\ AddressAt(Depth) \in Addresses
           /\ Here \in Import /\ Here = ImportAt(Depth)
           /\ HereBase \in ImportLocation
           /\ HereLoc \in ImportLocation /\ HereLoc.kind \in ImportLocationKind
           /\ HereLoc = Chain(BaseAt(Depth), ImportAt(Depth))
           /\ \A answer \in Serve(HereLoc.kind, HereLoc.headers) :
                 answer \in Answer /\ answer.doc \in Documents
  <1>1. Depth \in 1..Depth
    BY DepthFacts
  <1>2. /\ frames[Depth].at <= Len(frames[Depth].list)
        /\ Top = frames[Depth]
        /\ NodeAt(Depth) \in DOMAIN DocAt(Depth).imports
    BY DEF AtImport, AtNode, Top
  <1>3. /\ AddressAt(Depth) \in Addresses
        /\ ImportAt(Depth) \in Import
        /\ Chain(BaseAt(Depth), ImportAt(Depth)) \in ImportLocation
    BY <1>1, <1>2, NodeFacts
  <1>4. HereBase \in ImportLocation
    BY <1>1, DepthFacts DEF HereBase
  <1>5. HereLoc \in ImportLocation
    BY <1>3 DEF HereLoc, Here, HereBase
  <1>6. HereLoc.kind \in ImportLocationKind /\ HereLoc.headers \in Headers
    BY <1>5 DEF ImportLocation
  <1>7. Serve(HereLoc.kind, HereLoc.headers) \subseteq Answer
    BY <1>6, ResolutionAssumption
  <1>8. QED
    BY <1>1, <1>2, <1>3, <1>4, <1>5, <1>6, <1>7 DEF Answer, Here, HereLoc, HereBase

(* The files after a lookup, and after an insertion, are values by hash.    *)
LEMMA DiskTypes ==
    ASSUME PartialFunction(disk, Hashes, Values), NEW hash \in SUBSET Hashes
    PROVE  /\ PartialFunction(DiskAfterGet(hash), Hashes, Values)
           /\ \A files, v : PartialFunction(files, Hashes, Values) /\ v \in Values
                 => PartialFunction(DiskAfterInsert(files, hash, v), Hashes, Values)
  BY DEF PartialFunction, DiskAfterGet, DiskAfterInsert

LEMMA MemoiseType ==
    ASSUME TypeOK, NEW loc \in ImportLocation, NEW v \in Values, Memoise(loc, v)
    PROVE  /\ results' \in Seq(Values)
           /\ Len(results) \in Nat /\ Len(results') = Len(results) + 1
           /\ \A i \in 1..Len(results) : results'[i] = results[i]
           /\ results'[Len(results) + 1] = v
           /\ PartialFunction(mem_cache', ImportLocation, 1..Len(results'))
  <1>1. results \in Seq(Values) /\ results' = Append(results, v)
    BY DEF TypeOK, Memoise
  <1>2. /\ results' \in Seq(Values)
        /\ Len(results) \in Nat /\ Len(results') = Len(results) + 1
        /\ \A i \in 1..Len(results) : results'[i] = results[i]
        /\ results'[Len(results) + 1] = v
    BY <1>1, LenProperties, AppendProperties
  <1>3. PartialFunction(mem_cache, ImportLocation, 1..Len(results'))
    <2>1. PartialFunction(mem_cache, ImportLocation, 1..Len(results))
      BY DEF TypeOK
    <2>2. 1..Len(results) \subseteq 1..Len(results')
      BY <1>2
    <2>3. QED
      BY <2>1, <2>2, PartialFunctionMonotone
  <1>4. Len(results) + 1 \in 1..Len(results')
    BY <1>2
  <1>5. PartialFunction(mem_cache', ImportLocation, 1..Len(results'))
    BY <1>3, <1>4, InsertType DEF Memoise
  <1>6. QED
    BY <1>2, <1>5

(* A step that leaves the arenas alone except for more results.             *)
LEMMA ResultType ==
    ASSUME TypeOK, loaded' = loaded, NEW n \in Nat, Len(results) <= n,
           NEW a \in Addresses, NEW r \in 1..n
    PROVE  PartialFunction(SetOnce(result, a, r), Addresses, 1..n)
  <1>1. PartialFunction(result, Addresses, 1..Len(results)) /\ Len(results) \in Nat
    BY LenProperties DEF TypeOK
  <1>2. 1..Len(results) \subseteq 1..n
    BY <1>1
  <1>3. PartialFunction(result, Addresses, 1..n)
    BY <1>1, <1>2, PartialFunctionMonotone
  <1>4. QED
    BY <1>3, SetOnceType

LEMMA ConcludeType ==
    ASSUME TypeOK, loaded' = loaded,
           NEW f \in 1..Depth, frames[f].at <= Len(frames[f].list),
           NodeAt(f) \in DOMAIN DocAt(f).imports,
           NEW n \in Nat, Len(results) <= n, NEW r \in 1..n,
           NEW v \in Values, NEW files, PartialFunction(files, Hashes, Values),
           Conclude(f, r, v, files)
    PROVE  /\ PartialFunction(result', Addresses, 1..n)
           /\ PartialFunction(disk', Hashes, Values)
           /\ FramesOK(frames', loaded)
           /\ outcome' \in Outcomes
  <1>1. /\ AddressAt(f) \in Addresses
        /\ ImportAt(f) \in Import /\ ImportAt(f).hash \in SUBSET Hashes
    BY NodeFacts DEF Import, Optional
  <1>2. f \in 1..Len(frames) /\ FramesOK(frames, loaded)
    BY DEF TypeOK, Depth
  <1>3. FramesOK(Advance(f), loaded)
    BY <1>2, AdvanceFrames DEF Advance, Below, Advanced
  <1>4. FramesOK(Below(f), loaded)
    BY <1>2, BelowFrames DEF Below
  <1>5. CASE HashAgrees(ImportAt(f), v)
    <2>1. /\ result' = SetOnce(result, AddressAt(f), r)
          /\ disk' = DiskAfterInsert(files, ImportAt(f).hash, v)
          /\ frames' = Advance(f)
          /\ outcome' = outcome
      BY <1>5 DEF Conclude
    <2>2. PartialFunction(disk', Hashes, Values)
      BY <1>1, <2>1, DiskTypes DEF TypeOK
    <2>3. QED
      BY <1>1, <1>3, <2>1, <2>2, ResultType DEF TypeOK
  <1>6. CASE ~HashAgrees(ImportAt(f), v)
    <2>1. /\ result' = result /\ disk' = files /\ frames' = Below(f)
          /\ outcome' = Error("HashMismatch")
      BY <1>6 DEF Conclude
    <2>2. PartialFunction(result, Addresses, 1..n)
      <3>1. PartialFunction(result, Addresses, 1..Len(results))
        BY DEF TypeOK
      <3>2. 1..Len(results) \subseteq 1..n
        BY LenProperties DEF TypeOK
      <3>3. QED
        BY <3>1, <3>2, PartialFunctionMonotone
    <2>3. QED
      BY <1>4, <2>1, <2>2, OutcomeTypes DEF Causes
  <1>7. QED
    BY <1>5, <1>6

LEMMA InitType == Init => TypeOK
  <1> SUFFICES ASSUME Init PROVE TypeOK
    OBVIOUS
  <1>1. PICK root \in Roots :
            /\ loaded = <<root>>
            /\ frames = <<Activation(1, root.doc.top, "document", 0)>>
    BY DEF Init
  <1>2. root \in Parsed /\ IsDocument(root.doc)
    BY ResolutionAssumption DEF Parsed
  <1>3. loaded \in Seq(Parsed) /\ Len(loaded) = 1 /\ loaded[1] = root
    BY <1>1, <1>2
  <1>4. FramesOK(frames, loaded)
    <2> DEFINE fr == Activation(1, root.doc.top, "document", 0)
    <2>1. /\ fr.inst = 1 /\ fr.list = root.doc.top /\ fr.role = "document"
          /\ root.doc.top \in Seq(Nodes(root.doc))
          /\ Nodes(root.doc) \subseteq Ids
      BY <1>2 DEF Activation, IsDocument
    <2>2. root.doc.top \in Seq(Ids)
      BY <2>1, SeqMonotonic
    <2>3. fr \in Frame
      BY <2>2 DEF Activation, Frame
    <2>4. FrameOK(fr, loaded)
      BY <1>3, <2>1 DEF FrameOK
    <2> HIDE DEF fr
    <2>5. frames = <<fr>>
      BY <1>1 DEF fr
    <2>6. frames \in Seq(Frame) /\ frames # <<>> /\ Len(frames) = 1 /\ frames[1] = fr
      BY <2>3, <2>5
    <2>7. QED
      BY <2>1, <2>4, <2>6 DEF FramesOK
  <1>5. /\ results = <<>> /\ stack = <<>> /\ result = <<>> /\ selected = <<>>
        /\ mem_cache = <<>> /\ outcome = Running
        /\ settings \in Settings /\ disk \in DiskContents
    BY DEF Init
  <1>6. PartialFunction(disk, Hashes, Values)
    BY <1>5, ResolutionAssumption DEF PartialFunction
  <1>7. \A S, T : PartialFunction(<<>>, S, T)
    BY DEF PartialFunction
  <1>8. QED
    BY <1>3, <1>4, <1>5, <1>6, <1>7, OutcomeTypes, ResolutionAssumption
       DEF TypeOK

-----------------------------------------------------------------------------
(* Every step keeps the types.                                              *)

LEMMA StopType ==
    ASSUME TypeOK, NEW o \in Outcomes, Stop(o)
    PROVE  TypeOK'
  BY DEF TypeOK, Stop, Addresses

(* An activation above the first: where its caller is.                      *)
LEMMA CallerFacts ==
    ASSUME TypeOK
    PROVE  /\ Depth \in 1..Depth /\ Top = frames[Depth]
           /\ frames[1].role = "document"
           /\ Top.role \in {"left", "right"} => Depth > 1
           /\ Depth > 1 =>
                 /\ Depth - 1 \in 1..Depth
                 /\ frames[Depth - 1].at <= Len(frames[Depth - 1].list)
                 /\ Top.role = "document" =>
                       NodeAt(Depth - 1) \in DOMAIN DocAt(Depth - 1).imports
                 /\ Top.role # "document" =>
                       /\ NodeAt(Depth - 1) \in DOMAIN DocAt(Depth - 1).alternatives
                       /\ Top.inst = frames[Depth - 1].inst
                       /\ DocAt(Depth) = DocAt(Depth - 1)
  <1>1. /\ Depth \in Nat \ {0} /\ Depth = Len(frames)
        /\ Top = frames[Depth]
    BY DepthFacts DEF Top
  <1>2. FramesOK(frames, loaded)
    BY DEF TypeOK
  <1>3. frames[1].role = "document"
    BY <1>2 DEF FramesOK
  <1>4. Top.role \in {"left", "right"} => Depth > 1
    BY <1>1, <1>3
  <1>5. ASSUME Depth > 1
        PROVE  Depth - 1 \in 1..Depth /\ StartedFrom(frames[Depth], frames[Depth - 1], loaded)
    <2>1. Depth \in 2..Len(frames) /\ Depth - 1 \in 1..Depth
      BY <1>1, <1>5
    <2>2. QED
      BY <1>2, <2>1 DEF FramesOK
  <1>6. QED
    BY <1>1, <1>3, <1>4, <1>5 DEF StartedFrom, NodeAt, DocAt

(* A side of an alternative of a loaded document is a list to work through. *)
LEMMA SideFrame ==
    ASSUME TypeOK, NEW f \in 1..Depth,
           frames[f].at <= Len(frames[f].list),
           NodeAt(f) \in DOMAIN DocAt(f).alternatives,
           NEW list, NEW role \in {"left", "right"}, NEW level \in Nat,
           \/ list = DocAt(f).alternatives[NodeAt(f)].left
           \/ list = DocAt(f).alternatives[NodeAt(f)].right
    PROVE  FramesOK(Append(Below(f), Activation(frames[f].inst, list, role, level)),
                    loaded)
  <1> DEFINE fr == Activation(frames[f].inst, list, role, level)
  <1>1. /\ frames[f] \in Frame /\ frames[f].inst \in 1..Len(loaded)
        /\ IsDocument(DocAt(f))
    BY DepthFacts
  <1>2. list \in Seq(Nodes(DocAt(f))) /\ Nodes(DocAt(f)) \subseteq Ids
    BY <1>1 DEF IsDocument
  <1>3. list \in Seq(Ids)
    BY <1>2, SeqMonotonic
  <1>4. fr.inst = frames[f].inst /\ fr.list = list /\ fr.role = role
    BY DEF Activation
  <1>5. fr \in Frame
    BY <1>1, <1>3 DEF Activation, Frame
  <1>6. FrameOK(fr, loaded)
    BY <1>1, <1>2, <1>4 DEF FrameOK, DocAt
  <1>7. StartedFrom(fr, frames[f], loaded)
    BY <1>4 DEF StartedFrom, NodeAt, DocAt
  <1>8. f \in 1..Len(frames) /\ FramesOK(frames, loaded) /\ f \in 1..f
    BY DepthFacts DEF TypeOK, Depth
  <1>9. FramesOK(Below(f), loaded) /\ Len(Below(f)) = f /\ Below(f)[f] = frames[f]
    BY <1>8, BelowFrames DEF Below
  <1> HIDE DEF fr
  <1>10. FramesOK(Append(Below(f), fr), loaded)
    BY <1>5, <1>6, <1>7, <1>9, PushFrame
  <1>11. QED
    BY <1>10 DEF fr

(* Popping the cycle stack keeps it a sequence of locations.                *)
LEMMA PoppedStack ==
    ASSUME NEW S, NEW s \in Seq(S)
    PROVE  /\ Popped(s) \in Seq(S)
           /\ s # <<>> => /\ Len(Popped(s)) = Len(s) - 1
                          /\ Len(s) \in Nat \ {0}
                          /\ \A i \in 1..(Len(s) - 1) : Popped(s)[i] = s[i]
  <1>1. CASE s = <<>>
    <2>1. Len(s) = 0
      BY <1>1
    <2>2. Popped(s) = <<>>
      BY <2>1, SubSeqProperties, EmptySeq DEF Popped
    <2>3. QED
      BY <1>1, <2>2, EmptySeq
  <1>2. CASE s # <<>>
    <2>1. Len(s) \in Nat \ {0}
      BY <1>2, LenProperties, EmptySeq
    <2>2. Len(s) - 1 \in 0..Len(s)
      BY <2>1
    <2>3. QED
      BY <2>1, <2>2, Prefix DEF Popped
  <1>3. QED
    BY <1>1, <1>2

(* What typechecking and normalizing a document gives is a value.           *)
LEMMA ValueType ==
    ASSUME TypeOK, NEW n \in 1..Len(loaded)
    PROVE  ValueOf(n) \in Values
  <1> DEFINE d == loaded[n].doc
             used == {i \in Used(n) \cap DOMAIN d.imports : <<n, i>> \in DOMAIN result}
             vals == [i \in used |-> results[result[<<n, i>>]]]
  <1>1. d \in Documents
    <2>1. loaded \in Seq(Parsed)
      BY DEF TypeOK
    <2>2. loaded[n] \in Parsed
      BY <2>1, ElementOfSeq
    <2>3. QED
      BY <2>2 DEF Parsed
  <1>2. \A i \in used : results[result[<<n, i>>]] \in Values
    <2> SUFFICES ASSUME NEW i \in used
                 PROVE  results[result[<<n, i>>]] \in Values
      OBVIOUS
    <2>1. result[<<n, i>>] \in 1..Len(results)
      BY DEF TypeOK, PartialFunction
    <2>2. QED
      BY <2>1, ElementOfSeq DEF TypeOK
  <1>3. vals \in [used -> Values] /\ used \in SUBSET DOMAIN d.imports
    BY <1>2
  <1>4. ValueOf(n) = Eval(d, vals)
    BY DEF ValueOf
  <1> HIDE DEF d, used, vals
  <1>5. QED
    BY <1>1, <1>3, <1>4, EvalAssumption

(* A value fetched without loading a document, or at the end of loading     *)
(* one: it is memoised and the import is concluded.                         *)
LEMMA FetchedType ==
    ASSUME TypeOK, NEW f \in 1..Depth, frames[f].at <= Len(frames[f].list),
           NodeAt(f) \in DOMAIN DocAt(f).imports,
           NEW loc \in ImportLocation, NEW v \in Values, NEW files,
           PartialFunction(files, Hashes, Values),
           Memoise(loc, v), Conclude(f, Len(results) + 1, v, files),
           UNCHANGED <<settings, loaded, selected>>, stack' \in Seq(ImportLocation)
    PROVE  TypeOK'
  <1>1. /\ results' \in Seq(Values)
        /\ Len(results) \in Nat /\ Len(results') = Len(results) + 1
        /\ PartialFunction(mem_cache', ImportLocation, 1..Len(results'))
    BY MemoiseType
  <1>2. /\ Len(results') \in Nat /\ Len(results) <= Len(results')
        /\ Len(results) + 1 \in 1..Len(results')
    BY <1>1
  <1>3. /\ PartialFunction(result', Addresses, 1..Len(results'))
        /\ PartialFunction(disk', Hashes, Values)
        /\ FramesOK(frames', loaded)
        /\ outcome' \in Outcomes
    BY <1>2, ConcludeType
  <1>4. loaded' = loaded /\ Addresses' = Addresses
    BY DEF Addresses
  <1>5. QED
    BY <1>1, <1>3, <1>4 DEF TypeOK

(* Starting to load a document.                                             *)
LEMMA LoadType ==
    ASSUME TypeOK, NEW answer \in Serve(HereLoc.kind, HereLoc.headers), Load(answer)
    PROVE  TypeOK'
  <1> DEFINE p == [doc |-> answer.doc, base |-> BaseOf(HereLoc)]
             fr == Activation(Len(loaded) + 1, answer.doc.top, "document",
                              Len(stack) + 1)
  <1>1. AtImport
    BY DEF Load, Fetching, MustFetch, PastDisk, Chained
  <1>2. /\ HereLoc \in ImportLocation /\ answer.doc \in Documents
        /\ IsDocument(answer.doc)
        /\ Here.hash \in SUBSET Hashes
    BY <1>1, HereFacts, ResolutionAssumption DEF Import, Optional
  <1>3. p \in Parsed
    BY <1>2, BaseType DEF Parsed
  <1>4. /\ loaded \in Seq(Parsed) /\ Len(loaded) \in Nat
        /\ stack \in Seq(ImportLocation) /\ Len(stack) \in Nat
        /\ FramesOK(frames, loaded)
    BY LenProperties DEF TypeOK
  <1>5. /\ loaded' = Append(loaded, p)
        /\ frames' = Append(frames, fr)
        /\ stack' = Append(stack, HereLoc)
        /\ disk' = DiskAfterGet(Here.hash)
        /\ UNCHANGED <<settings, result, selected, results, mem_cache, outcome>>
    BY DEF Load
  <1>6. /\ fr.inst = Len(loaded) + 1 /\ fr.list = answer.doc.top
        /\ fr.role = "document"
        /\ p.doc = answer.doc
    BY DEF Activation
  <1>7. fr \in Frame
    <2>1. answer.doc.top \in Seq(Nodes(answer.doc)) /\ Nodes(answer.doc) \subseteq Ids
      BY <1>2 DEF IsDocument
    <2>2. answer.doc.top \in Seq(Ids)
      BY <2>1, SeqMonotonic
    <2>3. QED
      BY <1>4, <2>2 DEF Activation, Frame
  <1> HIDE DEF p, fr
  <1>8. /\ loaded' \in Seq(Parsed) /\ Len(loaded') = Len(loaded) + 1
        /\ \A i \in 1..Len(loaded) : loaded'[i] = loaded[i]
        /\ loaded'[Len(loaded) + 1] = p
    BY <1>3, <1>4, <1>5, AppendProperties
  <1>9. FramesOK(frames, loaded')
    BY <1>3, <1>4, <1>5, MoreDocuments
  <1>10. FrameOK(fr, loaded')
    <2>1. answer.doc.top \in Seq(Nodes(answer.doc))
      BY <1>2 DEF IsDocument
    <2>2. QED
      BY <1>4, <1>6, <1>8, <2>1 DEF FrameOK
  <1>11. StartedFrom(fr, frames[Len(frames)], loaded')
    <2>1. /\ frames[Depth].at <= Len(frames[Depth].list)
          /\ NodeAt(Depth) \in DOMAIN DocAt(Depth).imports
          /\ Depth = Len(frames)
      BY <1>1, HereFacts DEF Depth
    <2>2. frames[Depth].inst \in 1..Len(loaded)
      BY DepthFacts
    <2>3. QED
      BY <1>6, <1>8, <2>1, <2>2 DEF StartedFrom, NodeAt, DocAt
  <1>12. FramesOK(frames', loaded')
    BY <1>5, <1>7, <1>9, <1>10, <1>11, PushFrame
  <1>13. Addresses \subseteq Addresses'
    BY <1>4, <1>8 DEF Addresses
  <1>14. /\ PartialFunction(result', Addresses', 1..Len(results'))
         /\ PartialFunction(selected', Addresses', BOOLEAN)
    BY <1>5, <1>13, PartialFunctionMonotone DEF TypeOK
  <1>15. PartialFunction(disk', Hashes, Values)
    BY <1>2, <1>5, DiskTypes DEF TypeOK
  <1>16. stack' \in Seq(ImportLocation)
    BY <1>2, <1>4, <1>5
  <1>17. QED
    BY <1>5, <1>8, <1>12, <1>14, <1>15, <1>16 DEF TypeOK

(* The steps that answer an import without loading a document, or that      *)
(* cannot.                                                                  *)
LEMMA ImportStepType ==
    ASSUME TypeOK, DiskHit \/ MemHit \/ Cycle \/ Fetch
    PROVE  TypeOK'
  <1>1. AtImport
    BY DEF DiskHit, MemHit, Cycle, Fetch, FetchLocation, Fetching, MustFetch,
           PastDisk, Chained
  <1>2. /\ Depth \in 1..Depth /\ frames[Depth].at <= Len(frames[Depth].list)
        /\ NodeAt(Depth) \in DOMAIN DocAt(Depth).imports
        /\ AddressAt(Depth) \in Addresses
        /\ HereLoc \in ImportLocation /\ HereLoc.kind \in ImportLocationKind
        /\ Here.hash \in SUBSET Hashes
    BY <1>1, HereFacts DEF Import, Optional
  <1>3. PartialFunction(DiskAfterGet(Here.hash), Hashes, Values)
    BY <1>2, DiskTypes DEF TypeOK
  <1>4. /\ results \in Seq(Values) /\ Len(results) \in Nat
        /\ Depth \in 1..Len(frames) /\ FramesOK(frames, loaded)
    BY <1>2, LenProperties DEF TypeOK, Depth
  <1>5. CASE DiskHit
    <2> DEFINE v == disk[CHOOSE h \in Here.hash : TRUE]
    <2>1. v \in Values
      <3>1. Here.hash \in Optional(Hashes) /\ PartialFunction(disk, Hashes, Values)
        BY <1>1, HereFacts DEF Import, TypeOK
      <3>2. PICK h \in Here.hash : h \in DOMAIN disk
        BY <1>5 DEF DiskHit, DiskHolds
      <3>3. (CHOOSE x \in Here.hash : TRUE) = h
        BY <3>1, <3>2 DEF Optional
      <3>4. QED
        BY <3>1, <3>2, <3>3 DEF PartialFunction
    <2>2. /\ results' = Append(results, v)
          /\ result' = SetOnce(result, AddressAt(Depth), Len(results) + 1)
          /\ frames' = Advance(Depth)
          /\ UNCHANGED <<settings, loaded, selected, mem_cache, disk, stack, outcome>>
      BY <1>5 DEF DiskHit
    <2> HIDE DEF v
    <2>3. results' \in Seq(Values) /\ Len(results') = Len(results) + 1
      BY <1>4, <2>1, <2>2, AppendProperties
    <2>4. FramesOK(frames', loaded)
      BY <1>4, <2>2, AdvanceFrames DEF Advance, Below, Advanced
    <2>5. PartialFunction(result', Addresses, 1..Len(results'))
      BY <1>2, <1>4, <2>2, <2>3, ResultType
    <2>6. PartialFunction(mem_cache, ImportLocation, 1..Len(results'))
      <3>1. 1..Len(results) \subseteq 1..Len(results')
        BY <1>4, <2>3
      <3>2. QED
        BY <3>1, PartialFunctionMonotone DEF TypeOK
    <2>7. QED
      BY <2>2, <2>3, <2>4, <2>5, <2>6 DEF TypeOK, Addresses
  <1>6. CASE MemHit
    <2> DEFINE r == mem_cache[HereLoc]
    <2>1. r \in 1..Len(results)
      BY <1>6 DEF MemHit, TypeOK, PartialFunction
    <2>2. results[r] \in Values
      BY <1>4, <2>1, ElementOfSeq
    <2>3. /\ Conclude(Depth, r, results[r], DiskAfterGet(Here.hash))
          /\ UNCHANGED <<settings, loaded, selected, results, mem_cache, stack>>
      BY <1>6 DEF MemHit
    <2> HIDE DEF r
    <2>4. Len(results) <= Len(results) /\ loaded' = loaded
      BY <1>4, <2>3
    <2>5. /\ PartialFunction(result', Addresses, 1..Len(results))
          /\ PartialFunction(disk', Hashes, Values)
          /\ FramesOK(frames', loaded)
          /\ outcome' \in Outcomes
      BY <1>2, <1>3, <1>4, <2>1, <2>2, <2>3, <2>4, ConcludeType
    <2>6. QED
      BY <2>3, <2>5 DEF TypeOK, Addresses
  <1>7. CASE Cycle
    <2>1. outcome' \in Outcomes
      BY <1>7, OutcomeTypes DEF Cycle, Causes
    <2>2. QED
      BY <1>3, <1>7, <2>1 DEF Cycle, TypeOK, Addresses
  <1>8. CASE FetchLocation
    <2>1. PlaceOf(HereLoc.kind) \in Values
      BY <1>2, ResolutionAssumption
    <2>2. stack' \in Seq(ImportLocation)
      BY <1>8 DEF FetchLocation, TypeOK
    <2>3. QED
      BY <1>2, <1>3, <1>8, <2>1, <2>2, FetchedType DEF FetchLocation
  <1>9. ASSUME NEW answer \in Serve(HereLoc.kind, HereLoc.headers),
               FetchText(answer)
        PROVE  TypeOK'
    <2>1. TextOf(answer.doc) \in Values
      BY <1>1, HereFacts, ResolutionAssumption
    <2>2. stack' \in Seq(ImportLocation)
      BY <1>9 DEF FetchText, TypeOK
    <2>3. QED
      BY <1>2, <1>3, <1>9, <2>1, <2>2, FetchedType DEF FetchText
  <1>10. ASSUME NEW answer \in Serve(HereLoc.kind, HereLoc.headers),
                FetchFails(answer)
         PROVE  TypeOK'
    <2>1. FetchFault(HereBase.kind, HereLoc, answer) \in Causes
      BY <1>10 DEF FetchFails, FetchFault, Causes, Retrieval
    <2>2. outcome' \in Outcomes
      BY <1>10, <2>1, OutcomeTypes DEF FetchFails
    <2>3. QED
      BY <1>3, <1>10, <2>2 DEF FetchFails, TypeOK, Addresses
  <1>11. ASSUME NEW answer \in Serve(HereLoc.kind, HereLoc.headers),
                FetchAborts(answer)
         PROVE  TypeOK'
    <2>1. outcome' \in Outcomes
      BY <1>11, OutcomeTypes DEF FetchAborts
    <2>2. QED
      BY <1>3, <1>11, <2>1 DEF FetchAborts, TypeOK, Addresses
  <1>12. QED
    BY <1>5, <1>6, <1>7, <1>8, <1>9, <1>10, <1>11, LoadType DEF Fetch

(* The steps that begin, finish or give up a side or a document.            *)
LEMMA FrameStepType ==
    ASSUME TypeOK,
           \/ FinishDocument \/ EnterAlternative \/ FinishSide
           \/ Recover \/ LeaveSide \/ LeaveDocument
    PROVE  TypeOK'
  <1>1. /\ FramesOK(frames, loaded) /\ Depth = Len(frames) /\ Depth \in Nat \ {0}
        /\ stack \in Seq(ImportLocation) /\ Len(stack) \in Nat
        /\ outcome \in Outcomes
    BY DepthFacts, LenProperties DEF TypeOK
  <1>2. ASSUME Depth > 1
        PROVE  /\ Depth - 1 \in 1..Len(frames) /\ Depth - 1 \in 1..Depth
               /\ FramesOK(Below(Depth - 1), loaded)
               /\ FramesOK(Advance(Depth - 1), loaded)
    <2>1. Depth - 1 \in 1..Len(frames) /\ Depth - 1 \in 1..Depth
      BY <1>1, <1>2
    <2>2. FramesOK(Below(Depth - 1), loaded)
      BY <1>1, <2>1, BelowFrames DEF Below
    <2>3. FramesOK(Advance(Depth - 1), loaded)
      BY <1>1, <2>1, AdvanceFrames DEF Below, Advance, Advanced
    <2>4. QED
      BY <2>1, <2>2, <2>3
  <1>3. CASE FinishDocument
    <2>1. Depth > 1 /\ Top.role = "document"
      BY <1>3 DEF FinishDocument
    <2>2. /\ frames[Depth - 1].at <= Len(frames[Depth - 1].list)
          /\ NodeAt(Depth - 1) \in DOMAIN DocAt(Depth - 1).imports
      BY <2>1, CallerFacts
    <2>3. CallerLoc \in ImportLocation
      BY <1>2, <2>1, <2>2, NodeFacts DEF CallerLoc
    <2>4. ValueOf(Top.inst) \in Values
      BY CallerFacts, DepthFacts, ValueType
    <2>5. stack' \in Seq(ImportLocation)
      BY <1>1, <1>3, PoppedStack DEF FinishDocument
    <2>6. PartialFunction(disk, Hashes, Values)
      BY DEF TypeOK
    <2>7. QED
      BY <1>2, <1>3, <2>1, <2>2, <2>3, <2>4, <2>5, <2>6, FetchedType DEF FinishDocument
  <1>4. CASE EnterAlternative
    <2>1. /\ frames[Depth].at <= Len(frames[Depth].list)
          /\ NodeAt(Depth) \in DOMAIN DocAt(Depth).alternatives
          /\ Depth \in 1..Depth /\ Top = frames[Depth]
      BY <1>4, CallerFacts DEF EnterAlternative, AtAlternative, AtNode
    <2>2. FramesOK(Append(Below(Depth),
                          Activation(Top.inst, DocAt(Depth).alternatives[NodeAt(Depth)].left,
                                     "left", Len(stack))),
                   loaded)
      BY <1>1, <2>1, SideFrame
    <2>3. Below(Depth) = frames
      <3>1. frames \in Seq(Frame)
        BY <1>1 DEF FramesOK
      <3>2. QED
        BY <1>1, <3>1 DEF Below
    <2>4. FramesOK(frames', loaded)
      BY <1>4, <2>2, <2>3 DEF EnterAlternative
    <2>5. QED
      BY <1>4, <2>4 DEF EnterAlternative, TypeOK, Addresses
  <1>5. CASE FinishSide
    <2>1. Depth > 1
      BY <1>5, CallerFacts DEF FinishSide
    <2>2. AddressAt(Depth - 1) \in Addresses
      BY <1>2, <2>1, CallerFacts, NodeFacts
    <2>3. PartialFunction(selected', Addresses, BOOLEAN)
      <3>1. PartialFunction(selected, Addresses, BOOLEAN)
        BY DEF TypeOK
      <3>2. selected' = SetOnce(selected, AddressAt(Depth - 1), Top.role = "left")
        BY <1>5 DEF FinishSide
      <3>3. (Top.role = "left") \in BOOLEAN
        OBVIOUS
      <3>4. QED
        BY <2>2, <3>1, <3>2, <3>3, SetOnceType
    <2>4. QED
      BY <1>2, <1>5, <2>1, <2>3 DEF FinishSide, TypeOK, Addresses
  <1>6. CASE Recover
    <2>1. Depth > 1 /\ Top.role = "left"
      BY <1>6, CallerFacts DEF Recover
    <2>2. /\ frames[Depth - 1].at <= Len(frames[Depth - 1].list)
          /\ NodeAt(Depth - 1) \in DOMAIN DocAt(Depth - 1).alternatives
          /\ Top.inst = frames[Depth - 1].inst
      BY <2>1, CallerFacts
    <2>3. FramesOK(frames', loaded)
      BY <1>1, <1>2, <1>6, <2>1, <2>2, SideFrame DEF Recover
    <2>4. QED
      BY <1>6, <2>3, OutcomeTypes DEF Recover, TypeOK, Addresses
  <1>7. CASE LeaveSide
    <2>1. Depth > 1
      BY <1>7, CallerFacts DEF LeaveSide
    <2>2. QED
      BY <1>2, <1>7, <2>1 DEF LeaveSide, TypeOK, Addresses
  <1>8. CASE LeaveDocument
    <2>1. Depth > 1
      BY <1>8 DEF LeaveDocument
    <2>2. stack' \in Seq(ImportLocation) /\ outcome' \in Outcomes
      BY <1>1, <1>8, PoppedStack, OutcomeTypes DEF LeaveDocument
    <2>3. QED
      BY <1>2, <1>8, <2>1, <2>2 DEF LeaveDocument, TypeOK, Addresses
  <1>9. QED
    BY <1>3, <1>4, <1>5, <1>6, <1>7, <1>8

(* The steps that only end the call or begin to fail.                       *)
LEMMA OutcomeStepType ==
    ASSUME TypeOK,
           \/ HeadersFail \/ ChainFails \/ ChainAborts \/ RefuseRemote
           \/ DocumentIllTyped \/ FinishRoot \/ GiveUp
    PROVE  TypeOK'
  <1>1. CASE HeadersFail \/ RefuseRemote \/ DocumentIllTyped
    <2>1. Error("TypeError") \in Outcomes /\ Error("RemoteImportsDisabled") \in Outcomes
      BY OutcomeTypes DEF Causes
    <2>2. QED
      BY <1>1, <2>1, StopType DEF HeadersFail, RefuseRemote, DocumentIllTyped
  <1>2. CASE ChainFails
    <2>1. ChainFault(HereBase, Here) \in Causes
      BY <1>2 DEF ChainFails, ChainFault, Causes, Retrieval
    <2>2. QED
      BY <1>2, <2>1, OutcomeTypes, StopType DEF ChainFails
  <1>3. CASE ChainAborts
    BY <1>3, OutcomeTypes, StopType DEF ChainAborts
  <1>4. CASE FinishRoot
    <2>1. [Running EXCEPT !.tag = "resolved"] \in Outcomes
      BY OutcomeTypes DEF Outcomes
    <2>2. QED
      BY <1>4, <2>1, StopType DEF FinishRoot
  <1>5. CASE GiveUp
    <2>1. outcome \in Outcomes
      BY DEF TypeOK
    <2>2. [outcome EXCEPT !.tag = "failed"] \in Outcomes
      BY <2>1 DEF Outcomes
    <2>3. QED
      BY <1>5, <2>2, StopType DEF GiveUp
  <1>6. QED
    BY <1>1, <1>2, <1>3, <1>4, <1>5

LEMMA TypeStep == TypeOK /\ [Next]_vars => TypeOK'
  <1> SUFFICES ASSUME TypeOK, [Next]_vars
               PROVE  TypeOK'
    OBVIOUS
  <1>1. CASE UNCHANGED vars
    BY <1>1 DEF vars, TypeOK, Addresses
  <1>2. CASE Next
    BY <1>1, <1>2, ImportStepType, FrameStepType, OutcomeStepType DEF Next, Done
  <1>3. QED
    BY <1>1, <1>2

(* Every variable keeps its type, and no result, address, activation or     *)
(* cache entry names something that does not exist: the arenas of ctxt.rs   *)
(* are never indexed out of bounds, whatever is imported.                   *)
THEOREM Typing == Spec => []TypeOK
  <1>1. QED
    BY InitType, TypeStep, PTL DEF Spec

-----------------------------------------------------------------------------
(* StackIsCallChain speaks of an activation and its caller; for the         *)
(* induction, levels also grow from each activation to all those above it,  *)
(* so that a pop takes away no entry an activation further down relies on.  *)

CallLocation(fr, docs) ==
    Chain(docs[fr.inst].base, docs[fr.inst].doc.imports[fr.list[fr.at]])

EntryOf(fr, caller, st, docs) ==
    IF fr.role = "document"
    THEN /\ fr.level = caller.level + 1
         /\ st[fr.level] = CallLocation(caller, docs)
    ELSE fr.level = caller.level

StackFollows(fs, st, docs) ==
    /\ fs[1].level = 0
    /\ Len(st) = fs[Len(fs)].level
    /\ \A f \in 2..Len(fs) : EntryOf(fs[f], fs[f - 1], st, docs)
    /\ \A f, g \in 1..Len(fs) : f <= g => fs[f].level <= fs[g].level

StackInv == TypeOK /\ StackFollows(frames, stack, loaded)

LEMMA StackInvImplies == StackInv => StackIsCallChain
  <1> SUFFICES ASSUME StackInv PROVE StackIsCallChain
    OBVIOUS
  <1>1. /\ Depth = Len(frames) /\ Depth \in Nat \ {0} /\ DOMAIN frames = 1..Len(frames)
    BY DepthFacts, LenProperties DEF StackInv, TypeOK, FramesOK
  <1>2. frames[1].level = 0 /\ Len(stack) = Top.level
    BY <1>1 DEF StackInv, StackFollows, Top
  <1>3. ASSUME NEW f \in DOMAIN frames, f > 1
        PROVE  EntryOf(frames[f], frames[f - 1], stack, loaded)
    BY <1>1, <1>3 DEF StackInv, StackFollows
  <1>4. QED
    BY <1>1, <1>2, <1>3 DEF StackIsCallChain, EntryOf, CallLocation, BaseAt, ImportAt,
       DocAt, NodeAt

(* Going back to the n-th activation, perhaps moving it on, with the stack  *)
(* cut to its level.                                                        *)
LEMMA CutStack ==
    ASSUME NEW fs \in Seq(Frame), NEW st, NEW docs, StackFollows(fs, st, docs),
           NEW n \in 1..Len(fs),
           NEW gs \in Seq(Frame), Len(gs) = n,
           \A i \in 1..(n - 1) : gs[i] = fs[i],
           gs[n].role = fs[n].role, gs[n].level = fs[n].level,
           NEW ut, Len(ut) = fs[n].level,
           \A i \in 1..Len(ut) : ut[i] = st[i]
    PROVE  StackFollows(gs, ut, docs)
  <1>1. /\ Len(fs) \in Nat /\ n \in Nat /\ n \in 1..n
        /\ \A i \in 1..n : /\ i \in 1..Len(fs)
                           /\ gs[i] \in Frame /\ fs[i] \in Frame
                           /\ gs[i].level = fs[i].level /\ gs[i].role = fs[i].role
                           /\ gs[i].level \in Nat
    <2>1. Len(fs) \in Nat /\ n \in Nat /\ n \in 1..n
      BY LenProperties
    <2>2. ASSUME NEW i \in 1..n
          PROVE  /\ i \in 1..Len(fs)
                 /\ gs[i] \in Frame /\ fs[i] \in Frame
                 /\ gs[i].level = fs[i].level /\ gs[i].role = fs[i].role
      <3>1. i \in 1..Len(fs) /\ i \in 1..Len(gs) /\ (i \in 1..(n - 1) \/ i = n)
        BY <2>1
      <3>2. gs[i] \in Frame /\ fs[i] \in Frame
        BY <3>1, ElementOfSeq
      <3>3. QED
        BY <3>1, <3>2
    <2>3. QED
      BY <2>1, <2>2 DEF Frame
  <1>2. ASSUME NEW f \in 1..n, NEW g \in 1..n, f <= g
        PROVE  gs[f].level <= gs[g].level
    <2>1. fs[f].level <= fs[g].level
      BY <1>1, <1>2 DEF StackFollows
    <2>2. QED
      BY <1>1, <2>1
  <1>3. gs[1].level = 0
    BY <1>1 DEF StackFollows
  <1>4. ASSUME NEW f \in 2..n
        PROVE  EntryOf(gs[f], gs[f - 1], ut, docs)
    <2>1. f \in 1..n /\ f - 1 \in 1..(n - 1) /\ f - 1 \in 1..n /\ f \in 2..Len(fs)
          /\ f \in 1..Len(fs)
      BY <1>1
    <2>2. EntryOf(fs[f], fs[f - 1], st, docs) /\ gs[f - 1] = fs[f - 1]
      BY <2>1 DEF StackFollows
    <2>3. CASE fs[f].role = "document"
      <3>1. fs[f].level = fs[f - 1].level + 1 /\ st[fs[f].level] = CallLocation(fs[f - 1], docs)
        BY <2>2, <2>3 DEF EntryOf
      <3>2. fs[f].level \in 1..Len(ut)
        <4>1. fs[f].level <= fs[n].level /\ fs[f].level \in Nat /\ fs[f - 1].level \in Nat
          <5>1. f <= n
            BY <1>1, <2>1
          <5>2. fs[f].level <= fs[n].level
            BY <1>1, <2>1, <5>1 DEF StackFollows
          <5>3. QED
            BY <1>1, <2>1, <5>2
        <4>2. QED
          BY <1>1, <3>1, <4>1
      <3>3. QED
        BY <1>1, <2>1, <2>2, <2>3, <3>1, <3>2 DEF EntryOf
    <2>4. CASE fs[f].role # "document"
      BY <1>1, <2>1, <2>2, <2>4 DEF EntryOf
    <2>5. QED
      BY <2>3, <2>4
  <1>5. QED
    BY <1>1, <1>2, <1>3, <1>4 DEF StackFollows

(* A new activation: a side at the level of its caller, or a document one   *)
(* level up with the location of the import it is loaded for.               *)
LEMMA PushStack ==
    ASSUME NEW fs \in Seq(Frame), fs # <<>>, NEW st \in Seq(ImportLocation), NEW docs,
           StackFollows(fs, st, docs), NEW fr \in Frame,
           NEW ut, Len(ut) = fr.level,
           \A i \in 1..Len(st) : ut[i] = st[i],
           EntryOf(fr, fs[Len(fs)], ut, docs)
    PROVE  StackFollows(Append(fs, fr), ut, docs)
  <1> DEFINE gs == Append(fs, fr)
             n == Len(fs)
  <1>1. /\ n \in Nat \ {0} /\ Len(st) \in Nat /\ Len(gs) = n + 1
        /\ \A i \in 1..n : gs[i] = fs[i] /\ fs[i] \in Frame /\ fs[i].level \in Nat
        /\ gs[n + 1] = fr
        /\ fr.level \in Nat
    <2>1. n \in Nat \ {0} /\ Len(st) \in Nat
      BY LenProperties, EmptySeq
    <2>2. \A i \in 1..n : fs[i] \in Frame
      BY <2>1, ElementOfSeq
    <2>3. /\ Len(gs) = n + 1 /\ gs[n + 1] = fr
          /\ \A i \in 1..n : gs[i] = fs[i]
      BY AppendProperties
    <2>4. fr.level \in Nat /\ \A x \in Frame : x.level \in Nat
      BY DEF Frame
    <2>5. QED
      BY <2>1, <2>2, <2>3, <2>4
  <1> HIDE DEF gs
  <1>2. Len(st) = fs[n].level /\ fs[n].level <= fr.level
    <2>1. Len(st) = fs[n].level
      BY DEF StackFollows
    <2>2. fr.level = fs[n].level \/ fr.level = fs[n].level + 1
      BY DEF EntryOf
    <2>3. QED
      BY <1>1, <2>1, <2>2
  <1>3. gs[1].level = 0
    BY <1>1 DEF StackFollows
  <1>4. ASSUME NEW f \in 1..(n + 1), NEW g \in 1..(n + 1), f <= g
        PROVE  gs[f].level <= gs[g].level
    <2>1. CASE g \in 1..n
      <3>1. f \in 1..n
        BY <1>1, <1>4, <2>1
      <3>2. QED
        BY <1>1, <1>4, <2>1, <3>1 DEF StackFollows
    <2>2. CASE g = n + 1 /\ f \in 1..n
      <3>1. f <= n /\ n \in 1..n
        BY <1>1, <2>2
      <3>2. fs[f].level <= fs[n].level
        BY <1>1, <2>2, <3>1 DEF StackFollows
      <3>3. QED
        BY <1>1, <1>2, <2>2, <3>1, <3>2
    <2>3. CASE g = n + 1 /\ f = n + 1
      BY <1>1, <2>3
    <2>4. QED
      BY <1>1, <2>1, <2>2, <2>3
  <1>5. ASSUME NEW f \in 2..(n + 1)
        PROVE  EntryOf(gs[f], gs[f - 1], ut, docs)
    <2>1. CASE f = n + 1
      <3>1. f - 1 = n /\ n \in 1..n
        BY <1>1, <2>1
      <3>2. QED
        BY <1>1, <2>1, <3>1
    <2>2. CASE f \in 2..n
      <3>1. f \in 1..n /\ f - 1 \in 1..n
        BY <1>1, <2>2
      <3>2. EntryOf(fs[f], fs[f - 1], st, docs)
        BY <2>2 DEF StackFollows
      <3>3. fs[f].level <= fs[n].level /\ fs[f].level \in Nat /\ fs[f - 1].level \in Nat
        BY <1>1, <3>1 DEF StackFollows
      <3>4. CASE fs[f].role = "document"
        <4>1. fs[f].level = fs[f - 1].level + 1
              /\ st[fs[f].level] = CallLocation(fs[f - 1], docs)
          BY <3>2, <3>4 DEF EntryOf
        <4>2. fs[f].level \in 1..Len(st)
          BY <1>1, <1>2, <3>3, <4>1
        <4>3. QED
          BY <1>1, <3>1, <3>4, <4>1, <4>2 DEF EntryOf
      <3>5. CASE fs[f].role # "document"
        BY <1>1, <3>1, <3>2, <3>5 DEF EntryOf
      <3>6. QED
        BY <3>4, <3>5
    <2>3. QED
      BY <1>1, <2>1, <2>2
  <1>6. Len(ut) = gs[Len(gs)].level
    BY <1>1
  <1>7. StackFollows(gs, ut, docs)
    BY <1>1, <1>3, <1>4, <1>5, <1>6 DEF StackFollows
  <1>8. QED
    BY <1>7 DEF gs

(* What Below and Advance leave of the activations.                         *)
LEMMA CutFrames ==
    ASSUME FramesOK(frames, loaded), NEW n \in 1..Len(frames),
           NEW gs, gs = Below(n) \/ gs = Advance(n)
    PROVE  /\ frames \in Seq(Frame) /\ gs \in Seq(Frame) /\ gs # <<>> /\ Len(gs) = n
           /\ \A i \in 1..(n - 1) : gs[i] = frames[i]
           /\ gs[n].role = frames[n].role /\ gs[n].level = frames[n].level
           /\ gs[n].inst = frames[n].inst /\ gs[n].list = frames[n].list
  <1>1. /\ FramesOK(Below(n), loaded) /\ Len(Below(n)) = n
        /\ \A i \in 1..n : Below(n)[i] = frames[i]
    BY BelowFrames DEF Below
  <1>2. /\ FramesOK(Advance(n), loaded) /\ Len(Advance(n)) = n
        /\ \A i \in 1..(n - 1) : Advance(n)[i] = frames[i]
        /\ Advance(n)[n] = [frames[n] EXCEPT !.at = @ + 1]
    BY AdvanceFrames DEF Advance, Below, Advanced
  <1>3. frames \in Seq(Frame) /\ n \in 1..n /\ frames[n] \in Frame
    BY LenProperties, ElementOfSeq DEF FramesOK
  <1>4. gs # <<>> /\ gs \in Seq(Frame)
    BY <1>1, <1>2 DEF FramesOK
  <1>5. CASE gs = Below(n)
    BY <1>1, <1>3, <1>4, <1>5
  <1>6. CASE gs = Advance(n)
    <2>1. /\ Advance(n)[n].role = frames[n].role
          /\ Advance(n)[n].level = frames[n].level
          /\ Advance(n)[n].inst = frames[n].inst
          /\ Advance(n)[n].list = frames[n].list
      BY <1>2, <1>3 DEF Frame
    <2>2. QED
      BY <1>2, <1>3, <1>4, <1>6, <2>1
  <1>7. QED
    BY <1>5, <1>6

LEMMA ConcludeFrames ==
    ASSUME NEW f, NEW r, NEW v, NEW files, Conclude(f, r, v, files)
    PROVE  frames' = Below(f) \/ frames' = Advance(f)
  BY DEF Conclude

(* A step that goes back to an activation at the height the stack is cut to *)
LEMMA CutStep ==
    ASSUME StackInv, NEW n \in 1..Len(frames),
           frames' = Below(n) \/ frames' = Advance(n),
           loaded' = loaded,
           \/ stack' = stack /\ frames[n].level = Len(stack)
           \/ stack' = Popped(stack) /\ frames[n].level = Len(stack) - 1
    PROVE  StackFollows(frames', stack', loaded')
  <1>1. /\ FramesOK(frames, loaded) /\ stack \in Seq(ImportLocation)
        /\ StackFollows(frames, stack, loaded)
    BY DEF StackInv, TypeOK
  <1>2. /\ frames \in Seq(Frame) /\ frames' \in Seq(Frame) /\ Len(frames') = n
        /\ \A i \in 1..(n - 1) : frames'[i] = frames[i]
        /\ frames'[n].role = frames[n].role /\ frames'[n].level = frames[n].level
    BY <1>1, CutFrames
  <1>3. frames[n].level \in Nat
    <2>1. frames[n] \in Frame
      BY <1>2, ElementOfSeq
    <2>2. QED
      BY <2>1 DEF Frame
  <1>4. Len(stack') = frames[n].level /\ \A i \in 1..Len(stack') : stack'[i] = stack[i]
    <2>1. CASE stack' = stack /\ frames[n].level = Len(stack)
      BY <2>1
    <2>2. CASE stack' = Popped(stack) /\ frames[n].level = Len(stack) - 1
      <3>1. stack # <<>>
        BY <1>3, <2>2
      <3>2. QED
        BY <1>1, <2>2, <3>1, PoppedStack
    <2>3. QED
      BY <2>1, <2>2
  <1>5. QED
    BY <1>1, <1>2, <1>4, CutStack

LEMMA StackStep == StackInv /\ [Next]_vars => StackFollows(frames', stack', loaded')
  <1> SUFFICES ASSUME StackInv, [Next]_vars
               PROVE  StackFollows(frames', stack', loaded')
    OBVIOUS
  <1>1. /\ TypeOK /\ FramesOK(frames, loaded) /\ frames \in Seq(Frame) /\ frames # <<>>
        /\ StackFollows(frames, stack, loaded)
        /\ stack \in Seq(ImportLocation) /\ Len(stack) \in Nat
        /\ Depth = Len(frames) /\ Depth \in 1..Len(frames)
        /\ Top = frames[Depth] /\ Top \in Frame
    BY DepthFacts, CallerFacts, LenProperties DEF StackInv, TypeOK, FramesOK
  <1>2. Len(stack) = Top.level
    BY <1>1 DEF StackFollows
  <1>3. ASSUME Depth > 1
        PROVE  /\ Depth - 1 \in 1..Len(frames)
               /\ EntryOf(Top, frames[Depth - 1], stack, loaded)
               /\ frames[Depth - 1].level \in Nat
    <2>1. Depth \in 2..Len(frames) /\ Depth - 1 \in 1..Len(frames)
      BY <1>1, <1>3
    <2>2. frames[Depth - 1] \in Frame
      BY <1>1, <2>1, ElementOfSeq
    <2>3. QED
      BY <1>1, <2>1, <2>2 DEF StackFollows, Frame
  <1>4. CASE UNCHANGED <<frames, stack, loaded>>
    BY <1>1, <1>4
  <1>5. CASE \/ DiskHit \/ MemHit \/ FetchLocation
             \/ \E answer \in Serve(HereLoc.kind, HereLoc.headers) : FetchText(answer)
    <2>1. /\ frames' = Below(Depth) \/ frames' = Advance(Depth)
          /\ stack' = stack /\ loaded' = loaded
      BY <1>5, ConcludeFrames DEF DiskHit, MemHit, FetchLocation, FetchText
    <2>2. QED
      BY <1>1, <1>2, <2>1, CutStep
  <1>6. ASSUME NEW answer \in Serve(HereLoc.kind, HereLoc.headers), Load(answer)
        PROVE  StackFollows(frames', stack', loaded')
    <2> DEFINE p == [doc |-> answer.doc, base |-> BaseOf(HereLoc)]
               fr == Activation(Len(loaded) + 1, answer.doc.top, "document",
                                Len(stack) + 1)
    <2>1. /\ loaded' = Append(loaded, p) /\ frames' = Append(frames, fr)
          /\ stack' = Append(stack, HereLoc)
      BY <1>6 DEF Load
    <2>2. AtImport
      BY <1>6 DEF Load, Fetching, MustFetch, PastDisk, Chained
    <2>3. /\ HereLoc \in ImportLocation
          /\ HereLoc = Chain(BaseAt(Depth), ImportAt(Depth))
          /\ answer.doc \in Documents /\ IsDocument(answer.doc)
      BY <1>1, <2>2, HereFacts, ResolutionAssumption
    <2>4. fr \in Frame /\ fr.role = "document" /\ fr.level = Len(stack) + 1
      <3>1. answer.doc.top \in Seq(Nodes(answer.doc)) /\ Nodes(answer.doc) \subseteq Ids
        BY <2>3 DEF IsDocument
      <3>2. answer.doc.top \in Seq(Ids)
        BY <3>1, SeqMonotonic
      <3>3. Len(loaded) \in Nat
        BY <1>1, LenProperties DEF TypeOK
      <3>4. QED
        BY <1>1, <3>2, <3>3 DEF Activation, Frame
    <2>5. p \in Parsed /\ loaded \in Seq(Parsed)
      BY <1>1, <2>3, BaseType DEF Parsed, TypeOK
    <2> HIDE DEF p, fr
    <2>6. \A i \in 1..Len(loaded) : loaded'[i] = loaded[i]
      BY <2>1, <2>5, AppendProperties
    <2>7. \A i \in 1..Len(frames) : frames[i].inst \in 1..Len(loaded)
      BY <1>1 DEF FramesOK, FrameOK
    <2>8. \A i \in 1..Len(frames) :
              CallLocation(frames[i], loaded') = CallLocation(frames[i], loaded)
      BY <2>6, <2>7 DEF CallLocation
    <2>9. StackFollows(frames, stack, loaded')
      <3>1. \A f \in 2..Len(frames) : f - 1 \in 1..Len(frames)
        BY <1>1
      <3>2. QED
        BY <1>1, <2>8, <3>1 DEF StackFollows, EntryOf
    <2>10. /\ Len(stack') = fr.level /\ \A i \in 1..Len(stack) : stack'[i] = stack[i]
           /\ stack'[fr.level] = HereLoc
      BY <1>1, <2>1, <2>3, <2>4, AppendProperties
    <2>11. EntryOf(fr, frames[Len(frames)], stack', loaded')
      <3>1. CallLocation(Top, loaded) = HereLoc
        BY <1>1, <2>3 DEF CallLocation, BaseAt, ImportAt, DocAt, NodeAt
      <3>2. CallLocation(frames[Len(frames)], loaded') = HereLoc
        BY <1>1, <2>8, <3>1
      <3>3. QED
        BY <1>1, <1>2, <2>4, <2>10, <3>2 DEF EntryOf
    <2>12. QED
      BY <1>1, <2>1, <2>4, <2>9, <2>10, <2>11, PushStack
  <1>7. CASE FinishDocument \/ LeaveDocument
    <2>1. /\ Depth > 1 /\ Top.role = "document" /\ loaded' = loaded
          /\ stack' = Popped(stack)
          /\ frames' = Below(Depth - 1) \/ frames' = Advance(Depth - 1)
      BY <1>7, ConcludeFrames DEF FinishDocument, LeaveDocument
    <2>2. frames[Depth - 1].level = Len(stack) - 1
      BY <1>2, <1>3, <2>1 DEF EntryOf
    <2>3. QED
      BY <1>3, <2>1, <2>2, CutStep
  <1>8. CASE FinishSide \/ LeaveSide
    <2>1. /\ Top.role \in {"left", "right"} /\ loaded' = loaded /\ stack' = stack
          /\ frames' = Below(Depth - 1) \/ frames' = Advance(Depth - 1)
      BY <1>8 DEF FinishSide, LeaveSide
    <2>2. Depth > 1
      BY <1>1, <2>1, CallerFacts
    <2>3. frames[Depth - 1].level = Len(stack)
      BY <1>2, <1>3, <2>1, <2>2 DEF EntryOf
    <2>4. QED
      BY <1>3, <2>1, <2>2, <2>3, CutStep
  <1>9. CASE EnterAlternative
    <2> DEFINE fr == Activation(Top.inst, DocAt(Depth).alternatives[NodeAt(Depth)].left,
                                "left", Len(stack))
    <2>1. frames' = Append(frames, fr) /\ stack' = stack /\ loaded' = loaded
      BY <1>9 DEF EnterAlternative
    <2>2. fr.role = "left" /\ fr.level = Len(stack)
      BY DEF Activation
    <2> HIDE DEF fr
    <2>3. fr \in Frame
      <3>1. frames' \in Seq(Frame) /\ Len(frames') = Len(frames) + 1
            /\ frames'[Len(frames) + 1] = fr
        <4>1. TypeOK'
          BY <1>1, <1>9, FrameStepType
        <4>2. frames' \in Seq(Frame)
          BY <4>1 DEF TypeOK, FramesOK
        <4>3. QED
          BY <1>1, <2>1, <4>2
      <3>2. Len(frames) + 1 \in 1..Len(frames')
        BY <1>1, <3>1
      <3>3. QED
        BY <3>1, <3>2, ElementOfSeq
    <2>4. EntryOf(fr, frames[Len(frames)], stack, loaded)
      BY <1>1, <1>2, <2>2 DEF EntryOf
    <2>5. QED
      BY <1>1, <2>1, <2>2, <2>3, <2>4, PushStack
  <1>10. CASE Recover
    <2> DEFINE fr == Activation(Top.inst,
                                DocAt(Depth - 1).alternatives[NodeAt(Depth - 1)].right,
                                "right", Len(stack))
    <2>1. /\ frames' = Append(Below(Depth - 1), fr) /\ stack' = stack
          /\ loaded' = loaded /\ Top.role = "left"
      BY <1>10 DEF Recover
    <2>2. fr.role = "right" /\ fr.level = Len(stack)
      BY DEF Activation
    <2> HIDE DEF fr
    <2>3. Depth > 1
      BY <1>1, <2>1, CallerFacts
    <2>4. frames[Depth - 1].level = Len(stack)
      BY <1>2, <1>3, <2>1, <2>3 DEF EntryOf
    <2>5. /\ Below(Depth - 1) \in Seq(Frame) /\ Below(Depth - 1) # <<>>
          /\ Len(Below(Depth - 1)) = Depth - 1
          /\ \A i \in 1..(Depth - 2) : Below(Depth - 1)[i] = frames[i]
          /\ Below(Depth - 1)[Depth - 1].role = frames[Depth - 1].role
          /\ Below(Depth - 1)[Depth - 1].level = frames[Depth - 1].level
      <3>1. Depth - 1 - 1 = Depth - 2
        BY <1>1
      <3>2. QED
        BY <1>1, <1>3, <2>3, <3>1, CutFrames
    <2>6. StackFollows(Below(Depth - 1), stack, loaded)
      <3>1. Depth - 1 - 1 = Depth - 2
        BY <1>1
      <3>2. QED
        BY <1>1, <1>3, <2>3, <2>4, <2>5, <3>1, CutStack
    <2>7. fr \in Frame
      <3>1. frames' \in Seq(Frame) /\ Len(frames') = Depth /\ frames'[Depth] = fr
        <4>1. TypeOK'
          BY <1>1, <1>10, FrameStepType
        <4>2. frames' \in Seq(Frame)
          BY <4>1 DEF TypeOK, FramesOK
        <4>3. Depth - 1 + 1 = Depth
          BY <1>1
        <4>4. QED
          BY <1>1, <2>1, <2>5, <4>2, <4>3
      <3>2. Depth \in 1..Len(frames')
        BY <1>1, <3>1
      <3>3. QED
        BY <3>1, <3>2, ElementOfSeq
    <2>8. EntryOf(fr, Below(Depth - 1)[Len(Below(Depth - 1))], stack, loaded)
      BY <1>2, <2>2, <2>4, <2>5 DEF EntryOf
    <2>9. QED
      BY <1>1, <2>1, <2>2, <2>5, <2>6, <2>7, <2>8, PushStack
  <1>11. CASE \/ HeadersFail \/ ChainFails \/ ChainAborts \/ RefuseRemote \/ Cycle
              \/ DocumentIllTyped \/ FinishRoot \/ GiveUp \/ Done
              \/ \E answer \in Serve(HereLoc.kind, HereLoc.headers) :
                    FetchFails(answer) \/ FetchAborts(answer)
    <2>1. UNCHANGED <<frames, stack, loaded>>
      BY <1>11 DEF HeadersFail, ChainFails, ChainAborts, RefuseRemote, Cycle,
         DocumentIllTyped, FinishRoot, GiveUp, Done, FetchFails, FetchAborts, Stop, vars
    <2>2. QED
      BY <1>4, <2>1
  <1>12. QED
    BY <1>4, <1>5, <1>6, <1>7, <1>8, <1>9, <1>10, <1>11 DEF Next, Fetch, vars

LEMMA StackInit == Init => StackInv
  <1> SUFFICES ASSUME Init PROVE StackFollows(frames, stack, loaded)
    BY InitType DEF StackInv
  <1>1. Len(stack) = 0 /\ Len(frames) = 1 /\ frames[1].level = 0
    BY DEF Init, Activation
  <1>2. QED
    BY <1>1 DEF StackFollows

LEMMA StackAlways == Spec => []StackInv
  <1>1. StackInv /\ [Next]_vars => StackInv'
    BY TypeStep, StackStep DEF StackInv
  <1>2. QED
    BY <1>1, StackInit, PTL DEF Spec

(* The cycle stack is exactly the chain of imports under way, whether a     *)
(* fetch ended well, failed and was recovered from, or failed for good      *)
(* (with_cycle_detection pops on every path).                               *)
THEOREM StackFollowsCalls == Spec => []StackIsCallChain
  <1>1. QED
    BY StackAlways, StackInvImplies, PTL

-----------------------------------------------------------------------------
(* What a step may do to the cycle stack and the in-memory cache: nothing;  *)
(* answer an import it did not find there; start to load its document; or   *)
(* leave the innermost document under way, with its value or without.  What *)
(* is read is never `missing`, unless `as Location`.                        *)

Quiet ==
    /\ UNCHANGED <<stack, mem_cache>>
    /\ \A i \in 1..Len(results) : results'[i] = results[i]
Readable(loc) == loc.kind.tag = "Missing" => loc.mode = "Location"
Visits(v) ==
    /\ Fetching /\ HereLoc \in ImportLocation /\ v \in Values
    /\ Readable(HereLoc)
    /\ Memoise(HereLoc, v) /\ UNCHANGED stack
Enters ==
    /\ Fetching /\ HereLoc \in ImportLocation
    /\ Readable(HereLoc) /\ HereLoc.mode = "Code"
    /\ stack' = Append(stack, HereLoc) /\ UNCHANGED <<mem_cache, results>>
Finishes(v) ==
    /\ stack # <<>> /\ stack' = Popped(stack)
    /\ v \in Values /\ stack[Len(stack)] \in ImportLocation
    /\ Memoise(stack[Len(stack)], v)
Abandons ==
    /\ stack # <<>> /\ stack' = Popped(stack) /\ UNCHANGED <<mem_cache, results>>

LEMMA StepKinds ==
    ASSUME StackInv, [Next]_vars
    PROVE  /\ UNCHANGED settings
           /\ \/ Quiet \/ Enters \/ Abandons
              \/ \E v \in Values : Visits(v) \/ Finishes(v)
  <1>1. /\ TypeOK /\ Depth = Len(frames) /\ Depth \in 1..Len(frames)
        /\ Top = frames[Depth] /\ Top \in Frame
        /\ stack \in Seq(ImportLocation) /\ Len(stack) \in Nat
        /\ StackFollows(frames, stack, loaded)
        /\ results \in Seq(Values)
    BY DepthFacts, CallerFacts, LenProperties DEF StackInv, TypeOK
  <1>2. ASSUME Depth > 1, Top.role = "document"
        PROVE  /\ stack # <<>> /\ CallerLoc = stack[Len(stack)]
               /\ stack[Len(stack)] \in ImportLocation
    <2>1. Depth \in 2..Len(frames) /\ Depth - 1 \in 1..Len(frames)
      BY <1>1, <1>2
    <2>2. EntryOf(Top, frames[Depth - 1], stack, loaded) /\ Len(stack) = Top.level
      BY <1>1, <2>1 DEF StackFollows
    <2>3. frames[Depth - 1].level \in Nat
      <3>1. frames[Depth - 1] \in Frame
        BY <1>1, <2>1, ElementOfSeq DEF TypeOK, FramesOK
      <3>2. QED
        BY <3>1 DEF Frame
    <2>4. Len(stack) # 0 /\ Len(stack) \in 1..Len(stack)
      BY <1>1, <1>2, <2>2, <2>3 DEF EntryOf
    <2>5. stack # <<>> /\ stack[Len(stack)] \in ImportLocation
      BY <1>1, <2>4, EmptySeq, ElementOfSeq
    <2>6. CallerLoc = stack[Len(stack)]
      BY <1>2, <2>2 DEF EntryOf, CallLocation, CallerLoc, BaseAt, ImportAt, DocAt, NodeAt
    <2>7. QED
      BY <2>5, <2>6
  <1>3. CASE Fetch
    <2>1. Fetching
      BY <1>3 DEF Fetch, FetchLocation
    <2>2. AtImport
      BY <2>1 DEF Fetching, MustFetch, PastDisk, Chained
    <2>3. /\ HereLoc \in ImportLocation /\ HereLoc.kind \in ImportLocationKind
          /\ HereLoc.mode = Here.mode
      BY <1>1, <2>2, HereFacts DEF HereLoc, Chain
    <2>4. CASE FetchLocation
      <3>1. PlaceOf(HereLoc.kind) \in Values
        BY <2>3, ResolutionAssumption
      <3>2. Visits(PlaceOf(HereLoc.kind)) /\ UNCHANGED settings
        BY <2>1, <2>3, <2>4, <3>1 DEF FetchLocation, Visits, Readable
      <3>3. QED
        BY <3>1, <3>2
    <2>5. ASSUME NEW answer \in Serve(HereLoc.kind, HereLoc.headers),
                 FetchText(answer)
          PROVE  UNCHANGED settings /\ \E v \in Values : Visits(v)
      <3>1. TextOf(answer.doc) \in Values
        BY <1>1, <2>2, HereFacts, ResolutionAssumption
      <3>2. Readable(HereLoc)
        BY <2>5 DEF FetchText, FetchFault, Readable
      <3>3. Visits(TextOf(answer.doc)) /\ UNCHANGED settings
        BY <2>1, <2>3, <2>5, <3>1, <3>2 DEF FetchText, Visits
      <3>4. QED
        BY <3>1, <3>3
    <2>6. ASSUME NEW answer \in Serve(HereLoc.kind, HereLoc.headers),
                 FetchFails(answer) \/ FetchAborts(answer)
          PROVE  UNCHANGED settings /\ Quiet
      BY <2>6 DEF FetchFails, FetchAborts, Quiet
    <2>7. ASSUME NEW answer \in Serve(HereLoc.kind, HereLoc.headers),
                 Load(answer)
          PROVE  UNCHANGED settings /\ Enters
      <3>1. Readable(HereLoc)
        BY <2>7 DEF Load, FetchFault, Readable
      <3>2. QED
        BY <2>1, <2>3, <2>7, <3>1 DEF Load, Enters
    <2>8. QED
      BY <1>3, <2>4, <2>5, <2>6, <2>7 DEF Fetch
  <1>4. CASE FinishDocument
    <2>1. Depth > 1 /\ Top.role = "document"
      BY <1>4 DEF FinishDocument
    <2>2. ValueOf(Top.inst) \in Values
      BY <1>1, DepthFacts, ValueType
    <2>3. Finishes(ValueOf(Top.inst)) /\ UNCHANGED settings
      BY <1>2, <1>4, <2>1, <2>2 DEF FinishDocument, Finishes
    <2>4. QED
      BY <2>2, <2>3
  <1>5. CASE LeaveDocument
    BY <1>2, <1>5 DEF LeaveDocument, Abandons
  <1>6. CASE DiskHit
    <2>1. UNCHANGED <<settings, stack, mem_cache>>
      BY <1>6 DEF DiskHit
    <2>2. PICK v : results' = Append(results, v)
      BY <1>6 DEF DiskHit
    <2>3. \A i \in 1..Len(results) : results'[i] = results[i]
      BY <1>1, <2>2
    <2>4. QED
      BY <2>1, <2>3 DEF Quiet
  <1>7. CASE \/ HeadersFail \/ ChainFails \/ ChainAborts \/ RefuseRemote \/ MemHit
             \/ Cycle \/ DocumentIllTyped \/ FinishRoot \/ GiveUp \/ Done
             \/ EnterAlternative \/ FinishSide \/ Recover \/ LeaveSide
             \/ UNCHANGED vars
    <2>1. UNCHANGED <<settings, stack, mem_cache, results>>
      BY <1>7 DEF HeadersFail, ChainFails, ChainAborts, RefuseRemote, MemHit, Cycle,
         DocumentIllTyped, FinishRoot, GiveUp, Done, EnterAlternative, FinishSide,
         Recover, LeaveSide, Stop, vars
    <2>2. QED
      BY <2>1 DEF Quiet
  <1>8. QED
    BY <1>3, <1>4, <1>5, <1>6, <1>7 DEF Next

-----------------------------------------------------------------------------
PendingInv == PendingLocationsAreDistinctAndUncached

LEMMA PendingStep == StackInv /\ PendingInv /\ [Next]_vars => PendingInv'
  <1> SUFFICES ASSUME StackInv, PendingInv, [Next]_vars
               PROVE  PendingInv'
    OBVIOUS
  <1>1. stack \in Seq(ImportLocation) /\ Len(stack) \in Nat /\ DOMAIN stack = 1..Len(stack)
    BY LenProperties DEF StackInv, TypeOK
  <1>2. CASE Quiet
    BY <1>2 DEF Quiet, PendingInv, PendingLocationsAreDistinctAndUncached
  <1>3. ASSUME NEW v \in Values, Visits(v)
        PROVE  PendingInv'
    BY <1>3 DEF Visits, Fetching, InStack, Memoise, Insert, PendingInv,
       PendingLocationsAreDistinctAndUncached
  <1>4. CASE Enters
    <2>1. /\ stack' \in Seq(ImportLocation) /\ DOMAIN stack' = 1..(Len(stack) + 1)
          /\ \A i \in 1..Len(stack) : stack'[i] = stack[i]
          /\ stack'[Len(stack) + 1] = HereLoc
      BY <1>1, <1>4, AppendProperties, LenProperties DEF Enters
    <2>2. \A i \in 1..(Len(stack) + 1) : i \in 1..Len(stack) \/ i = Len(stack) + 1
      BY <1>1
    <2>3. HereLoc \notin DOMAIN mem_cache /\ \A i \in 1..Len(stack) : stack[i] # HereLoc
      BY <1>1, <1>4 DEF Enters, Fetching, MustFetch, InStack
    <2>4. QED
      BY <1>1, <1>4, <2>1, <2>2, <2>3
         DEF Enters, PendingInv, PendingLocationsAreDistinctAndUncached
  <1>5. ASSUME stack # <<>>, stack' = Popped(stack)
        PROVE  /\ DOMAIN stack' = 1..(Len(stack) - 1)
               /\ Len(stack) \in DOMAIN stack /\ Len(stack) \notin DOMAIN stack'
               /\ \A i \in DOMAIN stack' : i \in DOMAIN stack /\ stack'[i] = stack[i]
    <2>1. /\ stack' \in Seq(ImportLocation) /\ Len(stack') = Len(stack) - 1
          /\ Len(stack) \in Nat \ {0}
          /\ \A i \in 1..(Len(stack) - 1) : stack'[i] = stack[i]
      BY <1>1, <1>5, PoppedStack
    <2>2. DOMAIN stack' = 1..(Len(stack) - 1)
      BY <2>1, LenProperties
    <2>3. QED
      BY <1>1, <2>1, <2>2
  <1>6. ASSUME NEW v \in Values, Finishes(v)
        PROVE  PendingInv'
    <2>1. /\ stack # <<>> /\ stack' = Popped(stack)
          /\ DOMAIN mem_cache' = (DOMAIN mem_cache) \cup {stack[Len(stack)]}
      BY <1>6 DEF Finishes, Memoise, Insert
    <2>2. QED
      BY <1>5, <2>1 DEF PendingInv, PendingLocationsAreDistinctAndUncached
  <1>7. CASE Abandons
    BY <1>5, <1>7 DEF Abandons, PendingInv, PendingLocationsAreDistinctAndUncached
  <1>8. QED
    BY <1>2, <1>3, <1>4, <1>6, <1>7, StepKinds

(* However imports nest, fail and are recovered from, no location is under  *)
(* way twice and none that is under way has an entry in the in-memory       *)
(* cache, so the cycle check of with_cycle_detection is never bypassed.     *)
THEOREM PendingStaysApart == Spec => []PendingLocationsAreDistinctAndUncached
  <1>1. Init => PendingInv
    BY DEF Init, PendingInv, PendingLocationsAreDistinctAndUncached
  <1>2. PendingInv => PendingLocationsAreDistinctAndUncached
    BY DEF PendingInv
  <1>3. QED
    BY <1>1, <1>2, PendingStep, StackAlways, PTL DEF Spec

-----------------------------------------------------------------------------
LEMMA RemoteStep == StackInv /\ RemoteRefused /\ [Next]_vars => RemoteRefused'
  <1> SUFFICES ASSUME StackInv, RemoteRefused, [Next]_vars
               PROVE  RemoteRefused'
    OBVIOUS
  <1> settings' = settings
    BY StepKinds
  <1> SUFFICES ASSUME ~settings.allow_remote
               PROVE  RemoteRefused'
    BY DEF RemoteRefused
  <1>1. /\ stack \in Seq(ImportLocation) /\ Len(stack) \in Nat
        /\ DOMAIN stack = 1..Len(stack)
    BY LenProperties DEF StackInv, TypeOK
  <1>2. /\ \A i \in DOMAIN stack : stack[i].kind.tag # "Remote"
        /\ \A l \in DOMAIN mem_cache : l.kind.tag # "Remote"
    BY DEF RemoteRefused
  <1>3. Fetching => HereLoc.kind.tag # "Remote"
    BY DEF Fetching, MustFetch, PastDisk, RemoteAllowed
  <1>4. CASE Quiet
    BY <1>2, <1>4 DEF Quiet, RemoteRefused
  <1>5. ASSUME NEW v \in Values, Visits(v)
        PROVE  RemoteRefused'
    BY <1>2, <1>3, <1>5 DEF Visits, Memoise, Insert, RemoteRefused
  <1>6. CASE Enters
    <2>1. /\ stack' \in Seq(ImportLocation) /\ DOMAIN stack' = 1..(Len(stack) + 1)
          /\ \A i \in 1..Len(stack) : stack'[i] = stack[i]
          /\ stack'[Len(stack) + 1] = HereLoc
      BY <1>1, <1>6, AppendProperties, LenProperties DEF Enters
    <2>2. \A i \in 1..(Len(stack) + 1) : i \in 1..Len(stack) \/ i = Len(stack) + 1
      BY <1>1
    <2>3. QED
      BY <1>1, <1>2, <1>3, <1>6, <2>1, <2>2 DEF Enters, RemoteRefused
  <1>7. ASSUME stack # <<>>, stack' = Popped(stack)
        PROVE  /\ Len(stack) \in DOMAIN stack
               /\ \A i \in DOMAIN stack' : i \in DOMAIN stack /\ stack'[i] = stack[i]
    <2>1. /\ stack' \in Seq(ImportLocation) /\ Len(stack') = Len(stack) - 1
          /\ Len(stack) \in Nat \ {0}
          /\ \A i \in 1..(Len(stack) - 1) : stack'[i] = stack[i]
      BY <1>1, <1>7, PoppedStack
    <2>2. DOMAIN stack' = 1..(Len(stack) - 1)
      BY <2>1, LenProperties
    <2>3. QED
      BY <1>1, <2>1, <2>2
  <1>8. ASSUME NEW v \in Values, Finishes(v)
        PROVE  RemoteRefused'
    <2>1. /\ stack # <<>> /\ stack' = Popped(stack)
          /\ DOMAIN mem_cache' = (DOMAIN mem_cache) \cup {stack[Len(stack)]}
      BY <1>8 DEF Finishes, Memoise, Insert
    <2>2. QED
      BY <1>2, <1>7, <2>1 DEF RemoteRefused
  <1>9. CASE Abandons
    BY <1>2, <1>7, <1>9 DEF Abandons, RemoteRefused
  <1>10. QED
    BY <1>4, <1>5, <1>6, <1>8, <1>9, StepKinds

(* A context made without remote imports never starts to read a remote      *)
(* location and never caches one, however the location was written and      *)
(* however deep the document that imports it (fetch_import).                *)
THEOREM RemoteStaysRefused == Spec => []RemoteRefused
  <1>1. Init => RemoteRefused
    BY DEF Init, RemoteRefused
  <1>2. QED
    BY <1>1, RemoteStep, StackAlways, PTL DEF Spec

-----------------------------------------------------------------------------
(* The refinement of ImportMemo.  The value of a location is the result its *)
(* entry in the in-memory cache points at.                                  *)

ValueMap == [l \in DOMAIN mem_cache |-> results[mem_cache[l]]]

LEMMA QuietValues ==
    ASSUME StackInv, UNCHANGED mem_cache,
           \A i \in 1..Len(results) : results'[i] = results[i]
    PROVE  ValueMap' = ValueMap
  <1>1. \A l \in DOMAIN mem_cache : mem_cache[l] \in 1..Len(results)
    BY DEF StackInv, TypeOK, PartialFunction
  <1>2. QED
    BY <1>1 DEF ValueMap

LEMMA NewValue ==
    ASSUME StackInv, NEW loc \in ImportLocation, NEW v \in Values, Memoise(loc, v)
    PROVE  ValueMap' = [l \in (DOMAIN ValueMap) \cup {loc} |->
                            IF l = loc THEN v ELSE ValueMap[l]]
  <1>1. /\ Len(results) \in Nat
        /\ \A i \in 1..Len(results) : results'[i] = results[i]
        /\ results'[Len(results) + 1] = v
    BY MemoiseType DEF StackInv
  <1>2. mem_cache' = [l \in (DOMAIN mem_cache) \cup {loc} |->
                          IF l = loc THEN Len(results) + 1 ELSE mem_cache[l]]
    BY DEF Memoise, Insert
  <1>3. \A l \in DOMAIN mem_cache : mem_cache[l] \in 1..Len(results)
    BY DEF StackInv, TypeOK, PartialFunction
  <1>4. QED
    BY <1>1, <1>2, <1>3 DEF ValueMap

LEMMA MemoStep == StackInv /\ [Next]_vars => [Memo!MemoNext]_(Memo!memoVars)
  <1> SUFFICES ASSUME StackInv, [Next]_vars
               PROVE  [Memo!MemoNext]_(Memo!memoVars)
    OBVIOUS
  <1>1. DOMAIN ValueMap = DOMAIN mem_cache
    BY DEF ValueMap
  <1>2. Fetching => /\ HereLoc \notin DOMAIN ValueMap
                    /\ ~ \E i \in DOMAIN stack : stack[i] = HereLoc
    BY <1>1 DEF Fetching, MustFetch, InStack
  <1>3. CASE Quiet
    <2>1. stack' = stack /\ ValueMap' = ValueMap
      BY <1>3, QuietValues DEF Quiet
    <2>2. QED
      BY <2>1 DEF Memo!memoVars, ValueMap
  <1>4. CASE Enters
    <2>1. ValueMap' = ValueMap
      BY <1>4 DEF Enters, ValueMap
    <2>2. Memo!Enter(HereLoc)
      BY <1>2, <1>4, <2>1 DEF Enters, Memo!Enter, Memo!Unvisited, Memo!OnPath, ValueMap
    <2>3. QED
      BY <1>4, <2>2 DEF Enters, Memo!MemoNext
  <1>5. CASE Abandons
    <2>1. ValueMap' = ValueMap
      BY <1>5 DEF Abandons, ValueMap
    <2>2. Memo!Abandon
      BY <1>5, <2>1 DEF Abandons, Memo!Abandon, Memo!Left, Popped, ValueMap
    <2>3. QED
      BY <2>2 DEF Memo!MemoNext
  <1>6. ASSUME NEW v \in Values, Visits(v)
        PROVE  Memo!MemoNext
    <2>1. PICK loc \in ImportLocation : loc = HereLoc
      BY <1>6 DEF Visits
    <2>2. ValueMap' = [l \in (DOMAIN ValueMap) \cup {loc} |->
                          IF l = loc THEN v ELSE ValueMap[l]]
      BY <1>6, <2>1, NewValue DEF Visits
    <2>3. loc \in DOMAIN ValueMap'
      BY <2>2
    <2>4. Memo!Visit(loc)
      BY <1>2, <1>6, <2>1, <2>2, <2>3
         DEF Visits, Memo!Visit, Memo!Unvisited, Memo!OnPath, Memo!With, ValueMap
    <2>5. QED
      BY <2>4 DEF Memo!MemoNext
  <1>7. ASSUME NEW v \in Values, Finishes(v)
        PROVE  Memo!MemoNext
    <2>1. ValueMap' = [l \in (DOMAIN ValueMap) \cup {stack[Len(stack)]} |->
                          IF l = stack[Len(stack)] THEN v ELSE ValueMap[l]]
      BY <1>7, NewValue DEF Finishes
    <2>2. Memo!Finish(v)
      BY <1>7, <2>1 DEF Finishes, Memo!Finish, Memo!Left, Memo!With, Popped, ValueMap
    <2>3. QED
      BY <2>2 DEF Memo!MemoNext
  <1>8. QED
    BY <1>3, <1>4, <1>5, <1>6, <1>7, StepKinds

LEMMA MemoInitially == Init => Memo!MemoInit
  BY DEF Init, Memo!MemoInit

(* The resolver is the abstract walk: it enters a location only when it has *)
(* no value and is not under way, gives it a value at most once, and leaves *)
(* locations in the reverse of the order it entered them.                   *)
THEOREM Refinement == Spec => ImplementsMemo
  <1>1. QED
    BY MemoInitially, MemoStep, StackAlways, PTL DEF Spec, ImplementsMemo, Memo!MemoSpec
=============================================================================
