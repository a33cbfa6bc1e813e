-------------------------- MODULE ImportResultProofs --------------------------
(***************************************************************************)
(* What the import resolver promises of the values it hands out, for every *)
(* set of documents, answers and values: nothing an expression may have    *)
(* read ever changes (FactsNeverChange); an integrity check holds wherever *)
(* the value came from (IntegrityIsHonoured); one location has one result  *)
(* (LocationsHaveOneResult); and `?` goes on with its right side exactly   *)
(* when something could not be retrieved (FallbackFollowsRule).  And where *)
(* it may reach: header lists go to the host they were written for and on  *)
(* by relative imports only (HeadersTravel), and what a remote document    *)
(* imports, directly or through others, is remote (RemoteCodeStaysRemote). *)
(***************************************************************************)
EXTENDS ImportProofs

-----------------------------------------------------------------------------
(* What a step may do to the arenas: they grow, and the cell of at most one *)
(* import is set.                                                           *)

Grow ==
    /\ \A i \in 1..Len(results) : i \in 1..Len(results') /\ results'[i] = results[i]
    /\ \A n \in 1..Len(loaded) : n \in 1..Len(loaded') /\ loaded'[n] = loaded[n]

(* The value has the digest, or it is the one of its location that the      *)
(* in-memory cache has from then on.                                        *)
VouchedFor(f, r) ==
    \/ \E h \in ImportAt(f).hash : Sha(results'[r]) = h
    \/ /\ Chain(BaseAt(f), ImportAt(f)) \in DOMAIN mem_cache'
       /\ mem_cache'[Chain(BaseAt(f), ImportAt(f))] = r
       /\ HashAgrees(ImportAt(f), results'[r])

Answers(f, r) ==
    /\ \/ f = Depth /\ Chained
       \/ f = Depth - 1 /\ FinishDocument
    /\ frames[f].at <= Len(frames[f].list)
    /\ NodeAt(f) \in DOMAIN DocAt(f).imports
    /\ UNCHANGED <<loaded, selected>>
    /\ result' = SetOnce(result, AddressAt(f), r)
    /\ VouchedFor(f, r)

(* The end of fetch_import, for a value the in-memory cache has.            *)
LEMMA ConcludeAnswers ==
    ASSUME NEW f, NEW r, NEW v, NEW files, Conclude(f, r, v, files),
           \/ f = Depth /\ Chained
           \/ f = Depth - 1 /\ FinishDocument,
           frames[f].at <= Len(frames[f].list),
           NodeAt(f) \in DOMAIN DocAt(f).imports,
           UNCHANGED <<loaded, selected>>,
           Chain(BaseAt(f), ImportAt(f)) \in DOMAIN mem_cache',
           mem_cache'[Chain(BaseAt(f), ImportAt(f))] = r,
           results'[r] = v
    PROVE  UNCHANGED result \/ Answers(f, r)
  <1>1. CASE HashAgrees(ImportAt(f), v)
    BY <1>1 DEF Conclude, Answers, VouchedFor
  <1>2. CASE ~HashAgrees(ImportAt(f), v)
    BY <1>2 DEF Conclude
  <1>3. QED
    BY <1>1, <1>2

(* The same for one that is memoised in the same step.                      *)
LEMMA FetchedAnswers ==
    ASSUME TypeOK, NEW f, NEW v \in Values, NEW files,
           Conclude(f, Len(results) + 1, v, files),
           Chain(BaseAt(f), ImportAt(f)) \in ImportLocation,
           Memoise(Chain(BaseAt(f), ImportAt(f)), v),
           \/ f = Depth /\ Chained
           \/ f = Depth - 1 /\ FinishDocument,
           frames[f].at <= Len(frames[f].list),
           NodeAt(f) \in DOMAIN DocAt(f).imports,
           UNCHANGED <<loaded, selected>>
    PROVE  /\ Len(results) + 1 \in 1..Len(results')
           /\ Grow
           /\ UNCHANGED result \/ Answers(f, Len(results) + 1)
  <1> DEFINE loc == Chain(BaseAt(f), ImportAt(f))
  <1>1. /\ Len(results) \in Nat /\ Len(results') = Len(results) + 1
        /\ \A i \in 1..Len(results) : results'[i] = results[i]
        /\ results'[Len(results) + 1] = v
    BY MemoiseType
  <1>2. loc \in DOMAIN mem_cache' /\ mem_cache'[loc] = Len(results) + 1
    BY DEF Memoise, Insert
  <1> HIDE DEF loc
  <1>3. Len(results) + 1 \in 1..Len(results') /\ Grow
    BY <1>1 DEF Grow
  <1>4. UNCHANGED result \/ Answers(f, Len(results) + 1)
    BY <1>1, <1>2, ConcludeAnswers DEF loc
  <1>5. QED
    BY <1>3, <1>4

(* A step answers at most one import, and for good.                         *)
LEMMA ResultKinds ==
    ASSUME StackInv, [Next]_vars
    PROVE  /\ Grow
           /\ \/ UNCHANGED result
              \/ \E f \in 1..Depth : \E r \in 1..Len(results') : Answers(f, r)
  <1>1. /\ TypeOK /\ results \in Seq(Values) /\ Len(results) \in Nat
        /\ loaded \in Seq(Parsed) /\ Len(loaded) \in Nat
        /\ Depth \in 1..Depth
    BY CallerFacts, LenProperties DEF StackInv, TypeOK
  <1>2. ASSUME Fetching \/ MemHit \/ DiskHit
        PROVE  /\ Chained /\ HereLoc = Chain(BaseAt(Depth), ImportAt(Depth))
               /\ HereLoc \in ImportLocation /\ HereLoc.kind \in ImportLocationKind
               /\ Here = ImportAt(Depth)
               /\ frames[Depth].at <= Len(frames[Depth].list)
               /\ NodeAt(Depth) \in DOMAIN DocAt(Depth).imports
               /\ \A answer \in Serve(HereLoc.kind, HereLoc.headers) :
                     TextOf(answer.doc) \in Values
    <2>1. Chained /\ AtImport
      BY <1>2 DEF Fetching, MustFetch, MemHit, DiskHit, PastDisk, Chained
    <2>2. QED
      BY <1>1, <2>1, HereFacts, ResolutionAssumption
  <1>3. ASSUME UNCHANGED <<results, loaded>>
        PROVE  Grow
    BY <1>3 DEF Grow
  <1>4. CASE DiskHit
    <2> DEFINE v == disk[CHOOSE h \in Here.hash : TRUE]
    <2>1. /\ results' = Append(results, v)
          /\ result' = SetOnce(result, AddressAt(Depth), Len(results) + 1)
          /\ UNCHANGED <<loaded, selected>>
      BY <1>4 DEF DiskHit
    <2>2. PICK h \in Here.hash : h \in DOMAIN disk /\ Sha(disk[h]) = h
      BY <1>4 DEF DiskHit, DiskHolds
    <2>3. v = disk[h]
      <3>1. Here.hash \in Optional(Hashes)
        BY <1>1, <1>2, <1>4, HereFacts DEF Import, Chained
      <3>2. (CHOOSE x \in Here.hash : TRUE) = h
        BY <2>2, <3>1 DEF Optional
      <3>3. QED
        BY <3>2
    <2>4. disk[h] \in Values
      BY <1>1, <2>2 DEF TypeOK, PartialFunction
    <2> HIDE DEF v
    <2>5. /\ Len(results') = Len(results) + 1
          /\ \A i \in 1..Len(results) : results'[i] = results[i]
          /\ results'[Len(results) + 1] = disk[h]
      BY <1>1, <2>1, <2>3, <2>4, AppendProperties
    <2>6. Grow /\ Len(results) + 1 \in 1..Len(results')
      BY <1>1, <2>1, <2>5 DEF Grow
    <2>7. VouchedFor(Depth, Len(results) + 1)
      BY <1>2, <1>4, <2>2, <2>5 DEF VouchedFor
    <2>8. Answers(Depth, Len(results) + 1)
      BY <1>2, <1>4, <2>1, <2>7 DEF Answers
    <2>9. QED
      BY <1>1, <2>6, <2>8
  <1>5. CASE MemHit
    <2> DEFINE r == mem_cache[HereLoc]
    <2>1. /\ HereLoc \in DOMAIN mem_cache
          /\ Conclude(Depth, r, results[r], DiskAfterGet(Here.hash))
          /\ UNCHANGED <<loaded, selected, results, mem_cache>>
      BY <1>5 DEF MemHit
    <2>2. r \in 1..Len(results')
      BY <1>1, <2>1 DEF TypeOK, PartialFunction
    <2>3. UNCHANGED result \/ Answers(Depth, r)
      BY <1>2, <1>5, <2>1, ConcludeAnswers
    <2>4. QED
      BY <1>1, <1>3, <2>1, <2>2, <2>3
  <1>6. CASE FetchLocation
    <2>1. /\ Fetching /\ Memoise(HereLoc, PlaceOf(HereLoc.kind))
          /\ Conclude(Depth, Len(results) + 1, PlaceOf(HereLoc.kind),
                      DiskAfterGet(Here.hash))
          /\ UNCHANGED <<loaded, selected>>
      BY <1>6 DEF FetchLocation
    <2>2. PlaceOf(HereLoc.kind) \in Values
      BY <1>2, <2>1, ResolutionAssumption
    <2>3. QED
      BY <1>1, <1>2, <2>1, <2>2, FetchedAnswers
  <1>7. ASSUME NEW answer \in Serve(HereLoc.kind, HereLoc.headers), FetchText(answer)
        PROVE  /\ Grow
               /\ \/ UNCHANGED result
                  \/ \E f \in 1..Depth : \E r \in 1..Len(results') : Answers(f, r)
    <2>1. /\ Fetching /\ Memoise(HereLoc, TextOf(answer.doc))
          /\ Conclude(Depth, Len(results) + 1, TextOf(answer.doc),
                      DiskAfterGet(Here.hash))
          /\ UNCHANGED <<loaded, selected>>
      BY <1>7 DEF FetchText
    <2>2. TextOf(answer.doc) \in Values
      BY <1>2, <2>1
    <2>3. QED
      BY <1>1, <1>2, <2>1, <2>2, FetchedAnswers
  <1>8. CASE FinishDocument
    <2>1. /\ Depth > 1 /\ Top.role = "document"
          /\ Memoise(CallerLoc, ValueOf(Top.inst))
          /\ Conclude(Depth - 1, Len(results) + 1, ValueOf(Top.inst), disk)
          /\ UNCHANGED <<loaded, selected>>
      BY <1>8 DEF FinishDocument
    <2>2. /\ Depth - 1 \in 1..Depth
          /\ frames[Depth - 1].at <= Len(frames[Depth - 1].list)
          /\ NodeAt(Depth - 1) \in DOMAIN DocAt(Depth - 1).imports
          /\ ValueOf(Top.inst) \in Values
      BY <1>1, <2>1, CallerFacts, DepthFacts, ValueType
    <2>3. /\ CallerLoc = Chain(BaseAt(Depth - 1), ImportAt(Depth - 1))
          /\ CallerLoc \in ImportLocation
      BY <1>1, <2>2, NodeFacts DEF CallerLoc
    <2>4. QED
      BY <1>1, <1>8, <2>1, <2>2, <2>3, FetchedAnswers
  <1>9. ASSUME NEW answer \in Serve(HereLoc.kind, HereLoc.headers), Load(answer)
        PROVE  Grow /\ UNCHANGED result
    <2>1. /\ loaded' = Append(loaded, [doc |-> answer.doc, base |-> BaseOf(HereLoc)])
          /\ UNCHANGED <<results, result>> /\ Fetching
      BY <1>9 DEF Load
    <2>2. [doc |-> answer.doc, base |-> BaseOf(HereLoc)] \in Parsed
      <3>1. AtImport
        BY <1>2, <2>1 DEF Chained
      <3>2. HereLoc \in ImportLocation /\ answer.doc \in Documents
        BY <1>1, <3>1, HereFacts
      <3>3. QED
        BY <3>2, BaseType DEF Parsed
    <2>3. /\ Len(loaded') = Len(loaded) + 1
          /\ \A n \in 1..Len(loaded) : loaded'[n] = loaded[n]
      BY <1>1, <2>1, <2>2, AppendProperties
    <2>4. QED
      BY <1>1, <2>1, <2>3 DEF Grow
  <1>10. CASE \/ HeadersFail \/ ChainFails \/ ChainAborts \/ RefuseRemote \/ Cycle
              \/ DocumentIllTyped \/ FinishRoot \/ GiveUp \/ Done
              \/ EnterAlternative \/ FinishSide \/ Recover \/ LeaveSide
              \/ LeaveDocument \/ UNCHANGED vars
              \/ \E answer \in Serve(HereLoc.kind, HereLoc.headers) :
                    FetchFails(answer) \/ FetchAborts(answer)
    <2>1. UNCHANGED <<results, loaded, result>>
      BY <1>10 DEF HeadersFail, ChainFails, ChainAborts, RefuseRemote, Cycle,
         DocumentIllTyped, FinishRoot, GiveUp, Done, EnterAlternative, FinishSide,
         Recover, LeaveSide, LeaveDocument, FetchFails, FetchAborts, Stop, vars
    <2>2. QED
      BY <1>3, <2>1
  <1>11. QED
    BY <1>4, <1>5, <1>6, <1>7, <1>8, <1>9, <1>10 DEF Next, Fetch

(* What a step leaves of the addresses and imports of loaded documents.     *)
LEMMA ImportsStay ==
    ASSUME TypeOK, Grow, NEW a \in Addresses
    PROVE  /\ Import_(a[1], a[2])' = Import_(a[1], a[2])
           /\ LocOf(a[1], a[2])' = LocOf(a[1], a[2])
           /\ loaded'[a[1]] = loaded[a[1]]
  <1>1. a[1] \in 1..Len(loaded)
    BY DEF Addresses
  <1>2. loaded'[a[1]] = loaded[a[1]]
    BY <1>1 DEF Grow
  <1>3. QED
    BY <1>2 DEF Import_, LocOf

(* What an answered import is, by its address.                              *)
LEMMA AnsweredImport ==
    ASSUME TypeOK, NEW f \in 1..Depth, NEW r, Answers(f, r)
    PROVE  /\ AddressAt(f) \in Addresses
           /\ Import_(AddressAt(f)[1], AddressAt(f)[2]) = ImportAt(f)
           /\ LocOf(AddressAt(f)[1], AddressAt(f)[2]) = Chain(BaseAt(f), ImportAt(f))
           /\ loaded[AddressAt(f)[1]].base = BaseAt(f)
           /\ ImportAt(f) \in Import
           /\ result' = SetOnce(result, AddressAt(f), r)
  <1>1. AddressAt(f) \in Addresses /\ ImportAt(f) \in Import
    BY NodeFacts DEF Answers
  <1>2. AddressAt(f)[1] = frames[f].inst /\ AddressAt(f)[2] = NodeAt(f)
    BY DEF AddressAt
  <1>3. QED
    BY <1>1, <1>2 DEF Answers, Import_, LocOf, ImportAt, BaseAt, DocAt

-----------------------------------------------------------------------------
(* Facts are final.                                                         *)

(* A location is memoised once: while it is under way it has no entry, and  *)
(* one that has an entry is not fetched.                                    *)
LEMMA CacheExtends ==
    ASSUME StackInv, PendingInv, [Next]_vars
    PROVE  Extends(mem_cache', mem_cache)
  <1>1. ASSUME NEW loc, loc \notin DOMAIN mem_cache, NEW v, Memoise(loc, v)
        PROVE  Extends(mem_cache', mem_cache)
    BY <1>1 DEF Memoise, Insert, Extends
  <1>2. ASSUME NEW v \in Values, Visits(v)
        PROVE  Extends(mem_cache', mem_cache)
    BY <1>1, <1>2 DEF Visits, Fetching, MustFetch
  <1>3. ASSUME NEW v \in Values, Finishes(v)
        PROVE  Extends(mem_cache', mem_cache)
    <2>1. Len(stack) \in DOMAIN stack
      <3>1. stack \in Seq(ImportLocation) /\ stack # <<>>
        BY <1>3 DEF Finishes, StackInv, TypeOK
      <3>2. Len(stack) \in Nat \ {0} /\ DOMAIN stack = 1..Len(stack)
        BY <3>1, LenProperties, EmptySeq
      <3>3. QED
        BY <3>2
    <2>2. stack[Len(stack)] \notin DOMAIN mem_cache
      BY <2>1 DEF PendingInv, PendingLocationsAreDistinctAndUncached
    <2>3. QED
      BY <1>1, <1>3, <2>2 DEF Finishes
  <1>4. CASE Quiet \/ Enters \/ Abandons
    BY <1>4 DEF Quiet, Enters, Abandons, Extends
  <1>5. QED
    BY <1>2, <1>3, <1>4, StepKinds

(* OnceCell::set never changes a value that is there.                       *)
LEMMA SetOnceExtends ==
    ASSUME NEW cells, NEW a, NEW v
    PROVE  Extends(SetOnce(cells, a, v), cells)
  BY DEF SetOnce, Extends

(* A choice that was made stays.                                            *)
LEMMA SelectedExtends ==
    ASSUME StackInv, [Next]_vars
    PROVE  Extends(selected', selected)
  <1>1. CASE FinishSide
    BY <1>1, SetOnceExtends DEF FinishSide
  <1>2. CASE UNCHANGED selected
    BY <1>2 DEF Extends
  <1>3. QED
    BY <1>1, <1>2
       DEF Next, Fetch, HeadersFail, ChainFails, ChainAborts, RefuseRemote, DiskHit,
           MemHit, Cycle, FetchLocation, FetchText, FetchFails, FetchAborts, Load,
           FinishDocument, DocumentIllTyped, FinishRoot, EnterAlternative, Recover,
           LeaveSide, LeaveDocument, GiveUp, Done, Stop, vars

(* No step takes back a fact.                                               *)
LEMMA FactsStep ==
    ASSUME StackInv, PendingInv, [Next]_vars
    PROVE  FactsOnlyGrow
  <1>1. /\ Grow
        /\ \/ UNCHANGED result
           \/ \E f \in 1..Depth : \E r \in 1..Len(results') : Answers(f, r)
    BY ResultKinds
  <1>2. Extends(result', result)
    <2>1. CASE UNCHANGED result
      BY <2>1 DEF Extends
    <2>2. ASSUME NEW f \in 1..Depth, NEW r, Answers(f, r)
          PROVE  Extends(result', result)
      BY <2>2, SetOnceExtends DEF Answers
    <2>3. QED
      BY <1>1, <2>1, <2>2
  <1>3. Extends(results', results) /\ Extends(loaded', loaded)
    <2>1. TypeOK /\ TypeOK'
      BY TypeStep DEF StackInv
    <2>2. /\ DOMAIN results = 1..Len(results) /\ DOMAIN results' = 1..Len(results')
          /\ DOMAIN loaded = 1..Len(loaded) /\ DOMAIN loaded' = 1..Len(loaded')
      BY <2>1, LenProperties DEF TypeOK
    <2>3. QED
      BY <1>1, <2>2 DEF Grow, Extends
  <1>4. QED
    BY <1>2, <1>3, CacheExtends, SelectedExtends DEF FactsOnlyGrow

(* Nothing an expression may already have read ever changes: no result of   *)
(* an import, no choice of a side, no entry of the in-memory cache and no   *)
(* document, whatever fails afterwards (ctxt.rs, OnceCell and FrozenVec).   *)
THEOREM FactsNeverChange == Spec => FactsAreFinal
  <1>1. Init => PendingInv
    BY DEF Init, PendingInv, PendingLocationsAreDistinctAndUncached
  <1>2. StackInv /\ PendingInv /\ [Next]_vars => [FactsOnlyGrow]_vars
    BY FactsStep
  <1>3. QED
    BY <1>1, <1>2, PendingStep, StackAlways, PTL DEF Spec, FactsAreFinal

-----------------------------------------------------------------------------
(* Integrity checks.                                                        *)

(* IntegrityHonoured is inductive.                                          *)
LEMMA IntegrityStep ==
    StackInv /\ IntegrityHonoured /\ [Next]_vars => IntegrityHonoured'
  <1> SUFFICES ASSUME StackInv, IntegrityHonoured, [Next]_vars
               PROVE  IntegrityHonoured'
    OBVIOUS
  <1>1. TypeOK /\ Grow
    BY ResultKinds DEF StackInv
  <1>2. DOMAIN result \subseteq Addresses
        /\ \A a \in DOMAIN result : result[a] \in 1..Len(results)
    BY <1>1 DEF TypeOK, PartialFunction
  <1> DEFINE Honoured(import, v) ==
                 import.mode = "Code" =>
                     \A h \in import.hash : Sha(v) = h \/ Sha(Alpha(v)) = h
  <1>3. ASSUME NEW a \in DOMAIN result
        PROVE  Honoured(Import_(a[1], a[2])', results'[result[a]])
    <2>1. a \in Addresses /\ result[a] \in 1..Len(results)
      BY <1>2
    <2>2. Import_(a[1], a[2])' = Import_(a[1], a[2])
      BY <1>1, <2>1, ImportsStay
    <2>3. results'[result[a]] = results[result[a]]
      BY <1>1, <2>1 DEF Grow
    <2>4. Honoured(Import_(a[1], a[2]), results[result[a]])
      BY DEF IntegrityHonoured
    <2>5. QED
      BY <2>2, <2>3, <2>4
  <1>4. CASE UNCHANGED result
    <2>1. ASSUME NEW a \in DOMAIN result'
          PROVE  Honoured(Import_(a[1], a[2])', results'[result'[a]])
      BY <1>3, <1>4
    <2>2. QED
      BY <2>1 DEF IntegrityHonoured
  <1>5. ASSUME NEW f \in 1..Depth, NEW r \in 1..Len(results'), Answers(f, r)
        PROVE  IntegrityHonoured'
    <2>0. PICK new : new = AddressAt(f)
      OBVIOUS
    <2>1. /\ new \in Addresses
          /\ Import_(new[1], new[2]) = ImportAt(f) /\ ImportAt(f) \in Import
          /\ result' = SetOnce(result, new, r)
      BY <1>1, <1>5, <2>0, AnsweredImport
    <2>2. Honoured(ImportAt(f), results'[r])
      <3>1. ImportAt(f).hash \in Optional(Hashes)
        BY <2>1 DEF Import
      <3>2. ASSUME NEW h \in ImportAt(f).hash, Sha(results'[r]) = h
            PROVE  Honoured(ImportAt(f), results'[r])
        BY <3>1, <3>2 DEF Optional
      <3>3. QED
        BY <1>5, <3>2 DEF Answers, VouchedFor, HashAgrees
    <2>3. Import_(new[1], new[2])' = Import_(new[1], new[2])
      BY <1>1, <2>1, ImportsStay
    <2>4. ASSUME NEW a \in DOMAIN result'
          PROVE  Honoured(Import_(a[1], a[2])', results'[result'[a]])
      <3>1. CASE a \in DOMAIN result
        <4>1. result'[a] = result[a]
          BY <2>1, <3>1 DEF SetOnce
        <4>2. QED
          BY <1>3, <3>1, <4>1
      <3>2. CASE a \notin DOMAIN result
        <4>1. a = new /\ result'[a] = r
          BY <2>1, <2>4, <3>2 DEF SetOnce
        <4>2. QED
          BY <2>1, <2>2, <2>3, <4>1
      <3>3. QED
        BY <3>1, <3>2
    <2>5. QED
      BY <2>4 DEF IntegrityHonoured
  <1>6. QED
    BY <1>4, <1>5, ResultKinds

(* An import with an integrity check has a value with that digest, whether  *)
(* the value was fetched, found in the in-memory cache or taken from disk   *)
(* without a further look (check_hash, and the cache hit that skips it).    *)
THEOREM IntegrityIsHonoured == Spec => []IntegrityHonoured
  <1>1. Init => IntegrityHonoured
    BY DEF Init, IntegrityHonoured
  <1>2. QED
    BY <1>1, IntegrityStep, StackAlways, PTL DEF Spec

-----------------------------------------------------------------------------
(* One location, one result.  Two results are equal because each of them is *)
(* the one the in-memory cache has for the location, and that is final.     *)

ResultsAreCached ==
    \A a \in DOMAIN result :
        Import_(a[1], a[2]).hash = {} =>
            /\ LocOf(a[1], a[2]) \in DOMAIN mem_cache
            /\ result[a] = mem_cache[LocOf(a[1], a[2])]

(* ResultsAreCached is inductive.                                           *)
LEMMA CachedStep ==
    StackInv /\ PendingInv /\ ResultsAreCached /\ [Next]_vars => ResultsAreCached'
  <1> SUFFICES ASSUME StackInv, PendingInv, ResultsAreCached, [Next]_vars
               PROVE  ResultsAreCached'
    OBVIOUS
  <1>1. TypeOK /\ Grow /\ Extends(mem_cache', mem_cache)
    BY ResultKinds, CacheExtends DEF StackInv
  <1> DEFINE Cached(a) == Import_(a[1], a[2])'.hash = {} =>
                 /\ LocOf(a[1], a[2])' \in DOMAIN mem_cache'
                 /\ result'[a] = mem_cache'[LocOf(a[1], a[2])']
  <1>2. ASSUME NEW a \in DOMAIN result, result'[a] = result[a]
        PROVE  Cached(a)
    <2>1. a \in Addresses
      BY <1>1 DEF TypeOK, PartialFunction
    <2>2. /\ Import_(a[1], a[2])' = Import_(a[1], a[2])
          /\ LocOf(a[1], a[2])' = LocOf(a[1], a[2])
      BY <1>1, <2>1, ImportsStay
    <2>3. Import_(a[1], a[2]).hash = {} =>
              /\ LocOf(a[1], a[2]) \in DOMAIN mem_cache
              /\ result[a] = mem_cache[LocOf(a[1], a[2])]
      BY DEF ResultsAreCached
    <2>4. QED
      BY <1>1, <1>2, <2>2, <2>3 DEF Extends
  <1>3. ASSUME NEW f \in 1..Depth, NEW r \in 1..Len(results'), Answers(f, r),
               NEW a \in DOMAIN result'
        PROVE  Cached(a)
    <2>1. PICK new : new = AddressAt(f)
      OBVIOUS
    <2>2. /\ new \in Addresses
          /\ Import_(new[1], new[2]) = ImportAt(f)
          /\ LocOf(new[1], new[2]) = Chain(BaseAt(f), ImportAt(f))
          /\ result' = SetOnce(result, new, r)
      BY <1>1, <1>3, <2>1, AnsweredImport
    <2>3. CASE a \in DOMAIN result
      <3>1. result'[a] = result[a]
        BY <2>2, <2>3 DEF SetOnce
      <3>2. QED
        BY <1>2, <2>3, <3>1
    <2>4. CASE a \notin DOMAIN result
      <3>1. a = new /\ result'[a] = r
        BY <1>3, <2>2, <2>4 DEF SetOnce
      <3>2. /\ Import_(a[1], a[2])' = ImportAt(f)
            /\ LocOf(a[1], a[2])' = Chain(BaseAt(f), ImportAt(f))
        BY <1>1, <2>2, <3>1, ImportsStay
      <3>3. ImportAt(f).hash = {} =>
                /\ Chain(BaseAt(f), ImportAt(f)) \in DOMAIN mem_cache'
                /\ mem_cache'[Chain(BaseAt(f), ImportAt(f))] = r
        BY <1>3 DEF Answers, VouchedFor
      <3>4. QED
        BY <3>1, <3>2, <3>3
    <2>5. QED
      BY <2>3, <2>4
  <1>4. \A a \in DOMAIN result' : Cached(a)
    <2>1. CASE UNCHANGED result
      BY <1>2, <2>1
    <2>2. QED
      BY <1>3, <2>1, ResultKinds
  <1>5. QED
    BY <1>4 DEF ResultsAreCached

(* Two imports without an integrity check that chain to one location have   *)
(* one result, however often what the location holds changes during the     *)
(* call and whatever fails between the two (mem_cache).                     *)
THEOREM LocationsHaveOneResult == Spec => []OneResultPerLocation
  <1>1. Init => PendingInv /\ ResultsAreCached
    BY DEF Init, PendingInv, PendingLocationsAreDistinctAndUncached, ResultsAreCached
  <1>2. ResultsAreCached => OneResultPerLocation
    BY DEF ResultsAreCached, OneResultPerLocation
  <1>3. QED
    BY <1>1, <1>2, PendingStep, CachedStep, StackAlways, PTL DEF Spec

-----------------------------------------------------------------------------
(* Recovery.  A failing call carries, through every wrapping, the decision  *)
(* that was taken where it began to fail.                                   *)

DecidedByCause ==
    outcome.tag = "failing" => (outcome.recoverable <=> outcome.cause \in Retrieval)

(* New errors and wrapped ones carry the decision their cause has.          *)
LEMMA ErrorsAreDecided ==
    ASSUME NEW cause \in Causes
    PROVE  /\ Error(cause).recoverable <=> Error(cause).cause \in Retrieval
           /\ Wrapped(Error(cause)).recoverable
                <=> Wrapped(Error(cause)).cause \in Retrieval
           /\ Wrapped(Error(cause)).tag = "failing" /\ Error(cause).tag = "failing"
  BY DEF Error, Wrapped

(* How a step changes the outcome: it leaves it, begins to fail for a cause,*)
(* wraps the error, recovers from it, or ends the call.                     *)
BeginsToFail ==
    /\ outcome.tag = "running"
    /\ \E cause \in Causes : outcome' \in {Error(cause), Wrapped(Error(cause))}
Wraps == Failing /\ Top.role = "document" /\ outcome' = Wrapped(outcome)
Recovers ==
    Failing /\ Top.role = "left" /\ outcome.recoverable /\ outcome' = Running
Keeps ==
    /\ outcome' = outcome
    /\ Failing /\ Top.role = "left" => ~outcome.recoverable \/ UNCHANGED vars
EndsCall == outcome'.tag \notin {"running", "failing"}

(* What a step does to the outcome of the call.                             *)
LEMMA OutcomeKinds ==
    ASSUME StackInv, [Next]_vars
    PROVE  BeginsToFail \/ Wraps \/ Recovers \/ Keeps \/ EndsCall
  <1> DEFINE Goal == BeginsToFail \/ Wraps \/ Recovers \/ Keeps \/ EndsCall
  <1>1. \A cause \in {"TypeError", "RemoteImportsDisabled", "HashMismatch",
                      "ImportCycle"} : cause \in Causes
    BY DEF Causes
  <1>2. ASSUME Going, outcome' = outcome
        PROVE  Keeps
    BY <1>2 DEF Going, Keeps, Failing
  <1>3. ASSUME NEW f, NEW r, NEW v, NEW files, Conclude(f, r, v, files), Going
        PROVE  Keeps \/ BeginsToFail
    <2>1. CASE outcome' = outcome
      BY <1>2, <1>3, <2>1
    <2>2. CASE outcome' = Error("HashMismatch")
      BY <1>1, <1>3, <2>2 DEF BeginsToFail, Going
    <2>3. QED
      BY <1>3, <2>1, <2>2 DEF Conclude
  <1>4. CASE HeadersFail \/ RefuseRemote \/ DocumentIllTyped
    <2>1. Going /\ outcome' \in {Error("TypeError"), Error("RemoteImportsDisabled")}
      BY <1>4 DEF HeadersFail, RefuseRemote, DocumentIllTyped, Chained, AtImport,
         AtNode, AtEnd, Stop
    <2>2. QED
      BY <1>1, <2>1 DEF BeginsToFail, Going
  <1>5. CASE ChainFails
    <2>1. ChainFault(HereBase, Here) \in Causes
      BY <1>5 DEF ChainFails, ChainFault, Causes, Retrieval
    <2>2. Going /\ outcome' = Error(ChainFault(HereBase, Here))
      BY <1>5 DEF ChainFails, AtImport, AtNode, Stop
    <2>3. QED
      BY <2>1, <2>2 DEF BeginsToFail, Going
  <1>6. CASE ChainAborts \/ FinishRoot \/ GiveUp
    <2>1. Panic.tag = "panicked" /\ [Running EXCEPT !.tag = "resolved"].tag = "resolved"
      BY DEF Panic, Running
    <2>2. [outcome EXCEPT !.tag = "failed"].tag = "failed"
      BY DEF StackInv, TypeOK, Outcomes
    <2>3. outcome' \in {Panic, [Running EXCEPT !.tag = "resolved"],
                        [outcome EXCEPT !.tag = "failed"]}
      BY <1>6 DEF ChainAborts, FinishRoot, GiveUp, Stop
    <2>4. EndsCall
      BY <2>1, <2>2, <2>3 DEF EndsCall
    <2>5. QED
      BY <2>4
  <1>7. CASE DiskHit \/ EnterAlternative \/ FinishSide
    <2>1. Going /\ outcome' = outcome
      BY <1>7 DEF DiskHit, EnterAlternative, FinishSide, Chained, AtImport, AtNode,
         AtAlternative, AtEnd
    <2>2. QED
      BY <1>2, <2>1
  <1>8. CASE MemHit \/ FetchLocation \/ FinishDocument
    <2>1. Going
      BY <1>8 DEF MemHit, FetchLocation, FinishDocument, Fetching, MustFetch, PastDisk,
         Chained, AtImport, AtNode, AtEnd
    <2>2. PICK f, r, v, files : Conclude(f, r, v, files)
      BY <1>8 DEF MemHit, FetchLocation, FinishDocument
    <2>3. QED
      BY <1>3, <2>1, <2>2
  <1>9. CASE Cycle
    <2>1. Going /\ outcome' = Wrapped(Error("ImportCycle"))
      BY <1>9 DEF Cycle, MustFetch, PastDisk, Chained, AtImport, AtNode
    <2>2. QED
      BY <1>1, <2>1 DEF BeginsToFail, Going
  <1>10. ASSUME NEW answer, Fetching,
                \/ FetchText(answer) \/ FetchFails(answer)
                \/ FetchAborts(answer) \/ Load(answer)
         PROVE  Goal
    <2>1. Going
      BY <1>10 DEF Fetching, MustFetch, PastDisk, Chained, AtImport, AtNode
    <2>2. CASE FetchText(answer)
      BY <1>3, <2>1, <2>2 DEF FetchText
    <2>3. CASE FetchFails(answer)
      <3>1. FetchFault(HereBase.kind, HereLoc, answer) \in Causes
        BY <2>3 DEF FetchFails, FetchFault, Causes, Retrieval
      <3>2. QED
        BY <2>1, <2>3, <3>1 DEF FetchFails, BeginsToFail, Going
    <2>4. CASE FetchAborts(answer)
      BY <2>4 DEF FetchAborts, Panic, Running, EndsCall
    <2>5. CASE Load(answer)
      BY <1>2, <2>1, <2>5 DEF Load
    <2>6. QED
      BY <1>10, <2>2, <2>3, <2>4, <2>5
  <1>11. CASE Recover
    BY <1>11 DEF Recover, Recovers
  <1>12. CASE LeaveSide
    BY <1>12 DEF LeaveSide, Keeps
  <1>13. CASE LeaveDocument
    BY <1>13 DEF LeaveDocument, Wraps
  <1>14. CASE Done \/ UNCHANGED vars
    BY <1>14 DEF Done, Keeps, vars
  <1>15. QED
    BY <1>4, <1>5, <1>6, <1>7, <1>8, <1>9, <1>10, <1>11, <1>12, <1>13, <1>14
       DEF Next, Fetch

(* DecidedByCause is inductive.                                             *)
LEMMA DecidedStep == StackInv /\ DecidedByCause /\ [Next]_vars => DecidedByCause'
  <1> SUFFICES ASSUME StackInv, DecidedByCause, [Next]_vars
               PROVE  DecidedByCause'
    OBVIOUS
  <1>1. CASE BeginsToFail
    BY <1>1, ErrorsAreDecided DEF BeginsToFail, DecidedByCause
  <1>2. CASE Wraps
    <2>1. outcome.recoverable <=> outcome.cause \in Retrieval
      BY <1>2 DEF Wraps, Failing, DecidedByCause
    <2>2. outcome'.recoverable = outcome.recoverable /\ outcome'.cause = outcome.cause
      BY <1>2 DEF Wraps, Wrapped, Error
    <2>3. QED
      BY <2>1, <2>2 DEF DecidedByCause
  <1>3. CASE Recovers
    BY <1>3 DEF Recovers, Running, DecidedByCause
  <1>4. CASE Keeps \/ EndsCall
    BY <1>4 DEF Keeps, EndsCall, DecidedByCause
  <1>5. QED
    BY <1>1, <1>2, <1>3, <1>4, OutcomeKinds

(* A left side is given up for the right one exactly on a retrieval         *)
(* failure.                                                                 *)
LEMMA FallbackStep ==
    StackInv /\ DecidedByCause /\ [Next]_vars => [FallsBackOnRetrievalOnly]_vars
  <1> SUFFICES ASSUME StackInv, DecidedByCause, [Next]_vars,
                      outcome.tag = "failing", ~ UNCHANGED vars
               PROVE  FallsBackOnRetrievalOnly
    BY DEF FallsBackOnRetrievalOnly
  <1>1. outcome.recoverable <=> outcome.cause \in Retrieval
    BY DEF DecidedByCause
  <1>2. CASE Wraps
    BY <1>2 DEF Wraps, Wrapped, Error, FallsBackOnRetrievalOnly
  <1>3. CASE Recovers
    BY <1>1, <1>3 DEF Recovers, Running, FallsBackOnRetrievalOnly
  <1>4. CASE Keeps \/ EndsCall \/ BeginsToFail
    BY <1>1, <1>4 DEF Keeps, Failing, EndsCall, BeginsToFail, FallsBackOnRetrievalOnly
  <1>5. QED
    BY <1>2, <1>3, <1>4, OutcomeKinds

(* `?` goes on with its right side exactly when what failed, however deep   *)
(* and however often it was wrapped, is that something could not be         *)
(* retrieved (Error::new, inheriting_recoverability).                       *)
THEOREM FallbackFollowsRule == Spec => FallbackRule
  <1>1. Init => DecidedByCause
    BY DEF Init, Running, DecidedByCause
  <1>2. QED
    BY <1>1, DecidedStep, FallbackStep, StackAlways, PTL DEF Spec, FallbackRule

-----------------------------------------------------------------------------
(* What a step may do to the activations: nothing; go back to the one it    *)
(* works on, or to the caller of that one, and perhaps move it on; or start *)
(* a new one, for a document or for a side.                                 *)

Cuts(n) == UNCHANGED loaded /\ frames' \in {Below(n), Advance(n)}
ReturnsToCaller ==
    /\ Depth > 1 /\ Cuts(Depth - 1)
    /\ stack' = IF Top.role = "document" THEN Popped(stack) ELSE stack
StartsDocument ==
    \E answer \in Serve(HereLoc.kind, HereLoc.headers) : Load(answer)

(* What a step does to activations, documents and the cycle stack.          *)
LEMMA FrameKinds ==
    ASSUME StackInv, [Next]_vars
    PROVE  \/ UNCHANGED <<frames, loaded, stack>>
           \/ Cuts(Depth) /\ UNCHANGED stack
           \/ ReturnsToCaller \/ StartsDocument \/ EnterAlternative \/ Recover
  <1>1. ASSUME NEW f, NEW r, NEW v, NEW files, Conclude(f, r, v, files),
               UNCHANGED loaded
        PROVE  Cuts(f)
    BY <1>1, ConcludeFrames DEF Cuts
  <1>2. CASE DiskHit \/ MemHit \/ FetchLocation
    BY <1>1, <1>2 DEF DiskHit, MemHit, FetchLocation, Cuts
  <1>3. ASSUME NEW answer \in Serve(HereLoc.kind, HereLoc.headers), FetchText(answer)
        PROVE  Cuts(Depth) /\ UNCHANGED stack
    BY <1>1, <1>3 DEF FetchText
  <1>4. CASE FinishDocument \/ LeaveDocument
    BY <1>1, <1>4 DEF FinishDocument, LeaveDocument, Cuts, ReturnsToCaller
  <1>5. CASE FinishSide \/ LeaveSide
    <2>1. Top.role \in {"left", "right"}
      BY <1>5 DEF FinishSide, LeaveSide
    <2>2. Depth > 1
      BY <2>1, CallerFacts DEF StackInv
    <2>3. QED
      BY <1>5, <2>1, <2>2 DEF FinishSide, LeaveSide, Cuts, ReturnsToCaller
  <1>6. CASE \/ HeadersFail \/ ChainFails \/ ChainAborts \/ RefuseRemote \/ Cycle
             \/ DocumentIllTyped \/ FinishRoot \/ GiveUp \/ Done \/ UNCHANGED vars
             \/ \E answer \in Serve(HereLoc.kind, HereLoc.headers) :
                   FetchFails(answer) \/ FetchAborts(answer)
    BY <1>6 DEF HeadersFail, ChainFails, ChainAborts, RefuseRemote, Cycle,
       DocumentIllTyped, FinishRoot, GiveUp, Done, FetchFails, FetchAborts, Stop, vars
  <1>7. QED
    BY <1>2, <1>3, <1>4, <1>5, <1>6 DEF Next, Fetch, StartsDocument

(* Popping or not, what is left of the cycle stack is as it was.            *)
LEMMA StackPrefix ==
    ASSUME StackInv, ReturnsToCaller \/ UNCHANGED stack
    PROVE  /\ stack \in Seq(ImportLocation) /\ Len(stack) \in Nat
           /\ Len(stack') \in Nat /\ Len(stack') <= Len(stack)
           /\ \A i \in 1..Len(stack') : i \in 1..Len(stack) /\ stack'[i] = stack[i]
  <1>1. stack \in Seq(ImportLocation) /\ Len(stack) \in Nat
    BY LenProperties DEF StackInv, TypeOK
  <1>2. CASE stack' = stack
    BY <1>1, <1>2
  <1>3. CASE ReturnsToCaller /\ stack' = Popped(stack)
    <2>1. Depth \in 2..Len(frames) /\ Top = frames[Depth]
      BY <1>3, DepthFacts DEF StackInv, ReturnsToCaller, Top
    <2>2. CASE stack # <<>>
      BY <1>1, <1>3, <2>2, PoppedStack
    <2>3. CASE stack = <<>>
      <3>1. Popped(stack) = <<>>
        BY <1>1, <2>3, SubSeqProperties, EmptySeq DEF Popped
      <3>2. QED
        BY <1>1, <1>3, <2>3, <3>1
    <2>4. QED
      BY <2>2, <2>3
  <1>4. QED
    BY <1>2, <1>3 DEF ReturnsToCaller

(* The document a Load adds.                                                *)
LEMMA LoadedDocument ==
    ASSUME StackInv, NEW answer \in Serve(HereLoc.kind, HereLoc.headers), Load(answer)
    PROVE  /\ Fetching /\ AtImport /\ Here.mode = "Code" /\ HereLoc \in ImportLocation
           /\ Len(loaded) \in Nat /\ Len(loaded') = Len(loaded) + 1
           /\ \A n \in 1..Len(loaded) : loaded'[n] = loaded[n]
           /\ loaded'[Len(loaded) + 1] = [doc |-> answer.doc, base |-> BaseOf(HereLoc)]
           /\ answer.doc \in Documents
           /\ frames' = Append(frames, Activation(Len(loaded) + 1, answer.doc.top,
                                                  "document", Len(stack) + 1))
           /\ stack' = Append(stack, HereLoc)
           /\ stack \in Seq(ImportLocation) /\ Len(stack) \in Nat
           /\ Len(stack') = Len(stack) + 1
           /\ \A i \in 1..Len(stack) : stack'[i] = stack[i]
           /\ stack'[Len(stack) + 1] = HereLoc
  <1> DEFINE p == [doc |-> answer.doc, base |-> BaseOf(HereLoc)]
  <1>1. Fetching /\ AtImport /\ Here.mode = "Code"
    BY DEF Load, Fetching, MustFetch, PastDisk, Chained
  <1>2. TypeOK /\ HereLoc \in ImportLocation /\ answer.doc \in Documents
    BY <1>1, HereFacts DEF StackInv
  <1>3. p \in Parsed /\ loaded \in Seq(Parsed) /\ stack \in Seq(ImportLocation)
        /\ Len(loaded) \in Nat /\ Len(stack) \in Nat
    BY <1>2, BaseType, LenProperties DEF Parsed, TypeOK
  <1>4. loaded' = Append(loaded, p) /\ stack' = Append(stack, HereLoc)
        /\ frames' = Append(frames, Activation(Len(loaded) + 1, answer.doc.top,
                                               "document", Len(stack) + 1))
    BY DEF Load
  <1> HIDE DEF p
  <1>5. /\ Len(loaded') = Len(loaded) + 1
        /\ \A n \in 1..Len(loaded) : loaded'[n] = loaded[n]
        /\ loaded'[Len(loaded) + 1] = p
    BY <1>3, <1>4, AppendProperties
  <1>6. /\ Len(stack') = Len(stack) + 1
        /\ \A i \in 1..Len(stack) : stack'[i] = stack[i]
        /\ stack'[Len(stack) + 1] = HereLoc
    BY <1>2, <1>3, <1>4, AppendProperties
  <1>7. QED
    BY <1>1, <1>2, <1>3, <1>4, <1>5, <1>6 DEF p

-----------------------------------------------------------------------------
(* The locations a call has come to: those under way, those memoised, and   *)
(* where its documents were read from.  A step adds the one at hand.        *)

Pending == {stack[i] : i \in 1..Len(stack)}
Bases == {loaded[n].base : n \in 1..Len(loaded)}

(* A step adds at most the location at hand to each of these sets.          *)
LEMMA NewLocations ==
    ASSUME StackInv, [Next]_vars
    PROVE  /\ \A l \in Pending' :
                 \/ l \in Pending
                 \/ Fetching /\ l = HereLoc /\ Readable(l) /\ l.mode = "Code"
           /\ \A l \in DOMAIN mem_cache' :
                 \/ l \in (DOMAIN mem_cache) \cup Pending
                 \/ Fetching /\ l = HereLoc /\ Readable(l)
           /\ \A l \in Bases' :
                 \/ l \in Bases
                 \/ Fetching /\ l = BaseOf(HereLoc)
  <1>1. stack \in Seq(ImportLocation) /\ Len(stack) \in Nat
    BY LenProperties DEF StackInv, TypeOK
  <1>2. \A l \in Pending' :
           \/ l \in Pending
           \/ Fetching /\ l = HereLoc /\ Readable(l) /\ l.mode = "Code"
    <2>1. CASE stack' = stack
      BY <2>1 DEF Pending
    <2>2. CASE stack # <<>> /\ stack' = Popped(stack)
      <3>1. /\ Len(stack') = Len(stack) - 1
            /\ \A i \in 1..(Len(stack) - 1) : stack'[i] = stack[i]
        BY <1>1, <2>2, PoppedStack
      <3>2. \A i \in 1..Len(stack') : i \in 1..Len(stack) /\ stack'[i] = stack[i]
        BY <1>1, <3>1
      <3>3. QED
        BY <3>2 DEF Pending
    <2>3. CASE Enters
      <3>1. /\ Len(stack') = Len(stack) + 1
            /\ \A i \in 1..Len(stack) : stack'[i] = stack[i]
            /\ stack'[Len(stack) + 1] = HereLoc
        BY <1>1, <2>3, AppendProperties DEF Enters
      <3>2. \A i \in 1..Len(stack') : i \in 1..Len(stack) \/ stack'[i] = HereLoc
        BY <1>1, <3>1
      <3>3. QED
        BY <2>3, <3>1, <3>2 DEF Pending, Enters
    <2>4. QED
      BY <2>1, <2>2, <2>3, StepKinds DEF Quiet, Visits, Finishes, Abandons
  <1>3. \A l \in DOMAIN mem_cache' :
           \/ l \in (DOMAIN mem_cache) \cup Pending
           \/ Fetching /\ l = HereLoc /\ Readable(l)
    <2>1. CASE mem_cache' = mem_cache
      BY <2>1
    <2>2. ASSUME NEW v \in Values, Visits(v)
          PROVE  \A l \in DOMAIN mem_cache' : l \in DOMAIN mem_cache \/ l = HereLoc
      BY <2>2 DEF Visits, Memoise, Insert
    <2>3. ASSUME NEW v \in Values, Finishes(v)
          PROVE  \A l \in DOMAIN mem_cache' : l \in (DOMAIN mem_cache) \cup Pending
      <3>1. Len(stack) \in 1..Len(stack)
        BY <1>1, <2>3, EmptySeq, LenProperties DEF Finishes
      <3>2. DOMAIN mem_cache' = (DOMAIN mem_cache) \cup {stack[Len(stack)]}
        BY <2>3 DEF Finishes, Memoise, Insert
      <3>3. QED
        BY <3>1, <3>2 DEF Pending
    <2>4. QED
      BY <2>1, <2>2, <2>3, StepKinds DEF Quiet, Visits, Enters, Abandons
  <1>4. \A l \in Bases' : l \in Bases \/ (Fetching /\ l = BaseOf(HereLoc))
    <2>1. CASE UNCHANGED loaded
      BY <2>1 DEF Bases
    <2>2. ASSUME NEW answer \in Serve(HereLoc.kind, HereLoc.headers), Load(answer)
          PROVE  \A l \in Bases' : l \in Bases \/ (Fetching /\ l = BaseOf(HereLoc))
      <3>1. /\ Fetching /\ Len(loaded) \in Nat /\ Len(loaded') = Len(loaded) + 1
            /\ \A n \in 1..Len(loaded) : loaded'[n] = loaded[n]
            /\ loaded'[Len(loaded) + 1]
                  = [doc |-> answer.doc, base |-> BaseOf(HereLoc)]
        BY <2>2, LoadedDocument
      <3>2. \A n \in 1..Len(loaded') : n \in 1..Len(loaded) \/ n = Len(loaded) + 1
        BY <3>1
      <3>3. QED
        BY <3>1, <3>2 DEF Bases
    <2>3. QED
      BY <2>1, <2>2, FrameKinds DEF Cuts, ReturnsToCaller, StartsDocument,
         EnterAlternative, Recover
  <1>5. QED
    BY <1>2, <1>3, <1>4

-----------------------------------------------------------------------------
(* Headers.  The locations that documents were read from have to be counted *)
(* in, for they are what relative imports inherit their headers from.       *)

(* An import of a document takes headers to a host: it was written with     *)
(* them for that host, or it inherits them and strays there.                *)
Reaches(parsed, i, headers, host) ==
    LET import == parsed.doc.imports[i]
        loc == Chain(parsed.base, import)
    IN  \/ import.headers = headers /\ import.target.host = host
        \/ /\ IsRelative(import.target) /\ parsed.base.kind.tag = "Remote"
           /\ loc.kind.host # parsed.base.kind.host
           /\ loc.headers = headers /\ loc.kind.host = host

(* Headers that a location has got were taken to its host.                  *)
WrittenForHost(l) ==
    l.headers # NoHeaders =>
        /\ l.kind.tag = "Remote"
        /\ \E n \in 1..Len(loaded) : \E i \in DOMAIN loaded[n].doc.imports :
              Reaches(loaded[n], i, l.headers, l.kind.host)

HeadersInv == \A l \in Pending \cup (DOMAIN mem_cache) \cup Bases : WrittenForHost(l)

(* An import with headers of its own is absolute; one that inherits them    *)
(* stays on the host of the document it is in, or strays from it (chain).   *)
LEMMA ChainedHeaders ==
    ASSUME TypeOK, AtImport, WrittenForHost(HereBase)
    PROVE  WrittenForHost(HereLoc)
  <1>1. /\ Here \in Import /\ HereBase \in ImportLocation
        /\ HereLoc = Chain(HereBase, Here)
        /\ NodeAt(Depth) \in DOMAIN DocAt(Depth).imports
        /\ Here = ImportAt(Depth) /\ Depth \in 1..Depth
    BY HereFacts DEF HereLoc
  <1>2. HereLoc.kind = ChainKind(HereBase.kind, Here.target)
        /\ HereLoc.headers = Forwarded(HereBase, Here)
    BY <1>1 DEF Chain
  <1>3. CASE Here.headers # NoHeaders
    <2>1. Here.target.tag = "Remote"
      BY <1>1, <1>3, DepthFacts DEF IsDocument, ImportAt
    <2>2. HereLoc.headers = Here.headers /\ HereLoc.kind.tag = "Remote"
          /\ HereLoc.kind.host = Here.target.host
      BY <1>2, <1>3, <2>1 DEF Forwarded, ChainKind
    <2>3. /\ Top.inst \in 1..Len(loaded)
          /\ NodeAt(Depth) \in DOMAIN loaded[Top.inst].doc.imports
          /\ Import_(Top.inst, NodeAt(Depth)) = Here
      BY <1>1, DepthFacts DEF Top, Import_, ImportAt, DocAt
    <2>4. Reaches(loaded[Top.inst], NodeAt(Depth), HereLoc.headers, HereLoc.kind.host)
      BY <2>2, <2>3 DEF Reaches, Import_
    <2>5. QED
      BY <2>2, <2>3, <2>4 DEF WrittenForHost
  <1>4. CASE Here.headers = NoHeaders /\ HereLoc.headers # NoHeaders
    <2>1. /\ IsRelative(Here.target) /\ HereBase.kind.tag = "Remote"
          /\ HereLoc.headers = HereBase.headers
      BY <1>2, <1>4 DEF Forwarded
    <2>2. HereLoc.kind.tag = "Remote"
      BY <1>2, <2>1 DEF ChainKind, IsRelative
    <2>3. CASE HereLoc.kind.host = HereBase.kind.host
      BY <1>4, <2>1, <2>2, <2>3 DEF WrittenForHost
    <2>4. CASE HereLoc.kind.host # HereBase.kind.host
      <3>1. /\ Top.inst \in 1..Len(loaded)
            /\ NodeAt(Depth) \in DOMAIN loaded[Top.inst].doc.imports
            /\ loaded[Top.inst].doc.imports[NodeAt(Depth)] = Here
            /\ loaded[Top.inst].base = HereBase
        BY <1>1, DepthFacts DEF Top, ImportAt, DocAt, HereBase, BaseAt
      <3>2. Reaches(loaded[Top.inst], NodeAt(Depth), HereLoc.headers, HereLoc.kind.host)
        BY <1>1, <2>1, <2>4, <3>1 DEF Reaches
      <3>3. QED
        BY <2>2, <3>1, <3>2 DEF WrittenForHost
    <2>5. QED
      BY <2>3, <2>4
  <1>5. QED
    BY <1>3, <1>4 DEF WrittenForHost

(* HeadersInv is inductive.                                                 *)
LEMMA HeadersStep == StackInv /\ HeadersInv /\ [Next]_vars => HeadersInv'
  <1> SUFFICES ASSUME StackInv, HeadersInv, [Next]_vars,
                      NEW l \in (Pending \cup (DOMAIN mem_cache) \cup Bases)'
               PROVE  WrittenForHost(l)'
    BY DEF HeadersInv
  <1>1. TypeOK /\ Grow
    BY ResultKinds DEF StackInv
  <1>2. ASSUME Fetching
        PROVE  WrittenForHost(HereLoc) /\ WrittenForHost(BaseOf(HereLoc))
    <2>1. AtImport
      BY <1>2 DEF Fetching, MustFetch, PastDisk, Chained
    <2>2. HereBase \in Bases
      BY <1>1, <2>1, HereFacts, DepthFacts DEF Bases, HereBase, BaseAt
    <2>3. WrittenForHost(HereLoc)
      BY <1>1, <2>1, <2>2, ChainedHeaders DEF HeadersInv
    <2>4. HereLoc \in ImportLocation
      BY <1>1, <2>1, HereFacts
    <2>5. /\ BaseOf(HereLoc).headers = HereLoc.headers
          /\ HereLoc.kind.tag = "Remote" => BaseOf(HereLoc).kind = HereLoc.kind
      BY <2>4 DEF BaseOf, ImportLocation
    <2>6. QED
      BY <2>3, <2>5 DEF WrittenForHost
  <1>3. WrittenForHost(l)
    BY <1>2, NewLocations DEF HeadersInv
  <1>4. ASSUME l.headers # NoHeaders
        PROVE  WrittenForHost(l)'
    <2>1. PICK n \in 1..Len(loaded) : \E i \in DOMAIN loaded[n].doc.imports :
                  Reaches(loaded[n], i, l.headers, l.kind.host)
      BY <1>3, <1>4 DEF WrittenForHost
    <2>2. n \in 1..Len(loaded') /\ loaded'[n] = loaded[n]
      BY <1>1 DEF Grow
    <2>3. QED
      BY <1>3, <1>4, <2>1, <2>2 DEF WrittenForHost
  <1>5. QED
    BY <1>4 DEF WrittenForHost

(* Authorization sent with `using` reaches the host it was written for, and *)
(* beyond it only the hosts to which a relative import that inherits it was *)
(* joined: never that of an absolute import (chain, Forwarded).             *)
THEOREM HeadersTravel == Spec => []HeadersTravelByRelativeImports
  <1>1. Init => HeadersInv
    <2> SUFFICES ASSUME Init PROVE HeadersInv
      OBVIOUS
    <2>1. PICK root \in Roots : loaded = <<root>>
      BY DEF Init
    <2>2. Pending = {} /\ DOMAIN mem_cache = {} /\ Bases = {root.base}
      BY <2>1 DEF Init, Pending, Bases
    <2>3. root.base.headers = NoHeaders
      BY ResolutionAssumption
    <2>4. QED
      BY <2>2, <2>3 DEF HeadersInv, WrittenForHost
  <1>2. StackInv /\ HeadersInv => HeadersTravelByRelativeImports
    <2>1. StackInv => DOMAIN stack = 1..Len(stack) /\ DOMAIN loaded = 1..Len(loaded)
      BY LenProperties DEF StackInv, TypeOK
    <2>2. QED
      BY <2>1 DEF HeadersInv, HeadersTravelByRelativeImports, WrittenForHost, Pending,
         Reaches, Strays, Import_, LocOf
  <1>3. QED
    BY <1>1, <1>2, HeadersStep, StackAlways, PTL DEF Spec

-----------------------------------------------------------------------------
(* Remote code.  What is read for code is neither `missing` nor, from a     *)
(* remote document, anything but remote.  For the induction: an activation  *)
(* above a remote location on the cycle stack works on a remote document,   *)
(* and what a remote document has under way is remote.                      *)

NothingMissing ==
    /\ \A l \in Pending : Readable(l) /\ l.mode = "Code"
    /\ \A l \in DOMAIN mem_cache : Readable(l)

(* NothingMissing is inductive.                                             *)
LEMMA MissingStep == StackInv /\ NothingMissing /\ [Next]_vars => NothingMissing'
  BY NewLocations DEF NothingMissing

IsRemote(l) == l.kind.tag = "Remote"

(* A readable import of a remote document is remote: the sanity check       *)
(* refuses `env:` and `~`, and other local paths are joined to the URL.     *)
LEMMA RemoteChain ==
    ASSUME NEW base \in ImportLocation, NEW import \in Import,
           IsRemote(base), ChainFault(base, import) = "none",
           import.mode # "Location", Readable(Chain(base, import))
    PROVE  IsRemote(Chain(base, import))
  <1>1. import.target.tag \in {"Local", "Remote", "Env", "Missing"}
    BY DEF Import, Target
  <1>2. import.target.tag # "Env"
    BY DEF ChainFault, IsRemote
  <1>3. Chain(base, import).kind.tag # "Missing"
    BY DEF Readable, Chain
  <1>4. QED
    BY <1>1, <1>2, <1>3 DEF Chain, ChainKind, MissingKind, IsRemote

RemoteFollows(fs, st, docs) ==
    /\ \A f \in 1..Len(fs) : \A i \in 1..Len(st) :
          i <= fs[f].level /\ IsRemote(st[i]) => IsRemote(docs[fs[f].inst].base)
    /\ \A f \in 2..Len(fs) :
          fs[f].role = "document" /\ IsRemote(docs[fs[f - 1].inst].base)
              => IsRemote(CallLocation(fs[f - 1], docs))
    /\ \A i, j \in 1..Len(st) : i < j /\ IsRemote(st[i]) => IsRemote(st[j])

RemoteInv == RemoteFollows(frames, stack, loaded)

(* Activations that end leave RemoteInv as it was for those below.          *)
LEMMA CutRemote ==
    ASSUME StackInv, RemoteInv, NEW n \in 1..Depth, Cuts(n),
           ReturnsToCaller \/ UNCHANGED stack
    PROVE  RemoteInv'
  <1>1. /\ frames \in Seq(Frame) /\ frames' \in Seq(Frame) /\ Len(frames') = n
        /\ \A i \in 1..(n - 1) : frames'[i] = frames[i]
        /\ frames'[n].role = frames[n].role /\ frames'[n].level = frames[n].level
        /\ frames'[n].inst = frames[n].inst
        /\ Depth = Len(frames) /\ loaded' = loaded
    BY CutFrames DEF StackInv, TypeOK, Depth, Cuts
  <1>2. /\ Len(stack) \in Nat /\ Len(stack') \in Nat
        /\ \A i \in 1..Len(stack') : i \in 1..Len(stack) /\ stack'[i] = stack[i]
    BY StackPrefix
  <1>3. ASSUME NEW f \in 1..n
        PROVE  /\ f \in 1..Depth
               /\ frames'[f].role = frames[f].role /\ frames'[f].inst = frames[f].inst
               /\ frames'[f].level = frames[f].level
    <2>1. f \in 1..Depth /\ (f \in 1..(n - 1) \/ f = n)
      BY <1>1, LenProperties
    <2>2. QED
      BY <1>1, <2>1
  <1>4. ASSUME NEW f \in 2..n
        PROVE  f \in 2..Depth /\ frames'[f - 1] = frames[f - 1] /\ f \in 1..n
    BY <1>1, LenProperties
  <1>5. /\ \A f \in 1..n : \A i \in 1..Len(stack') :
              i <= frames'[f].level /\ IsRemote(stack'[i])
                  => IsRemote(loaded[frames'[f].inst].base)
        /\ \A i, j \in 1..Len(stack') : i < j /\ IsRemote(stack'[i]) => IsRemote(stack'[j])
    BY <1>1, <1>2, <1>3 DEF RemoteInv, RemoteFollows
  <1>6. \A f \in 2..n : frames'[f].role = "document"
                           /\ IsRemote(loaded[frames'[f - 1].inst].base)
                        => IsRemote(CallLocation(frames'[f - 1], loaded))
    BY <1>1, <1>3, <1>4 DEF RemoteInv, RemoteFollows
  <1>7. QED
    BY <1>1, <1>5, <1>6 DEF RemoteInv, RemoteFollows

(* A new activation, for a side of an alternative of the same document or   *)
(* for the document that the last location on the cycle stack stands for.   *)
LEMMA PushRemote ==
    ASSUME NEW fs \in Seq(Frame), NEW st, Len(st) \in Nat, NEW docs,
           RemoteFollows(fs, st, docs), NEW fr \in Frame, NEW ut, Len(ut) \in Nat,
           \A i \in 1..Len(ut) : fr.level < i \/ ~IsRemote(ut[i])
                                 \/ IsRemote(docs[fr.inst].base),
           fr.role = "document" /\ IsRemote(docs[fs[Len(fs)].inst].base)
              => IsRemote(CallLocation(fs[Len(fs)], docs)),
           \A i, j \in 1..Len(ut) : i < j /\ IsRemote(ut[i]) => IsRemote(ut[j]),
           \A f \in 1..Len(fs) : \A i \in 1..Len(ut) :
              i <= fs[f].level => i \in 1..Len(st) /\ ut[i] = st[i]
    PROVE  RemoteFollows(Append(fs, fr), ut, docs)
  <1> DEFINE gs == Append(fs, fr)
             n == Len(fs)
  <1>1. /\ n \in Nat /\ Len(gs) = n + 1 /\ gs[n + 1] = fr
        /\ \A f \in 1..n : gs[f] = fs[f]
    BY AppendProperties, LenProperties
  <1>2. fr.level \in Nat
    BY DEF Frame
  <1> HIDE DEF gs
  <1>3. ASSUME NEW f \in 1..(n + 1), NEW i \in 1..Len(ut),
               i <= gs[f].level, IsRemote(ut[i])
        PROVE  IsRemote(docs[gs[f].inst].base)
    <2>1. CASE f \in 1..n
      BY <1>1, <1>3, <2>1 DEF RemoteFollows
    <2>2. CASE f = n + 1
      BY <1>1, <1>2, <1>3, <2>2
    <2>3. QED
      BY <1>1, <2>1, <2>2
  <1>4. ASSUME NEW f \in 2..(n + 1), gs[f].role = "document",
               IsRemote(docs[gs[f - 1].inst].base)
        PROVE  IsRemote(CallLocation(gs[f - 1], docs))
    <2>1. CASE f \in 2..n
      <3>1. f \in 1..n /\ f - 1 \in 1..n
        BY <1>1, <2>1
      <3>2. QED
        BY <1>1, <1>4, <2>1, <3>1 DEF RemoteFollows
    <2>2. CASE f = n + 1
      <3>1. f - 1 = n /\ n \in 1..n
        BY <1>1, <1>4, <2>2
      <3>2. QED
        BY <1>1, <1>4, <2>2, <3>1
    <2>3. QED
      BY <1>1, <2>1, <2>2
  <1>5. RemoteFollows(gs, ut, docs)
    BY <1>1, <1>3, <1>4 DEF RemoteFollows
  <1>6. QED
    BY <1>5 DEF gs

(* A document that is read for a remote one is remote.                      *)
LEMMA LoadRemote ==
    ASSUME StackInv, RemoteInv, StartsDocument
    PROVE  RemoteInv'
  <1>1. PICK answer \in Serve(HereLoc.kind, HereLoc.headers) : Load(answer)
    BY DEF StartsDocument
  <1> DEFINE fr == Activation(Len(loaded) + 1, answer.doc.top, "document",
                              Len(stack) + 1)
  <1>2. /\ Fetching /\ AtImport /\ Here.mode = "Code" /\ HereLoc \in ImportLocation
        /\ Len(loaded) \in Nat /\ Len(loaded') = Len(loaded) + 1
        /\ \A n \in 1..Len(loaded) : loaded'[n] = loaded[n]
        /\ loaded'[Len(loaded) + 1] = [doc |-> answer.doc, base |-> BaseOf(HereLoc)]
        /\ frames' = Append(frames, fr)
        /\ Len(stack) \in Nat /\ Len(stack') = Len(stack) + 1
        /\ \A i \in 1..Len(stack) : stack'[i] = stack[i]
        /\ stack'[Len(stack) + 1] = HereLoc
    BY <1>1, LoadedDocument
  <1>3. /\ frames \in Seq(Frame) /\ Len(frames) \in Nat /\ Depth = Len(frames)
        /\ Depth \in 1..Depth /\ Len(stack) = frames[Depth].level
        /\ \A f \in 1..Depth : /\ frames[f].level \in Nat
                               /\ frames[f].level <= frames[Depth].level
                               /\ frames[f].inst \in 1..Len(loaded)
    <2>1. /\ frames \in Seq(Frame) /\ Len(frames) \in Nat /\ Depth = Len(frames)
          /\ Depth \in 1..Depth
      BY DepthFacts, LenProperties DEF StackInv, TypeOK, FramesOK
    <2>2. \A f \in 1..Depth : frames[f] \in Frame /\ frames[f].inst \in 1..Len(loaded)
      BY DepthFacts DEF StackInv
    <2>3. Len(stack) = frames[Depth].level
          /\ \A f \in 1..Depth : frames[f].level <= frames[Depth].level
      BY <2>1 DEF StackInv, StackFollows
    <2>4. QED
      BY <2>1, <2>2, <2>3 DEF Frame
  <1>4. IsRemote(HereBase) => IsRemote(HereLoc)
    <2>1. HereBase \in ImportLocation /\ Here \in Import /\ HereLoc = Chain(HereBase, Here)
      BY <1>2, HereFacts DEF StackInv, HereLoc
    <2>2. ChainFault(HereBase, Here) = "none"
      BY <1>2 DEF Fetching, MustFetch, PastDisk, Chained
    <2>3. Readable(HereLoc)
      BY <1>1 DEF Load, FetchFault, Readable
    <2>4. QED
      BY <1>2, <2>1, <2>2, <2>3, RemoteChain
  <1>5. IsRemote(HereLoc) => IsRemote(BaseOf(HereLoc))
    BY <1>2 DEF IsRemote, BaseOf, ImportLocation
  <1>6. HereBase = loaded[frames[Depth].inst].base
        /\ HereLoc = CallLocation(frames[Depth], loaded)
    BY DEF HereLoc, Here, HereBase, BaseAt, CallLocation, ImportAt, DocAt, NodeAt
  <1>7. \A i \in 1..Len(stack) : IsRemote(stack[i]) => IsRemote(HereLoc)
    BY <1>3, <1>4, <1>6 DEF RemoteInv, RemoteFollows
  <1>8. /\ \A f \in 1..Depth : /\ loaded'[frames[f].inst] = loaded[frames[f].inst]
                               /\ CallLocation(frames[f], loaded')
                                    = CallLocation(frames[f], loaded)
    BY <1>2, <1>3 DEF CallLocation
  <1>9. RemoteFollows(frames, stack, loaded')
    <2>1. \A f \in 2..Depth : f \in 1..Depth /\ f - 1 \in 1..Depth
      BY <1>3
    <2>2. QED
      BY <1>3, <1>8, <2>1 DEF RemoteInv, RemoteFollows
  <1>10. fr \in Frame /\ fr.role = "document" /\ fr.inst = Len(loaded) + 1
         /\ fr.level = Len(stack) + 1
    <2>1. /\ frames' \in Seq(Frame) /\ Len(frames') = Len(frames) + 1
          /\ frames'[Len(frames) + 1] = fr
      <3>1. TypeOK'
        BY <1>1, LoadType DEF StackInv
      <3>2. frames' \in Seq(Frame)
        BY <3>1 DEF TypeOK, FramesOK
      <3>3. QED
        BY <1>2, <1>3, <3>2
    <2>2. fr \in Frame
      BY <1>3, <2>1, ElementOfSeq
    <2>3. QED
      BY <2>2 DEF Activation
  <1> HIDE DEF fr
  <1>11. \A i \in 1..Len(stack') : IsRemote(stack'[i]) => IsRemote(HereLoc)
    BY <1>2, <1>7
  <1>12. \A i, j \in 1..Len(stack') : i < j /\ IsRemote(stack'[i]) => IsRemote(stack'[j])
    <2> SUFFICES ASSUME NEW i \in 1..Len(stack'), NEW j \in 1..Len(stack'),
                        i < j, IsRemote(stack'[i])
                 PROVE  IsRemote(stack'[j])
      OBVIOUS
    <2>1. CASE j = Len(stack) + 1
      BY <1>2, <1>11, <2>1
    <2>2. CASE j \in 1..Len(stack)
      <3>1. i \in 1..Len(stack) /\ stack'[i] = stack[i] /\ stack'[j] = stack[j]
        BY <1>2, <2>2
      <3>2. QED
        BY <2>2, <3>1 DEF RemoteInv, RemoteFollows
    <2>3. Len(stack) \in Nat /\ Len(stack') = Len(stack) + 1
      BY <1>2
    <2>4. j = Len(stack) + 1 \/ j \in 1..Len(stack)
      BY <2>3
    <2>5. QED
      BY <2>1, <2>2, <2>4
  <1>13. IsRemote(HereLoc) => IsRemote(loaded'[fr.inst].base)
    BY <1>2, <1>5, <1>10
  <1>14. IsRemote(loaded'[frames[Len(frames)].inst].base)
            => IsRemote(CallLocation(frames[Len(frames)], loaded'))
    BY <1>3, <1>4, <1>6, <1>8
  <1>15. \A f \in 1..Len(frames) : \A i \in 1..Len(stack') :
            i <= frames[f].level => i \in 1..Len(stack) /\ stack'[i] = stack[i]
    BY <1>2, <1>3
  <1>16. Len(stack') \in Nat
    BY <1>2
  <1>17. RemoteFollows(Append(frames, fr), stack', loaded')
    <2>1. \A i \in 1..Len(stack') : fr.level < i \/ ~IsRemote(stack'[i])
                                     \/ IsRemote(loaded'[fr.inst].base)
      BY <1>11, <1>13
    <2>2. fr.role = "document" /\ IsRemote(loaded'[frames[Len(frames)].inst].base)
             => IsRemote(CallLocation(frames[Len(frames)], loaded'))
      BY <1>14
    <2>3. fr \in Frame /\ frames \in Seq(Frame) /\ Len(stack) \in Nat
      BY <1>2, <1>3, <1>10
    <2>4. QED
      BY ONLY <1>9, <1>12, <1>15, <1>16, <2>1, <2>2, <2>3, PushRemote
  <1>18. QED
    BY <1>2, <1>17 DEF RemoteInv

(* The sides of alternatives stay in the document of the activation below.  *)
LEMMA SideRemote ==
    ASSUME StackInv, RemoteInv, EnterAlternative \/ Recover, [Next]_vars
    PROVE  RemoteInv'
  <1>1. /\ frames \in Seq(Frame) /\ Len(frames) \in Nat /\ Depth = Len(frames)
        /\ Depth \in 1..Depth /\ Top = frames[Depth] /\ Len(stack) = Top.level
        /\ Len(stack) \in Nat /\ DOMAIN stack = 1..Len(stack)
        /\ \A f \in 1..Depth : frames[f].level \in Nat /\ frames[f].level <= Top.level
    <2>1. /\ frames \in Seq(Frame) /\ Len(frames) \in Nat /\ Depth = Len(frames)
          /\ Depth \in 1..Depth /\ Top = frames[Depth]
          /\ Len(stack) \in Nat /\ DOMAIN stack = 1..Len(stack)
      BY DepthFacts, LenProperties DEF StackInv, TypeOK, FramesOK, Top
    <2>2. \A f \in 1..Depth : frames[f] \in Frame
      BY DepthFacts DEF StackInv
    <2>3. Len(stack) = frames[Depth].level
          /\ \A f \in 1..Depth : frames[f].level <= frames[Depth].level
      BY <2>1 DEF StackInv, StackFollows
    <2>4. QED
      BY <2>1, <2>2, <2>3 DEF Frame
  <1>2. \A i \in 1..Len(stack) : IsRemote(stack[i]) => IsRemote(loaded[Top.inst].base)
    BY <1>1 DEF RemoteInv, RemoteFollows
  <1>3. ASSUME NEW gs \in Seq(Frame), NEW fr, frames' = Append(gs, fr),
               fr.role # "document", fr.inst = Top.inst, fr.level = Len(stack),
               \A f \in 1..Len(gs) : gs[f].level \in Nat /\ gs[f].level <= Top.level,
               RemoteFollows(gs, stack, loaded), UNCHANGED <<stack, loaded>>
        PROVE  RemoteInv'
    <2>1. fr \in Frame
      <3>1. frames' \in Seq(Frame)
        BY TypeStep DEF StackInv, TypeOK, FramesOK
      <3>2. Len(gs) \in Nat /\ Len(frames') = Len(gs) + 1 /\ frames'[Len(gs) + 1] = fr
        BY <1>3, LenProperties, AppendProperties
      <3>3. QED
        BY <3>1, <3>2, ElementOfSeq
    <2>2. \A i, j \in 1..Len(stack) : i < j /\ IsRemote(stack[i]) => IsRemote(stack[j])
      BY DEF RemoteInv, RemoteFollows
    <2>3. RemoteFollows(Append(gs, fr), stack, loaded)
      BY <1>1, <1>2, <1>3, <2>1, <2>2, PushRemote
    <2>4. QED
      BY <1>3, <2>3 DEF RemoteInv
  <1>4. CASE EnterAlternative
    <2> DEFINE fr == Activation(Top.inst, DocAt(Depth).alternatives[NodeAt(Depth)].left,
                                "left", Len(stack))
    <2>1. fr.role # "document" /\ fr.inst = Top.inst /\ fr.level = Len(stack)
      BY DEF Activation
    <2>2. frames' = Append(frames, fr) /\ UNCHANGED <<stack, loaded>>
      BY <1>4 DEF EnterAlternative
    <2> HIDE DEF fr
    <2>3. QED
      BY <1>1, <1>3, <2>1, <2>2 DEF RemoteInv
  <1>5. CASE Recover
    <2> DEFINE fr == Activation(Top.inst,
                                DocAt(Depth - 1).alternatives[NodeAt(Depth - 1)].right,
                                "right", Len(stack))
               gs == Below(Depth - 1)
    <2>1. fr.role # "document" /\ fr.inst = Top.inst /\ fr.level = Len(stack)
      BY DEF Activation
    <2>2. frames' = Append(gs, fr) /\ UNCHANGED <<stack, loaded>> /\ Top.role = "left"
      BY <1>5 DEF Recover
    <2>3. Depth - 1 \in 1..Len(frames) /\ FramesOK(frames, loaded)
      BY <1>1, <2>2, CallerFacts DEF StackInv, TypeOK
    <2>4. /\ FramesOK(gs, loaded) /\ Len(gs) = Depth - 1
          /\ \A f \in 1..(Depth - 1) : gs[f] = frames[f]
      BY <2>3, BelowFrames DEF Below
    <2> HIDE DEF fr, gs
    <2>5. \A f \in 1..(Depth - 1) : f \in 1..Depth
      BY <1>1
    <2>6. \A f \in 2..(Depth - 1) : f \in 2..Depth /\ f \in 1..(Depth - 1)
                                    /\ f - 1 \in 1..(Depth - 1)
      BY <1>1
    <2>7. RemoteFollows(gs, stack, loaded)
      BY <1>1, <2>4, <2>5, <2>6 DEF RemoteInv, RemoteFollows
    <2>8. gs \in Seq(Frame) /\ \A f \in 1..Len(gs) : gs[f].level \in Nat
                                                 /\ gs[f].level <= Top.level
      BY <1>1, <2>4, <2>5 DEF FramesOK
    <2>9. QED
      BY <1>3, <2>1, <2>2, <2>7, <2>8
  <1>6. QED
    BY <1>4, <1>5

(* RemoteInv is inductive.                                                  *)
LEMMA RemoteInvStep == StackInv /\ RemoteInv /\ [Next]_vars => RemoteInv'
  <1> SUFFICES ASSUME StackInv, RemoteInv, [Next]_vars
               PROVE  RemoteInv'
    OBVIOUS
  <1>1. Depth \in 1..Depth /\ (Depth > 1 => Depth - 1 \in 1..Depth)
    BY CallerFacts DEF StackInv
  <1>2. CASE UNCHANGED <<frames, loaded, stack>>
    BY <1>2 DEF RemoteInv
  <1>3. CASE Cuts(Depth) /\ UNCHANGED stack
    BY <1>1, <1>3, CutRemote
  <1>4. CASE ReturnsToCaller
    BY <1>1, <1>4, CutRemote DEF ReturnsToCaller
  <1>5. QED
    BY <1>2, <1>3, <1>4, FrameKinds, LoadRemote, SideRemote

(* The second half of the property: the results of a remote document.       *)
RemoteResults ==
    \A a \in DOMAIN result :
        /\ IsRemote(loaded[a[1]].base)
        /\ Import_(a[1], a[2]).hash = {} /\ Import_(a[1], a[2]).mode # "Location"
        => IsRemote(LocOf(a[1], a[2]))

(* RemoteResults is inductive, given the invariants above.                  *)
LEMMA RemoteResultsStep ==
    ASSUME StackInv, RemoteInv, NothingMissing', RemoteResults, [Next]_vars
    PROVE  RemoteResults'
  <1>1. TypeOK /\ Grow
    BY ResultKinds DEF StackInv
  <1> DEFINE Remains(a) ==
                 /\ IsRemote(loaded'[a[1]].base)
                 /\ Import_(a[1], a[2])'.hash = {}
                 /\ Import_(a[1], a[2])'.mode # "Location"
                 => IsRemote(LocOf(a[1], a[2])')
  <1>2. ASSUME NEW a \in DOMAIN result
        PROVE  Remains(a)
    <2>1. a \in Addresses
      BY <1>1 DEF TypeOK, PartialFunction
    <2>2. /\ Import_(a[1], a[2])' = Import_(a[1], a[2])
          /\ LocOf(a[1], a[2])' = LocOf(a[1], a[2])
          /\ loaded'[a[1]] = loaded[a[1]]
      BY <1>1, <2>1, ImportsStay
    <2>3. QED
      BY <2>2 DEF RemoteResults
  <1>3. ASSUME NEW f \in 1..Depth, NEW r \in 1..Len(results'), Answers(f, r),
               NEW a \in DOMAIN result', a \notin DOMAIN result
        PROVE  Remains(a)
    <2>1. PICK new : new = AddressAt(f)
      OBVIOUS
    <2>2. /\ new \in Addresses
          /\ Import_(new[1], new[2]) = ImportAt(f)
          /\ LocOf(new[1], new[2]) = Chain(BaseAt(f), ImportAt(f))
          /\ loaded[new[1]].base = BaseAt(f) /\ ImportAt(f) \in Import
          /\ result' = SetOnce(result, new, r)
      BY <1>1, <1>3, <2>1, AnsweredImport
    <2>3. a = new
      BY <1>3, <2>2 DEF SetOnce
    <2>4. /\ Import_(a[1], a[2])' = ImportAt(f)
          /\ LocOf(a[1], a[2])' = Chain(BaseAt(f), ImportAt(f))
          /\ loaded'[a[1]].base = BaseAt(f)
      BY <1>1, <2>2, <2>3, ImportsStay
    <2> SUFFICES ASSUME IsRemote(BaseAt(f)), ImportAt(f).hash = {},
                        ImportAt(f).mode # "Location"
                 PROVE  IsRemote(Chain(BaseAt(f), ImportAt(f)))
      BY <2>4
    <2>5. CASE f = Depth /\ Chained
      <3>1. BaseAt(f) \in ImportLocation
        BY <1>1, DepthFacts
      <3>2. ChainFault(BaseAt(f), ImportAt(f)) = "none"
        BY <2>5 DEF Chained, Here, HereBase
      <3>3. Chain(BaseAt(f), ImportAt(f)) \in DOMAIN mem_cache'
        BY <1>3 DEF Answers, VouchedFor
      <3>4. Readable(Chain(BaseAt(f), ImportAt(f)))
        BY <3>3 DEF NothingMissing, Readable
      <3>5. QED
        BY <2>2, <3>1, <3>2, <3>4, RemoteChain
    <2>6. CASE f = Depth - 1 /\ FinishDocument
      <3>1. Depth \in 2..Len(frames) /\ frames[Depth].role = "document"
        BY <1>1, <2>6, DepthFacts DEF FinishDocument, Top
      <3>2. /\ BaseAt(f) = loaded[frames[f].inst].base
            /\ Chain(BaseAt(f), ImportAt(f)) = CallLocation(frames[f], loaded)
        BY DEF BaseAt, CallLocation, ImportAt, DocAt, NodeAt
      <3>3. QED
        BY <2>6, <3>1, <3>2 DEF RemoteInv, RemoteFollows
    <2>7. QED
      BY <1>3, <2>5, <2>6 DEF Answers
  <1>4. \A a \in DOMAIN result' : Remains(a)
    <2>1. CASE UNCHANGED result
      BY <1>2, <2>1
    <2>2. QED
      BY <1>2, <1>3, <2>1, ResultKinds
  <1>5. QED
    BY <1>4 DEF RemoteResults

(* What a remote document imports, directly or through what it imports,     *)
(* comes from remote locations: no file and no environment variable of the  *)
(* machine is read for it, except values the cache has by digest (chain,    *)
(* the sanity check and the joining of local imports to a URL).             *)
THEOREM RemoteCodeStaysRemote == Spec => []RemoteCodeReadsOnlyRemote
  <1>1. Init => RemoteInv /\ NothingMissing /\ RemoteResults
    <2> SUFFICES ASSUME Init PROVE RemoteInv /\ NothingMissing /\ RemoteResults
      OBVIOUS
    <2>1. stack = <<>> /\ mem_cache = <<>> /\ result = <<>> /\ Len(frames) = 1
      BY DEF Init
    <2>2. QED
      BY <2>1 DEF RemoteInv, RemoteFollows, NothingMissing, RemoteResults, Pending
  <1>2. StackInv /\ RemoteInv /\ RemoteResults => RemoteCodeReadsOnlyRemote
    <2>1. StackInv => DOMAIN stack = 1..Len(stack)
      BY LenProperties DEF StackInv, TypeOK
    <2>2. QED
      BY <2>1 DEF RemoteInv, RemoteFollows, RemoteResults, IsRemote,
         RemoteCodeReadsOnlyRemote
  <1>3. QED
    BY <1>1, <1>2, RemoteInvStep, MissingStep, RemoteResultsStep, StackAlways, PTL
       DEF Spec
=============================================================================
