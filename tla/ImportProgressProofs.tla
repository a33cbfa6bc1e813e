-------------------------- MODULE ImportProgressProofs --------------------------
(***************************************************************************)
(* Why a call of the import resolver cannot go on for ever: every step of  *)
(* the walk takes it to a later place (StepsMoveOn), activations are never *)
(* nested deeper than the locations under way and the nodes of a document  *)
(* allow (DepthIsBounded), and so, if there are finitely many locations,   *)
(* each step leaves fewer places to come to (StepsRunOut).                 *)
(***************************************************************************)
EXTENDS ImportCellProofs, FiniteSetTheorems, WellFoundedInduction

-----------------------------------------------------------------------------
(* The places of the walk, for any sequence of activations.                 *)

PlaceIn(fs, failing, f) ==
    (IF fs[f].role = "right" THEN Past ELSE 0)
        + (IF f = Len(fs) /\ failing THEN Past ELSE fs[f].at)
Walk(fs, failing) == [f \in 1..Len(fs) |-> PlaceIn(fs, failing, f)]

(* Standing is the place of the activations there are.                      *)
LEMMA StandingIsWalk ==
    /\ Standing = IF Ended THEN <<Past + 1>> ELSE Walk(frames, Failing)
    /\ Standing' = IF Ended' THEN <<Past + 1>> ELSE Walk(frames', Failing')
  BY DEF Standing, Walk, Place, PlaceIn, Depth, Past

(* Past is a number.                                                        *)
LEMMA PastType ==
    ASSUME IsFiniteSet(Ids)
    PROVE  /\ Cardinality(Ids) \in Nat /\ Past \in Nat
           /\ Past = Cardinality(Ids) + 2
  BY FS_CardinalityType DEF Past

(* Walk gives each activation a number.                                     *)
LEMMA WalkType ==
    ASSUME IsFiniteSet(Ids), NEW fs \in Seq(Frame), NEW b \in BOOLEAN
    PROVE  /\ Walk(fs, b) \in Seq(Nat) /\ Len(fs) \in Nat
           /\ Len(Walk(fs, b)) = Len(fs)
           /\ \A i \in 1..Len(fs) :
                 /\ Walk(fs, b)[i] = PlaceIn(fs, b, i)
                 /\ PlaceIn(fs, b, i) \in Nat
                 /\ fs[i] \in Frame /\ fs[i].at \in Nat \ {0}
  <1>1. Len(fs) \in Nat /\ \A i \in 1..Len(fs) : fs[i] \in Frame
    BY LenProperties, ElementOfSeq
  <1>2. \A i \in 1..Len(fs) : fs[i].at \in Nat \ {0}
    BY <1>1 DEF Frame
  <1>3. \A i \in 1..Len(fs) : PlaceIn(fs, b, i) \in Nat
    BY <1>2, PastType DEF PlaceIn
  <1>4. Walk(fs, b) \in [1..Len(fs) -> Nat]
    BY <1>3 DEF Walk
  <1>5. Walk(fs, b) \in Seq(Nat) /\ Len(Walk(fs, b)) = Len(fs)
    BY <1>1, <1>4
  <1>6. QED
    BY <1>1, <1>2, <1>3, <1>5 DEF Walk

(* A walk that is as before below its last activation, and there further,   *)
(* is later.                                                                *)
LEMMA WalkLater ==
    ASSUME IsFiniteSet(Ids), NEW fs \in Seq(Frame), NEW gs \in Seq(Frame),
           NEW b \in BOOLEAN, NEW c \in BOOLEAN,
           gs # <<>>, Len(gs) <= Len(fs) + 1, b => Len(gs) <= Len(fs),
           \A j \in 1..(Len(gs) - 1) : gs[j] = fs[j],
           Len(gs) <= Len(fs) =>
              PlaceIn(fs, b, Len(gs)) < PlaceIn(gs, c, Len(gs))
    PROVE  Later(Walk(gs, c), Walk(fs, b))
  <1>1. /\ Len(fs) \in Nat /\ Len(gs) \in Nat /\ Len(gs) # 0
        /\ Len(Walk(fs, b)) = Len(fs) /\ Len(Walk(gs, c)) = Len(gs)
        /\ \A i \in 1..Len(fs) : Walk(fs, b)[i] = PlaceIn(fs, b, i)
        /\ \A i \in 1..Len(gs) : Walk(gs, c)[i] = PlaceIn(gs, c, i)
    BY WalkType, EmptySeq, LenProperties
  <1>2. ASSUME NEW j \in 1..(Len(gs) - 1)
        PROVE  j <= Len(Walk(fs, b)) /\ Walk(gs, c)[j] = Walk(fs, b)[j]
    <2>1. /\ j \in 1..Len(fs) /\ j \in 1..Len(gs) /\ j # Len(gs)
          /\ ~(j = Len(fs) /\ b) /\ gs[j] = fs[j]
      BY <1>1
    <2>2. PlaceIn(gs, c, j) = PlaceIn(fs, b, j)
      BY <2>1 DEF PlaceIn
    <2>3. QED
      BY <1>1, <2>1, <2>2
  <1>3. Len(gs) \in 1..Len(Walk(gs, c))
    BY <1>1
  <1>4. Len(gs) <= Len(Walk(fs, b)) => Walk(fs, b)[Len(gs)] < Walk(gs, c)[Len(gs)]
    BY <1>1
  <1>5. QED
    BY <1>2, <1>3, <1>4 DEF Later

-----------------------------------------------------------------------------
(* What a step does to the walk: an activation is done with its node, or    *)
(* fails, or starts another one, or takes its right side; or the call ends. *)

Goes(f) ==
    /\ Going /\ Going' /\ frames' = Advance(f)
    /\ frames[f].at <= Len(frames[f].list)
Fails(f) ==
    /\ f = Depth => Going
    /\ ~Ended /\ Failing'
    /\ frames' = Below(f) \/ (f = Depth /\ UNCHANGED frames)
Starts ==
    /\ Going /\ Going'
    /\ \E inst, list, role, level :
          frames' = Append(frames, Activation(inst, list, role, level))
TakesRight ==
    /\ Failing /\ Going' /\ Top.role = "left" /\ Depth > 1
    /\ \E list, level :
          frames' = Append(Below(Depth - 1),
                           Activation(Top.inst, list, "right", level))
Ends == ~Ended /\ Ended' /\ UNCHANGED frames

(* Every disjunct of Next is one of these.                                  *)
LEMMA WalkKinds ==
    ASSUME StackInv, [Next]_vars
    PROVE  \/ UNCHANGED vars
           \/ \E f \in 1..Depth : Goes(f) \/ Fails(f)
           \/ Starts \/ TakesRight \/ Ends
  <1>1. /\ Depth \in 1..Depth /\ Top = frames[Depth]
        /\ Top.role \in {"left", "right"} => Depth > 1
        /\ Depth > 1 => /\ Depth - 1 \in 1..Depth /\ Depth - 1 # Depth
                        /\ frames[Depth - 1].at <= Len(frames[Depth - 1].list)
    BY CallerFacts, DepthFacts DEF StackInv
  <1>2. ASSUME NEW f \in 1..Depth, NEW r, NEW v, NEW files, Conclude(f, r, v, files),
               Going, frames[f].at <= Len(frames[f].list)
        PROVE  Goes(f) \/ Fails(f)
    <2>1. CASE HashAgrees(ImportAt(f), v)
      BY <1>2, <2>1 DEF Conclude, Goes, Going
    <2>2. CASE ~HashAgrees(ImportAt(f), v)
      BY <1>2, <2>2 DEF Conclude, Fails, Going, Failing, Ended, Error
    <2>3. QED
      BY <2>1, <2>2
  <1>3. ASSUME DiskHit \/ MemHit \/ Fetching
        PROVE  Going /\ frames[Depth].at <= Len(frames[Depth].list)
    BY <1>1, <1>3 DEF DiskHit, MemHit, Fetching, MustFetch, PastDisk, Chained, AtImport,
       AtNode
  <1>4. CASE DiskHit
    BY <1>1, <1>3, <1>4 DEF DiskHit, Goes, Going
  <1>5. CASE MemHit
    BY <1>1, <1>2, <1>3, <1>5 DEF MemHit
  <1>6. CASE FetchLocation
    BY <1>1, <1>2, <1>3, <1>6 DEF FetchLocation
  <1>7. ASSUME NEW answer \in Serve(HereLoc.kind, HereLoc.headers), FetchText(answer)
        PROVE  \E f \in 1..Depth : Goes(f) \/ Fails(f)
    BY <1>1, <1>2, <1>3, <1>7 DEF FetchText
  <1>8. ASSUME NEW answer \in Serve(HereLoc.kind, HereLoc.headers),
               Load(answer)
        PROVE  Starts
    BY <1>3, <1>8 DEF Load, Starts, Going
  <1>9. CASE FinishDocument
    <2>1. Going
      BY <1>9 DEF FinishDocument, AtEnd
    <2>2. QED
      BY <1>1, <1>2, <1>9, <2>1 DEF FinishDocument
  <1>10. CASE EnterAlternative
    BY <1>10 DEF EnterAlternative, AtAlternative, AtNode, Starts, Going
  <1>11. CASE FinishSide
    BY <1>1, <1>11 DEF FinishSide, AtEnd, Goes, Going
  <1>12. CASE Recover
    BY <1>1, <1>12 DEF Recover, TakesRight, Going, Running
  <1>13. CASE LeaveSide \/ LeaveDocument
    <2>1. /\ Depth > 1 /\ Failing /\ Failing' /\ frames' = Below(Depth - 1)
      BY <1>1, <1>13 DEF LeaveSide, LeaveDocument, Failing, Wrapped, Error
    <2>2. Fails(Depth - 1)
      BY <1>1, <2>1 DEF Fails, Failing, Ended
    <2>3. QED
      BY <1>1, <2>1, <2>2
  <1>14. CASE \/ HeadersFail \/ ChainFails \/ RefuseRemote \/ Cycle \/ DocumentIllTyped
              \/ \E answer \in Serve(HereLoc.kind, HereLoc.headers) : FetchFails(answer)
    <2>1. Going
      BY <1>3, <1>14 DEF HeadersFail, ChainFails, RefuseRemote, Cycle,
         DocumentIllTyped, FetchFails, AtImport, AtEnd, AtNode, Chained, Fetching,
         PastDisk, MustFetch
    <2>2. UNCHANGED frames /\ \E cause : outcome' \in {Error(cause), Wrapped(Error(cause))}
      <3>1. CASE \/ HeadersFail \/ ChainFails \/ RefuseRemote \/ Cycle
                 \/ DocumentIllTyped
        BY <3>1 DEF HeadersFail, ChainFails, RefuseRemote, Cycle, DocumentIllTyped, Stop
      <3>2. ASSUME NEW answer, FetchFails(answer)
            PROVE  UNCHANGED frames /\ \E cause : outcome' = Wrapped(Error(cause))
        BY <3>2 DEF FetchFails
      <3>3. QED
        BY <1>14, <3>1, <3>2
    <2>3. Failing'
      <3>1. PICK cause : outcome' \in {Error(cause), Wrapped(Error(cause))}
        BY <2>2
      <3>2. /\ Error(cause).tag = "failing"
            /\ Wrapped(Error(cause)).tag = Error("TypeError").tag
            /\ Error("TypeError").tag = "failing"
        BY DEF Error, Wrapped
      <3>3. outcome'.tag = "failing"
        BY <3>1, <3>2
      <3>4. QED
        BY <3>3 DEF Failing
    <2>4. QED
      BY <1>1, <2>1, <2>2, <2>3 DEF Fails, Going, Ended
  <1>15. CASE \/ ChainAborts \/ FinishRoot \/ GiveUp
              \/ \E answer \in Serve(HereLoc.kind, HereLoc.headers) : FetchAborts(answer)
    <2>1. Going \/ Failing
      BY <1>3, <1>15 DEF ChainAborts, FinishRoot, GiveUp, FetchAborts, AtImport, AtEnd,
         AtNode, Fetching, MustFetch, PastDisk, Chained
    <2>2. Ended' /\ UNCHANGED frames
      <3>1. outcome \in Outcomes
        BY DEF StackInv, TypeOK
      <3>2. QED
        BY <1>15, <3>1 DEF ChainAborts, FinishRoot, GiveUp, FetchAborts, Stop, Ended,
           Panic, Running, Outcomes
    <2>3. QED
      BY <2>1, <2>2 DEF Ends, Going, Failing, Ended
  <1>16. CASE Done \/ UNCHANGED vars
    BY <1>16 DEF Done
  <1>17. CASE Fetch
    BY <1>6, <1>7, <1>8, <1>14, <1>15, <1>17 DEF Fetch
  <1>18. QED
    BY <1>4, <1>5, <1>9, <1>10, <1>11, <1>12, <1>13, <1>14, <1>15, <1>16, <1>17 DEF Next

(* What becomes of the activations in each case.                            *)
CutTo(n) == Len(frames') = n /\ \A i \in 1..(n - 1) : frames'[i] = frames[i]
LEMMA WalkShapes ==
    ASSUME TypeOK, TypeOK'
    PROVE  /\ Depth \in Nat \ {0} /\ Depth = Len(frames)
           /\ frames \in Seq(Frame) /\ frames' \in Seq(Frame)
           /\ \A f \in 1..Depth : Goes(f) =>
                 CutTo(f) /\ frames'[f] = [frames[f] EXCEPT !.at = @ + 1]
           /\ \A f \in 1..Depth : Fails(f) => CutTo(f) /\ frames'[f] = frames[f]
           /\ Starts => CutTo(Depth + 1) /\ frames'[Depth + 1].at = 1
           /\ TakesRight => /\ CutTo(Depth) /\ frames'[Depth].at = 1
                            /\ frames'[Depth].role = "right"
                            /\ frames[Depth].role = "left"
  <1>1. /\ Depth \in Nat \ {0} /\ Depth = Len(frames)
        /\ FramesOK(frames, loaded)
        /\ frames \in Seq(Frame) /\ frames' \in Seq(Frame)
    BY DepthFacts DEF TypeOK, FramesOK
  <1>2. ASSUME NEW f \in 1..Depth
        PROVE  /\ Len(Below(f)) = f /\ Below(f) \in Seq(Frame)
               /\ \A i \in 1..f : Below(f)[i] = frames[i]
    BY <1>1, BelowFrames DEF Below, FramesOK
  <1>3. ASSUME NEW f \in 1..Depth, Goes(f)
        PROVE  CutTo(f) /\ frames'[f] = [frames[f] EXCEPT !.at = @ + 1]
    BY <1>1, <1>3, AdvanceFrames DEF Goes, Advance, Below, Advanced, CutTo
  <1>4. ASSUME NEW f \in 1..Depth, Fails(f)
        PROVE  CutTo(f) /\ frames'[f] = frames[f]
    BY <1>1, <1>2, <1>4 DEF Fails, CutTo
  <1>5. ASSUME Starts
        PROVE  CutTo(Depth + 1) /\ frames'[Depth + 1].at = 1
    <2>1. PICK inst, list, role, level :
             frames' = Append(frames, Activation(inst, list, role, level))
      BY <1>5 DEF Starts
    <2>2. /\ Len(frames') = Depth + 1 /\ \A i \in 1..Depth : frames'[i] = frames[i]
          /\ frames'[Depth + 1] = Activation(inst, list, role, level)
      BY <1>1, <2>1
    <2>3. QED
      BY <1>1, <2>2 DEF CutTo, Activation
  <1>6. ASSUME TakesRight
        PROVE  /\ CutTo(Depth) /\ frames'[Depth].at = 1
               /\ frames'[Depth].role = "right" /\ frames[Depth].role = "left"
    <2>1. /\ Depth - 1 \in 1..Depth /\ frames[Depth].role = "left"
          /\ \E list, level : frames' = Append(Below(Depth - 1),
                                   Activation(Top.inst, list, "right", level))
      BY <1>1, <1>6 DEF TakesRight, Top
    <2>2. PICK list, level : frames' = Append(Below(Depth - 1),
                                 Activation(Top.inst, list, "right", level))
      BY <2>1
    <2> DEFINE below == Below(Depth - 1)
               fr == Activation(Top.inst, list, "right", level)
    <2>3. fr.at = 1 /\ fr.role = "right"
      BY DEF Activation
    <2>4. /\ below \in Seq(Frame) /\ Len(below) = Depth - 1
          /\ \A i \in 1..(Depth - 1) : below[i] = frames[i]
      BY <1>2, <2>1
    <2> HIDE DEF below, fr
    <2>5. /\ Len(frames') = Depth /\ frames'[Depth] = fr
          /\ \A i \in 1..(Depth - 1) : frames'[i] = below[i]
      BY <1>1, <2>2, <2>4 DEF below, fr
    <2>6. QED
      BY <2>1, <2>3, <2>4, <2>5 DEF CutTo
  <1>7. QED
    BY <1>1, <1>3, <1>4, <1>5, <1>6

-----------------------------------------------------------------------------
(* An activation is at a node of its list, or just past the last one.       *)

WithinLists == \A f \in 1..Depth : frames[f].at <= Len(frames[f].list) + 1

(* It stays so.                                                             *)
LEMMA WithinStep ==
    ASSUME StackInv, TypeOK', WithinLists, [Next]_vars
    PROVE  WithinLists'
  <1>1. TypeOK /\ Depth = Len(frames) /\ Depth \in Nat \ {0} /\ Depth' = Len(frames')
    BY DepthFacts DEF StackInv, Depth
  <1>2. ASSUME NEW n \in 1..(Depth + 1), CutTo(n),
               frames'[n].at <= Len(frames'[n].list) + 1
        PROVE  WithinLists'
    <2>1. Depth' = n /\ \A i \in 1..(n - 1) : frames'[i] = frames[i] /\ i \in 1..Depth
      BY <1>1, <1>2 DEF CutTo
    <2>2. \A i \in 1..n : i \in 1..(n - 1) \/ i = n
      OBVIOUS
    <2>3. \A i \in 1..Depth' : frames'[i].at <= Len(frames'[i].list) + 1
      BY <1>2, <2>1, <2>2 DEF WithinLists
    <2>4. QED
      BY <2>3 DEF WithinLists
  <1>3. ASSUME NEW f \in 1..Depth
        PROVE  /\ f \in 1..(Depth + 1)
               /\ frames[f] \in Frame /\ Len(frames[f].list) \in Nat
               /\ frames[f].at \in Nat
    BY <1>1, DepthFacts, LenProperties DEF Frame
  <1>4. ASSUME NEW f \in 1..Depth, Goes(f)
        PROVE  WithinLists'
    <2>1. CutTo(f) /\ frames'[f] = [frames[f] EXCEPT !.at = @ + 1]
          /\ frames[f].at <= Len(frames[f].list)
      BY <1>1, <1>4, WalkShapes DEF Goes
    <2>2. frames'[f].at = frames[f].at + 1 /\ frames'[f].list = frames[f].list
      BY <1>3, <2>1 DEF Frame
    <2>3. frames'[f].at <= Len(frames'[f].list) + 1
      BY <1>3, <2>1, <2>2
    <2>4. QED
      BY <1>2, <1>3, <2>1, <2>3
  <1>5. ASSUME NEW f \in 1..Depth, Fails(f)
        PROVE  WithinLists'
    <2>1. CutTo(f) /\ frames'[f] = frames[f]
      BY <1>1, <1>5, WalkShapes
    <2>2. frames[f].at <= Len(frames[f].list) + 1
      BY DEF WithinLists
    <2>3. QED
      BY <1>2, <1>3, <2>1, <2>2
  <1>6. ASSUME NEW f \in 1..(Depth + 1), CutTo(f), frames'[f].at = 1
        PROVE  WithinLists'
    <2>1. f \in 1..Len(frames')
      BY <1>1, <1>6 DEF CutTo
    <2>2. frames' \in Seq(Frame)
      BY <1>1, WalkShapes
    <2>3. frames'[f] \in Frame /\ Len(frames'[f].list) \in Nat
      <3>1. frames'[f] \in Frame
        BY <2>1, <2>2, ElementOfSeq
      <3>2. frames'[f].list \in Seq(Ids)
        BY <3>1 DEF Frame
      <3>3. QED
        BY <3>1, <3>2, LenProperties
    <2>4. QED
      BY <1>2, <1>6, <2>1, <2>3
  <1>7. CASE Starts \/ TakesRight
    <2>1. Depth \in 1..(Depth + 1) /\ Depth + 1 \in 1..(Depth + 1)
      BY <1>1
    <2>2. QED
      BY <1>1, <1>6, <1>7, <2>1, WalkShapes
  <1>8. CASE UNCHANGED vars \/ Ends
    <2>1. frames' = frames
      BY <1>8 DEF vars, Ends
    <2>2. QED
      BY <2>1 DEF WithinLists, Depth
  <1>9. QED
    BY <1>4, <1>5, <1>7, <1>8, WalkKinds

(* And is so at every step of a call.                                       *)
LEMMA WithinAlways == Spec => []WithinLists
  <1>1. Init => WithinLists
    <2> SUFFICES ASSUME Init PROVE WithinLists
      OBVIOUS
    <2>1. PICK root \in Roots : frames = <<Activation(1, root.doc.top, "document", 0)>>
      BY DEF Init
    <2>2. frames[1].at = 1 /\ Depth = 1
      BY <2>1 DEF Activation, Depth
    <2>3. frames[1] \in Frame
      BY <2>2, StackInit, DepthFacts DEF StackInv
    <2>4. QED
      BY <2>2, <2>3 DEF WithinLists, Frame
  <1>2. StackInv /\ StackInv' /\ WithinLists /\ [Next]_vars => WithinLists'
    BY WithinStep DEF StackInv
  <1>3. QED
    BY <1>1, <1>2, StackAlways, PTL DEF Spec

-----------------------------------------------------------------------------
(* A list has no more nodes than there are ids.                             *)
LEMMA ShortList ==
    ASSUME IsFiniteSet(Ids), NEW list \in Seq(Ids), Distinct(list)
    PROVE  Len(list) \in Nat /\ Len(list) <= Cardinality(Ids)
  <1>1. Len(list) \in Nat /\ list \in [1..Len(list) -> Ids]
    BY LenProperties
  <1>2. IsFiniteSet(1..Len(list)) /\ Cardinality(1..Len(list)) = Len(list)
    BY <1>1, FS_Interval
  <1>3. list \in Injection(1..Len(list), Ids)
    BY <1>1 DEF Distinct, Injection, IsInjective
  <1>4. Cardinality(1..Len(list)) <= Cardinality(Ids)
    BY <1>2, <1>3, FS_Injection
  <1>5. QED
    BY <1>1, <1>2, <1>4

(* So no activation ever comes as far as one that fails.                    *)
LEMMA BeforePast ==
    ASSUME IsFiniteSet(Ids), StackInv, Lists(frames, loaded), WithinLists,
           NEW f \in 1..Depth
    PROVE  /\ frames[f] \in Frame /\ frames[f].at \in Nat \ {0}
           /\ frames[f].at < Past
  <1>1. frames[f] \in Frame /\ frames[f].list \in Seq(Ids) /\ frames[f].at \in Nat \ {0}
    BY DepthFacts DEF StackInv, Frame
  <1>2. Distinct(frames[f].list)
    BY ListedOnce
  <1>3. Len(frames[f].list) \in Nat /\ Len(frames[f].list) <= Cardinality(Ids)
    BY <1>1, <1>2, ShortList
  <1>4. QED
    BY <1>1, <1>3, PastType DEF WithinLists

(* Every step of the walk takes it further.                                 *)
LEMMA MoveStep ==
    ASSUME IsFiniteSet(Ids), StackInv, Lists(frames, loaded), WithinLists, TypeOK',
           [Next]_vars
    PROVE  UNCHANGED vars \/ Later(Standing', Standing)
  <1> DEFINE W == Walk(frames, Failing)
             X == Walk(frames', Failing')
  <1>1. /\ TypeOK /\ Depth \in Nat \ {0} /\ Depth = Len(frames)
        /\ frames \in Seq(Frame) /\ frames' \in Seq(Frame)
        /\ Failing \in BOOLEAN /\ Failing' \in BOOLEAN
        /\ Past \in Nat
    BY WalkShapes, PastType DEF StackInv, Failing
  <1>2. ASSUME NEW n \in 1..(Depth + 1), CutTo(n), ~Ended, ~Ended',
               Failing => n <= Depth,
               n <= Depth => PlaceIn(frames, Failing, n) < PlaceIn(frames', Failing', n)
        PROVE  Later(Standing', Standing)
    <2>1. /\ Len(frames') = n /\ frames' # <<>> /\ n <= Len(frames) + 1
          /\ \A j \in 1..(Len(frames') - 1) : frames'[j] = frames[j]
          /\ Failing => Len(frames') <= Len(frames)
          /\ Len(frames') <= Len(frames) =>
                PlaceIn(frames, Failing, Len(frames'))
                   < PlaceIn(frames', Failing', Len(frames'))
      BY <1>1, <1>2 DEF CutTo
    <2>2. Later(X, W)
      <3> DEFINE fs == frames
                 gs == frames'
      <3>1. Len(gs) <= Len(fs) + 1
        BY <2>1
      <3>2. QED
        BY <1>1, <2>1, <3>1, WalkLater
    <2>3. QED
      BY <1>2, <2>2, StandingIsWalk
  <1>3. ASSUME NEW f \in 1..Depth
        PROVE  /\ f \in 1..(Depth + 1) /\ f <= Depth
               /\ frames[f] \in Frame /\ frames[f].at \in Nat /\ frames[f].at < Past
    BY <1>1, BeforePast
  <1>4. ASSUME NEW f \in 1..Depth, Goes(f)
        PROVE  Later(Standing', Standing)
    <2>1. CutTo(f) /\ frames'[f] = [frames[f] EXCEPT !.at = @ + 1]
      BY <1>1, <1>4, WalkShapes
    <2>2. /\ ~Ended /\ ~Ended' /\ ~Failing /\ ~Failing'
      BY <1>4 DEF Goes, Going, Ended, Failing
    <2>3. frames'[f].at = frames[f].at + 1 /\ frames'[f].role = frames[f].role
      BY <1>3, <2>1 DEF Frame
    <2>4. PlaceIn(frames, Failing, f) < PlaceIn(frames', Failing', f)
      BY <1>1, <1>3, <2>2, <2>3 DEF PlaceIn
    <2>5. QED
      BY <1>2, <1>3, <2>1, <2>2, <2>4
  <1>5. ASSUME NEW f \in 1..Depth, Fails(f)
        PROVE  Later(Standing', Standing)
    <2>1. CutTo(f) /\ frames'[f] = frames[f] /\ f = Len(frames')
      BY <1>1, <1>5, WalkShapes DEF CutTo
    <2>2. ~Ended /\ ~Ended' /\ Failing' /\ (f = Depth => ~Failing)
      BY <1>5 DEF Fails, Going, Ended, Failing
    <2>3. PlaceIn(frames, Failing, f) < PlaceIn(frames', Failing', f)
      BY <1>1, <1>3, <2>1, <2>2 DEF PlaceIn
    <2>4. QED
      BY <1>2, <1>3, <2>1, <2>2, <2>3
  <1>6. CASE Starts
    <2>1. CutTo(Depth + 1) /\ Depth + 1 \in 1..(Depth + 1) /\ ~(Depth + 1 <= Depth)
      BY <1>1, <1>6, WalkShapes
    <2>2. ~Ended /\ ~Ended' /\ ~Failing
      BY <1>6 DEF Starts, Going, Ended, Failing
    <2>3. QED
      BY <1>2, <2>1, <2>2
  <1>7. CASE TakesRight
    <2>1. /\ CutTo(Depth) /\ frames'[Depth].at = 1 /\ Depth \in 1..Depth
          /\ frames'[Depth].role = "right" /\ frames[Depth].role = "left"
          /\ Depth = Len(frames')
      BY <1>1, <1>7, WalkShapes DEF CutTo
    <2>2. ~Ended /\ ~Ended' /\ Failing /\ ~Failing'
      BY <1>7 DEF TakesRight, Going, Ended, Failing
    <2>3. PlaceIn(frames, Failing, Depth) < PlaceIn(frames', Failing', Depth)
      BY <1>1, <2>1, <2>2 DEF PlaceIn
    <2>4. QED
      BY <1>2, <1>3, <2>1, <2>2, <2>3
  <1>8. CASE Ends
    <2>1. Standing' = <<Past + 1>> /\ Standing = W
      BY <1>8, StandingIsWalk DEF Ends
    <2>2. Len(W) = Depth /\ W[1] = PlaceIn(frames, Failing, 1) /\ 1 \in 1..Depth
      BY <1>1, WalkType
    <2>3. frames[1].role = "document" /\ frames[1].at \in Nat /\ frames[1].at < Past
      BY <1>1, <1>3, <2>2, CallerFacts
    <2>4. W[1] < Past + 1
      BY <1>1, <2>2, <2>3 DEF PlaceIn
    <2> HIDE DEF W
    <2>5. Later(<<Past + 1>>, W)
      BY <2>4 DEF Later
    <2>6. QED
      BY <2>1, <2>5
  <1>9. QED
    BY <1>4, <1>5, <1>6, <1>7, <1>8, WalkKinds

(* The walk never comes back to where it was, nor to anything before it     *)
(* (resolve_nodes), for documents with finitely many imports.               *)
THEOREM StepsMoveOn ==
    ASSUME IsFiniteSet(Ids)
    PROVE  Spec => WalkMovesOn
  <1>1. /\ StackInv /\ StackInv' /\ CellsInv /\ WithinLists /\ [Next]_vars
        => [Later(Standing', Standing)]_vars
    BY MoveStep DEF StackInv, CellsInv
  <1>2. QED
    BY <1>1, StackAlways, CellsAlways, WithinAlways, PTL DEF Spec, WalkMovesOn

-----------------------------------------------------------------------------
(* How deep the activations are.  Those that resolve one document work for  *)
(* one entry of the cycle stack, and wait at nodes of their own.            *)

(* Induction by way of a least counterexample.                              *)
LEMMA LeastOf ==
    ASSUME NEW T, T \subseteq Nat, T # {}
    PROVE  \E m \in T : \A k \in T : ~(k < m)
  <1>1. PICK m \in T : \A k \in T : ~(<<k, m>> \in OpToRel(<, Nat))
    BY WFMin, NatLessThanWellFounded
  <1>2. QED
    BY <1>1 DEF OpToRel

(* Activations for one entry of the stack work on one document.             *)
LEMMA SameLevel ==
    ASSUME StackInv, NEW f \in 1..Depth, NEW g \in 1..Depth, f < g,
           frames[f].level = frames[g].level
    PROVE  frames[f].inst = frames[g].inst
  <1>1. /\ Depth = Len(frames) /\ Depth \in Nat
        /\ FramesOK(frames, loaded) /\ StackFollows(frames, stack, loaded)
        /\ \A i \in 1..Depth : frames[i].level \in Nat
    BY DepthFacts DEF StackInv, TypeOK, Frame
  <1> DEFINE Odd == {i \in 1..Depth : /\ f < i /\ frames[i].level = frames[f].level
                                      /\ frames[i].inst # frames[f].inst}
  <1> SUFFICES ASSUME Odd # {}
               PROVE  FALSE
    OBVIOUS
  <1>2. Odd \subseteq Nat
    OBVIOUS
  <1>3. PICK i \in Odd : \A k \in Odd : ~(k < i)
    BY ONLY <1>2, Odd # {}, LeastOf
  <1>4. /\ i \in 2..Len(frames) /\ i - 1 \in 1..Depth /\ i \in 1..Depth
        /\ f < i /\ f <= i - 1 /\ i - 1 < i /\ i - 1 \notin Odd
        /\ frames[i].level = frames[f].level /\ frames[i].inst # frames[f].inst
    BY <1>1, <1>3
  <1>5. /\ frames[f].level <= frames[i - 1].level
        /\ EntryOf(frames[i], frames[i - 1], stack, loaded)
        /\ StartedFrom(frames[i], frames[i - 1], loaded)
    BY <1>1, <1>4 DEF StackFollows, FramesOK
  <1>6. frames[i].role # "document"
    BY <1>1, <1>4, <1>5 DEF EntryOf
  <1>7. /\ frames[i - 1].level = frames[f].level
        /\ frames[i - 1].inst # frames[f].inst
    BY <1>4, <1>5, <1>6 DEF EntryOf, StartedFrom
  <1>8. f < i - 1
    BY <1>4, <1>7
  <1>9. QED
    BY <1>4, <1>7, <1>8

(* No deeper than the locations under way times the ids, and the root.      *)
DepthBound == Depth <= 1 + (1 + Len(stack)) * Cardinality(Ids)

(* Each activation but the last has an entry of the stack and a node.       *)
LEMMA DepthFollows ==
    ASSUME IsFiniteSet(Ids), StackInv, Lists(frames, loaded)
    PROVE  DepthBound
  <1> DEFINE n == Len(stack)
             Slots == (0..n) \X Ids
             slot == [f \in 1..(Depth - 1) |-> <<frames[f].level, NodeAt(f)>>]
  <1>1. /\ Depth = Len(frames) /\ Depth \in Nat \ {0} /\ n \in Nat
        /\ FramesOK(frames, loaded) /\ StackFollows(frames, stack, loaded)
        /\ Depth \in 1..Depth
    BY DepthFacts, LenProperties DEF StackInv, TypeOK
  <1>2. ASSUME NEW f \in 1..(Depth - 1)
        PROVE  /\ f \in 1..Depth /\ frames[f].level \in 0..n /\ NodeAt(f) \in Ids
               /\ Busy(frames, f) = <<frames[f].inst, NodeAt(f)>>
    <2>1. f \in 1..Depth /\ f + 1 \in 2..Len(frames) /\ f + 1 - 1 = f
      BY <1>1
    <2>2. frames[f].at <= Len(frames[f].list)
      BY <1>1, <2>1 DEF FramesOK, StartedFrom
    <2>3. NodeAt(f) \in Nodes(DocAt(f)) /\ IsDocument(DocAt(f)) /\ frames[f] \in Frame
      BY <2>1, <2>2, NodeFacts, DepthFacts DEF StackInv
    <2>4. NodeAt(f) \in Ids
      BY <2>3 DEF IsDocument
    <2>5. frames[f].level \in Nat /\ frames[f].level <= n
      BY <1>1, <2>1, <2>3 DEF StackFollows, Frame
    <2>6. QED
      BY <1>1, <2>1, <2>4, <2>5 DEF Busy, NodeAt
  <1>3. slot \in [1..(Depth - 1) -> Slots]
    BY <1>2
  <1>4. ASSUME NEW f \in 1..(Depth - 1), NEW g \in 1..(Depth - 1), f < g,
               slot[f] = slot[g]
        PROVE  FALSE
    <2>1. frames[f].level = frames[g].level /\ NodeAt(f) = NodeAt(g)
      BY <1>4
    <2>2. frames[f].inst = frames[g].inst
      BY <1>2, <1>4, <2>1, SameLevel
    <2>3. Busy(frames, f) = Busy(frames, g)
      BY <1>2, <2>1, <2>2
    <2>4. QED
      BY <1>1, <1>4, <2>3 DEF Lists
  <1>5. \A f, g \in 1..(Depth - 1) : slot[f] = slot[g] => f = g
    <2>1. \A f, g \in 1..(Depth - 1) : f < g \/ g < f \/ f = g
      BY <1>1
    <2> HIDE DEF slot
    <2>2. QED
      BY <1>4, <2>1
  <1>6. slot \in Injection(1..(Depth - 1), Slots)
    BY <1>3, <1>5 DEF Injection, IsInjective
  <1>7. /\ IsFiniteSet(0..n) /\ Cardinality(0..n) = 1 + n
        /\ Cardinality(1..(Depth - 1)) = Depth - 1
    <2>1. /\ 0 \in Int /\ n \in Int /\ ~(0 > n) /\ n - 0 + 1 = 1 + n
          /\ 1 \in Int /\ Depth - 1 \in Int
      BY <1>1
    <2>2. IsFiniteSet(0..n) /\ Cardinality(0..n) = 1 + n
      <3> HIDE DEF n
      <3> QED BY <2>1, FS_Interval
    <2>3. Cardinality(1..(Depth - 1)) = IF 1 > Depth - 1 THEN 0 ELSE Depth - 1 - 1 + 1
      BY <2>1, FS_Interval
    <2>4. QED
      BY <1>1, <2>2, <2>3
  <1>8. /\ IsFiniteSet(Slots)
        /\ Cardinality(Slots) = (1 + n) * Cardinality(Ids)
    BY <1>7, FS_Product
  <1> HIDE DEF Slots, slot
  <1>9. Cardinality(1..(Depth - 1)) <= Cardinality(Slots)
    BY <1>6, <1>8, FS_Injection
  <1>10. (1 + n) * Cardinality(Ids) \in Nat
    BY <1>8, FS_CardinalityType
  <1>11. QED
    BY <1>1, <1>7, <1>8, <1>9, <1>10 DEF DepthBound

(* The recursion of resolve_with_env and resolve_nodes is as deep as the    *)
(* imports under way and the nodes of a document allow, however many        *)
(* imports have been resolved before and however many sides given up.       *)
THEOREM DepthIsBounded ==
    ASSUME IsFiniteSet(Ids)
    PROVE  Spec => []DepthBound
  <1>1. StackInv /\ CellsInv => DepthBound
    BY DepthFollows DEF CellsInv
  <1>2. QED
    BY <1>1, StackAlways, CellsAlways, PTL

-----------------------------------------------------------------------------
(* The places the walk can come to, if there are finitely many locations.   *)

Positions(n, m) == UNION {[1..k -> 0..m] : k \in 0..n}

LEMMA PositionsAreFinite ==
    ASSUME NEW n \in Nat, NEW m \in Nat
    PROVE  IsFiniteSet(Positions(n, m))
  <1> DEFINE Cells2 == (1..n) \X (0..m)
             graph == [q \in Positions(n, m) |-> {<<i, q[i]>> : i \in DOMAIN q}]
  <1>1. IsFiniteSet(Cells2)
    <2>1. IsFiniteSet(1..n) /\ IsFiniteSet(0..m)
      BY FS_Interval
    <2>2. QED
      BY <2>1, FS_Product
  <1>2. IsFiniteSet(SUBSET Cells2)
    BY <1>1, FS_SUBSET
  <1>3. ASSUME NEW q \in Positions(n, m)
        PROVE  /\ q = [i \in DOMAIN q |-> q[i]]
               /\ \A i \in DOMAIN q : i \in 1..n /\ q[i] \in 0..m
    BY DEF Positions
  <1>4. graph \in [Positions(n, m) -> SUBSET Cells2]
    BY <1>3
  <1>5. ASSUME NEW p \in Positions(n, m), NEW q \in Positions(n, m), graph[p] = graph[q]
        PROVE  p = q
    <2>1. {<<i, p[i]>> : i \in DOMAIN p} = {<<i, q[i]>> : i \in DOMAIN q}
      BY <1>5
    <2>2. ASSUME NEW i \in DOMAIN p
          PROVE  i \in DOMAIN q /\ p[i] = q[i]
      <3>1. <<i, p[i]>> \in {<<k, q[k]>> : k \in DOMAIN q}
        BY <2>1
      <3>2. PICK k \in DOMAIN q : <<i, p[i]>> = <<k, q[k]>>
        BY <3>1
      <3>3. QED
        BY <3>2
    <2>3. ASSUME NEW i \in DOMAIN q
          PROVE  i \in DOMAIN p
      <3>1. <<i, q[i]>> \in {<<k, p[k]>> : k \in DOMAIN p}
        BY <2>1
      <3>2. PICK k \in DOMAIN p : <<i, q[i]>> = <<k, p[k]>>
        BY <3>1
      <3>3. QED
        BY <3>2
    <2>4. QED
      BY <1>3, <2>2, <2>3
  <1>6. graph \in Injection(Positions(n, m), SUBSET Cells2)
    <2> HIDE DEF graph, Cells2
    <2> QED BY <1>4, <1>5 DEF Injection, IsInjective
  <1> HIDE DEF graph, Cells2
  <1>7. QED
    BY <1>2, <1>6, FS_Injection

(* Where such a sequence is found.                                          *)
LEMMA Position ==
    ASSUME NEW n, NEW m, NEW k \in 0..n, NEW q \in [1..k -> 0..m]
    PROVE  q \in Positions(n, m)
  BY DEF Positions

(* Being later is an order.                                                 *)
LEMMA LaterIsOrder ==
    ASSUME NEW p \in Seq(Nat), NEW q \in Seq(Nat), NEW r \in Seq(Nat)
    PROVE  ~Later(q, q) /\ (Later(q, p) /\ Later(r, q) => Later(r, p))
  <1>1. /\ Len(p) \in Nat /\ Len(q) \in Nat /\ Len(r) \in Nat
        /\ \A i \in 1..Len(p) : p[i] \in Nat
        /\ \A i \in 1..Len(q) : q[i] \in Nat
        /\ \A i \in 1..Len(r) : r[i] \in Nat
    BY LenProperties, ElementOfSeq
  <1>2. ~Later(q, q)
    BY <1>1 DEF Later
  <1>3. ASSUME Later(q, p), Later(r, q)
        PROVE  Later(r, p)
    <2>1. PICK i \in 1..Len(q) :
             /\ \A l \in 1..(i - 1) : l <= Len(p) /\ q[l] = p[l]
             /\ i <= Len(p) => p[i] < q[i]
      BY <1>3 DEF Later
    <2>2. PICK j \in 1..Len(r) :
             /\ \A l \in 1..(j - 1) : l <= Len(q) /\ r[l] = q[l]
             /\ j <= Len(q) => q[j] < r[j]
      BY <1>3 DEF Later
    <2>3. CASE i < j
      <3>1. /\ i \in 1..Len(r) /\ i \in 1..(j - 1)
            /\ \A l \in 1..(i - 1) : l \in 1..(j - 1)
        BY <1>1, <2>3
      <3>2. /\ \A l \in 1..(i - 1) : l <= Len(p) /\ r[l] = p[l]
            /\ i <= Len(p) => p[i] < r[i]
        BY <2>1, <2>2, <3>1
      <3>3. QED
        BY <3>1, <3>2 DEF Later
    <2>4. CASE j < i
      <3>1. /\ j \in 1..Len(q) /\ j \in 1..(i - 1)
            /\ \A l \in 1..(j - 1) : l \in 1..(i - 1)
        BY <1>1, <2>4
      <3>2. /\ \A l \in 1..(j - 1) : l <= Len(p) /\ r[l] = p[l]
            /\ j <= Len(p) => p[j] < r[j]
        BY <2>1, <2>2, <3>1
      <3>3. QED
        BY <3>2 DEF Later
    <2>5. CASE i = j
      <3>1. /\ \A l \in 1..(i - 1) : l <= Len(p) /\ r[l] = p[l]
            /\ i <= Len(p) => p[i] < r[i]
        <4>1. \A l \in 1..(i - 1) : l <= Len(p) /\ r[l] = p[l]
          BY <2>1, <2>2, <2>5
        <4>2. i <= Len(q) /\ q[i] < r[i] /\ i \in 1..Len(q) /\ i \in 1..Len(r)
          BY <1>1, <2>2, <2>5
        <4>3. ASSUME i <= Len(p)
              PROVE  p[i] < r[i]
          <5>1. p[i] < q[i] /\ i \in 1..Len(p)
            BY <1>1, <2>1, <4>2, <4>3
          <5>2. p[i] \in Nat /\ q[i] \in Nat /\ r[i] \in Nat
            BY <1>1, <4>2, <5>1
          <5>3. q[i] < r[i]
            BY <4>2
          <5>4. \A a, b, c \in Nat : a < b /\ b < c => a < c
            OBVIOUS
          <5>5. QED
            BY ONLY <5>1, <5>2, <5>3, <5>4
        <4>4. QED
          BY <4>1, <4>3
      <3>2. QED
        BY <2>2, <2>5, <3>1 DEF Later
    <2>6. QED
      BY <1>1, <2>3, <2>4, <2>5
  <1>4. QED
    BY <1>2, <1>3

Furthest == 1 + (1 + Cardinality(ImportLocation)) * Cardinality(Ids)
Places == Positions(Furthest, 2 * Past)

(* The walk is at one of the places, with one number for each activation.   *)
LEMMA StandingPlace ==
    ASSUME IsFiniteSet(Ids), IsFiniteSet(ImportLocation), StackInv,
           Lists(frames, loaded), WithinLists, PendingInv
    PROVE  Standing \in Places
  <1>1. /\ TypeOK /\ Depth \in Nat \ {0} /\ Depth = Len(frames)
        /\ frames \in Seq(Frame) /\ Failing \in BOOLEAN
        /\ Past \in Nat /\ Past = Cardinality(Ids) + 2 /\ Cardinality(Ids) \in Nat
        /\ stack \in Seq(ImportLocation)
    BY DepthFacts, PastType DEF StackInv, TypeOK, FramesOK, Failing
  <1>2. Len(stack) \in Nat /\ Len(stack) <= Cardinality(ImportLocation)
    <2>1. /\ Len(stack) \in Nat /\ stack \in [1..Len(stack) -> ImportLocation]
          /\ DOMAIN stack = 1..Len(stack)
      BY <1>1, LenProperties
    <2>2. stack \in Injection(1..Len(stack), ImportLocation)
      BY <2>1 DEF PendingInv, PendingLocationsAreDistinctAndUncached, Injection,
         IsInjective
    <2>3. Cardinality(1..Len(stack)) = Len(stack)
      BY <2>1, FS_Interval
    <2>4. QED
      BY <2>1, <2>2, <2>3, FS_Injection
  <1>3. /\ Cardinality(ImportLocation) \in Nat /\ Furthest \in Nat
        /\ 1 <= Furthest /\ Depth <= Furthest
    <2> DEFINE a == 1 + Len(stack)
               b == 1 + Cardinality(ImportLocation)
               c == Cardinality(Ids)
    <2>1. Cardinality(ImportLocation) \in Nat /\ a \in Nat /\ b \in Nat /\ a <= b /\ c \in Nat
      BY <1>1, <1>2, FS_CardinalityType
    <2>2. Depth <= 1 + a * c
      BY DepthFollows DEF DepthBound
    <2> HIDE DEF a, b, c
    <2>3. a * c <= b * c /\ a * c \in Nat /\ b * c \in Nat
      BY <2>1
    <2>4. Furthest = 1 + b * c
      BY DEF Furthest, b, c
    <2>5. QED
      BY <1>1, <2>1, <2>2, <2>3, <2>4
  <1>4. CASE Ended
    <2>1. Standing = <<Past + 1>>
      BY <1>4, StandingIsWalk
    <2>2. <<Past + 1>> \in [1..1 -> 0..(2 * Past)]
      BY <1>1
    <2>3. 1 \in 0..Furthest
      BY <1>3
    <2>4. QED
      BY <2>1, <2>2, <2>3, Position DEF Places
  <1>5. CASE ~Ended
    <2>1. Standing = Walk(frames, Failing)
      BY <1>5, StandingIsWalk
    <2>2. \A f \in 1..Depth : frames[f].at \in Nat /\ frames[f].at < Past
      BY BeforePast
    <2>3. \A f \in 1..Depth : PlaceIn(frames, Failing, f) \in 0..(2 * Past)
      BY <1>1, <2>2 DEF PlaceIn
    <2>4. Walk(frames, Failing) \in [1..Depth -> 0..(2 * Past)]
      BY <1>1, <2>3 DEF Walk
    <2>5. Depth \in 0..Furthest
      BY <1>1, <1>3
    <2>6. QED
      BY <2>1, <2>4, <2>5, Position DEF Places
  <1>6. QED
    BY <1>4, <1>5

(* How many places are later than the one the walk is at.                   *)
LaterThan(p) == {q \in Places : Later(q, p)}
StepsLeft == Cardinality(LaterThan(Standing))

(* A later place has fewer that are later still.                            *)
LEMMA FewerLater ==
    ASSUME IsFiniteSet(Places), Places \subseteq Seq(Nat),
           NEW p \in Places, NEW q \in Places, Later(q, p)
    PROVE  /\ Cardinality(LaterThan(p)) \in Nat /\ Cardinality(LaterThan(q)) \in Nat
           /\ Cardinality(LaterThan(q)) < Cardinality(LaterThan(p))
  <1>1. IsFiniteSet(LaterThan(p)) /\ IsFiniteSet(LaterThan(q))
    <2>1. LaterThan(p) \in SUBSET Places /\ LaterThan(q) \in SUBSET Places
      BY DEF LaterThan
    <2>2. QED
      BY <2>1, FS_Subset
  <1>2. LaterThan(q) \subseteq LaterThan(p)
    BY LaterIsOrder DEF LaterThan
  <1>3. q \in LaterThan(p) /\ q \notin LaterThan(q)
    BY LaterIsOrder DEF LaterThan
  <1>4. Cardinality(LaterThan(p)) \in Nat /\ Cardinality(LaterThan(q)) \in Nat
    BY <1>1, FS_CardinalityType
  <1>5. LaterThan(q) \in SUBSET LaterThan(p) /\ LaterThan(q) # LaterThan(p)
    BY <1>2, <1>3
  <1>6. /\ Cardinality(LaterThan(q)) <= Cardinality(LaterThan(p))
        /\ Cardinality(LaterThan(p)) # Cardinality(LaterThan(q))
    BY <1>1, <1>5, FS_Subset
  <1>7. QED
    BY <1>4, <1>6

(* A call of the resolver has a number of steps left that each step brings  *)
(* down, so that it ends, if there are finitely many locations to import    *)
(* and ids of nodes: neither a cycle, nor an error that is recovered from,  *)
(* nor an alternative inside another makes it go on for ever.               *)
THEOREM StepsRunOut ==
    ASSUME IsFiniteSet(Ids), IsFiniteSet(ImportLocation)
    PROVE  Spec => [](StepsLeft \in Nat) /\ [][StepsLeft' < StepsLeft]_vars
  <1>1. IsFiniteSet(Places) /\ Places \subseteq Seq(Nat)
    <2>1. /\ Cardinality(Ids) \in Nat /\ Cardinality(ImportLocation) \in Nat
          /\ Past \in Nat
      BY PastType, FS_CardinalityType
    <2>2. Furthest \in Nat /\ 2 * Past \in Nat
      BY <2>1 DEF Furthest
    <2>3. Positions(Furthest, 2 * Past) \subseteq Seq(Nat)
      BY <2>2 DEF Positions
    <2>4. QED
      BY <2>2, <2>3, PositionsAreFinite DEF Places
  <1>2. StackInv /\ CellsInv /\ WithinLists /\ PendingInv => Standing \in Places
    BY StandingPlace DEF CellsInv
  <1>3. ASSUME Standing \in Places
        PROVE  StepsLeft \in Nat
    <2>1. LaterThan(Standing) \in SUBSET Places
      BY DEF LaterThan
    <2>2. IsFiniteSet(LaterThan(Standing))
      BY <1>1, <2>1, FS_Subset
    <2>3. QED
      BY <2>2, FS_CardinalityType DEF StepsLeft
  <1>4. ASSUME Standing \in Places, (Standing \in Places)', Later(Standing', Standing)
        PROVE  StepsLeft' < StepsLeft
    <2>1. Standing' \in Places
      BY <1>4 DEF Places, Positions, Furthest, Past
    <2>2. PICK p, q : p = Standing /\ q = Standing'
      OBVIOUS
    <2>3. Cardinality(LaterThan(q)) < Cardinality(LaterThan(p))
      BY <1>1, <1>4, <2>1, <2>2, FewerLater
    <2>4. StepsLeft = Cardinality(LaterThan(p)) /\ StepsLeft' = Cardinality(LaterThan(q))
      BY <2>2 DEF StepsLeft, LaterThan
    <2>5. QED
      BY <2>3, <2>4
  <1>5. /\ Standing \in Places /\ (Standing \in Places)'
        /\ [Later(Standing', Standing)]_vars
        => [StepsLeft' < StepsLeft]_vars
    BY <1>4
  <1>6. Spec => []PendingInv
    BY PendingStaysApart DEF PendingInv
  <1>7. Spec => [](Standing \in Places)
    BY <1>2, <1>6, StackAlways, CellsAlways, WithinAlways, PTL
  <1>8. Spec => [](StepsLeft \in Nat)
    BY <1>3, <1>7, PTL
  <1>9. Spec => [][Later(Standing', Standing)]_vars
    BY StepsMoveOn DEF WalkMovesOn
  <1>10. Spec => [][StepsLeft' < StepsLeft]_vars
    BY <1>5, <1>7, <1>9, PTL
  <1>11. QED
    BY <1>8, <1>10
=============================================================================
