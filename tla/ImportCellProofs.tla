--------------------------- MODULE ImportCellProofs ---------------------------
(***************************************************************************)
(* Each import and each alternative of a document stands in one list       *)
(* (OccursOnce).  From that: the activations come to a node at most once,  *)
(* so a cell is filled at most once (CellsAreSetOnce), and what a document *)
(* uses when it is typechecked has been filled (UsedNodesAreSettled).      *)
(***************************************************************************)
EXTENDS ImportResultProofs

-----------------------------------------------------------------------------
(* The list of an activation is `top`, or the side of the node its caller   *)
(* is at; a document is resolved by one activation at a time; and no two    *)
(* activations wait at one node.                                            *)

Busy(fs, f) == <<fs[f].inst, fs[f].list[fs[f].at]>>
AltAt(fs, f, docs) == docs[fs[f].inst].doc.alternatives[fs[f].list[fs[f].at]]
ListOf(fr, fs, f, docs) ==
    IF fr.role = "document" THEN docs[fr.inst].doc.top
    ELSE IF fr.role = "left" THEN AltAt(fs, f, docs).left
    ELSE AltAt(fs, f, docs).right
Lists(fs, docs) ==
    /\ fs[1].list = docs[fs[1].inst].doc.top
    /\ \A f \in 2..Len(fs) : fs[f].list = ListOf(fs[f], fs, f - 1, docs)
    /\ \A f, g \in 1..Len(fs) :
          g < f /\ fs[f].role = "document" => fs[g].inst # fs[f].inst
    /\ \A f, g \in 1..(Len(fs) - 1) : g < f => Busy(fs, g) # Busy(fs, f)

(* U holds what is still ahead: the rest of every list, the right side of   *)
(* an alternative whose left side is under way, and all of these contain.   *)
(* No cell of it is filled, and no activation waits at a node of it.        *)
Ahead(U, fs, docs, cells) ==
    /\ U \cap cells = {}
    /\ \A n \in 1..Len(docs) : \A a \in DOMAIN docs[n].doc.alternatives :
          <<n, a>> \in U => \A y \in Children(docs[n].doc, a) : <<n, y>> \in U
    /\ \A f \in 1..Len(fs) : \A p \in 1..Len(fs[f].list) :
          p > fs[f].at => <<fs[f].inst, fs[f].list[p]>> \in U
    /\ \A f \in 1..(Len(fs) - 1) : Busy(fs, f) \notin U \cup cells
    /\ \A f \in 2..Len(fs) : fs[f].role = "left" =>
          \A y \in NodesOf(AltAt(fs, f - 1, docs).right) : <<fs[f].inst, y>> \in U

Cells == (DOMAIN result) \cup (DOMAIN selected)
CurrentIn(U) == AtNode => AddressAt(Depth) \in U
CellsInv ==
    /\ Lists(frames, loaded)
    /\ \E U \in SUBSET Addresses : Ahead(U, frames, loaded, Cells) /\ CurrentIn(U)

(* Fewer activations, the last one perhaps moved on.                        *)
LEMMA CutLists ==
    ASSUME StackInv, Lists(frames, loaded), NEW n \in 1..Depth,
           NEW gs, gs = Below(n) \/ gs = Advance(n)
    PROVE  Lists(gs, loaded)
  <1>1. /\ Depth = Len(frames) /\ Len(frames) \in Nat /\ n \in Nat /\ Len(gs) = n
        /\ \A i \in 1..(n - 1) : gs[i] = frames[i]
        /\ gs[n].role = frames[n].role
        /\ gs[n].inst = frames[n].inst /\ gs[n].list = frames[n].list
    BY CutFrames, DepthFacts, LenProperties DEF StackInv, TypeOK
  <1>2. \A f \in 1..n : /\ f \in 1..Len(frames) /\ gs[f].role = frames[f].role
                        /\ gs[f].inst = frames[f].inst /\ gs[f].list = frames[f].list
    BY <1>1
  <1>3. gs[1].list = loaded[gs[1].inst].doc.top
    BY <1>1, <1>2 DEF Lists
  <1>4. \A f \in 2..n : gs[f].list = ListOf(gs[f], gs, f - 1, loaded)
    <2>1. \A f \in 2..n : f \in 2..Len(frames) /\ f \in 1..n /\ f - 1 \in 1..(n - 1)
      BY <1>1
    <2>2. \A f \in 2..n : gs[f - 1] = frames[f - 1]
      BY <1>1, <2>1
    <2>3. \A f \in 2..n : frames[f].list = ListOf(frames[f], frames, f - 1, loaded)
      BY <2>1 DEF Lists
    <2>4. QED
      BY <1>2, <2>1, <2>2, <2>3 DEF ListOf, AltAt
  <1>5. \A f, g \in 1..n : g < f /\ gs[f].role = "document" => gs[g].inst # gs[f].inst
    BY <1>2 DEF Lists
  <1>6. \A f, g \in 1..(n - 1) : g < f => Busy(gs, g) # Busy(gs, f)
    <2>1. \A f \in 1..(n - 1) : f \in 1..(Len(frames) - 1) /\ gs[f] = frames[f]
      BY <1>1
    <2>2. QED
      BY <2>1 DEF Lists, Busy
  <1>7. QED
    BY <1>1, <1>3, <1>4, <1>5, <1>6 DEF Lists

(* Cutting the activations at one, or moving that one on, takes nothing off *)
(* what is ahead; the node it comes to was ahead of it.                     *)
LEMMA CutAhead ==
    ASSUME StackInv, NEW U, NEW cells, Ahead(U, frames, loaded, cells),
           NEW n \in 1..Depth, NEW gs, gs = Below(n) \/ gs = Advance(n)
    PROVE  /\ Ahead(U, gs, loaded, cells)
           /\ gs = Advance(n) /\ gs[n].at <= Len(gs[n].list) => Busy(gs, n) \in U
  <1>1. /\ Depth = Len(frames) /\ Len(frames) \in Nat /\ n \in Nat /\ Len(gs) = n
        /\ \A i \in 1..(n - 1) : gs[i] = frames[i]
        /\ gs[n].role = frames[n].role
        /\ gs[n].inst = frames[n].inst /\ gs[n].list = frames[n].list
    BY CutFrames, DepthFacts, LenProperties DEF StackInv, TypeOK
  <1>2. /\ gs[n].at \in Nat /\ gs[n].at >= frames[n].at /\ frames[n].at \in Nat
        /\ gs = Advance(n) => gs[n].at = frames[n].at + 1
    <2>1. frames[n] \in Frame /\ n \in 1..Len(frames) /\ FramesOK(frames, loaded)
      BY <1>1, DepthFacts DEF StackInv, TypeOK
    <2>2. /\ Below(n)[n] = frames[n]
          /\ Advance(n)[n] = [frames[n] EXCEPT !.at = @ + 1]
      BY <1>1, <2>1, BelowFrames, AdvanceFrames DEF Below, Advance, Advanced
    <2>3. QED
      BY <2>1, <2>2 DEF Frame
  <1>3. frames[n].list \in Seq(Ids) /\ Len(frames[n].list) \in Nat
    BY DepthFacts, LenProperties DEF StackInv, Frame
  <1>4. \A f \in 1..n : /\ f \in 1..Len(frames) /\ gs[f].role = frames[f].role
                        /\ gs[f].inst = frames[f].inst /\ gs[f].list = frames[f].list
    BY <1>1
  <1>5. \A f \in 1..n : \A p \in 1..Len(gs[f].list) :
           p > gs[f].at => <<gs[f].inst, gs[f].list[p]>> \in U
    <2> SUFFICES ASSUME NEW f \in 1..n, NEW p \in 1..Len(gs[f].list), p > gs[f].at
                 PROVE  <<gs[f].inst, gs[f].list[p]>> \in U
      OBVIOUS
    <2>1. CASE f = n
      <3>1. p \in 1..Len(frames[n].list) /\ p > frames[n].at
        BY <1>1, <1>2, <1>3, <2>1
      <3>2. QED
        BY <1>4, <2>1, <3>1 DEF Ahead
    <2>2. CASE f # n
      BY <1>1, <1>4, <2>2 DEF Ahead
    <2>3. QED
      BY <2>1, <2>2
  <1>6. \A f \in 1..(n - 1) : /\ f \in 1..(Len(frames) - 1)
                              /\ Busy(gs, f) = Busy(frames, f)
    BY <1>1 DEF Busy
  <1>7. \A f \in 2..n : /\ f \in 2..Len(frames)
                        /\ AltAt(gs, f - 1, loaded) = AltAt(frames, f - 1, loaded)
    <2>1. \A f \in 2..n : f \in 2..Len(frames) /\ f - 1 \in 1..(n - 1)
      BY <1>1
    <2>2. QED
      BY <1>1, <2>1 DEF AltAt
  <1>8. Ahead(U, gs, loaded, cells)
    <2>1. \A f \in 1..(n - 1) : Busy(gs, f) \notin U \cup cells
      BY <1>6 DEF Ahead
    <2>2. \A f \in 2..n : gs[f].role = "left" =>
             \A y \in NodesOf(AltAt(gs, f - 1, loaded).right) : <<gs[f].inst, y>> \in U
      <3>1. \A f \in 2..n : f \in 1..n
        BY <1>1
      <3>2. QED
        BY <1>4, <1>7, <3>1 DEF Ahead
    <2>3. QED
      BY <1>1, <1>5, <2>1, <2>2 DEF Ahead
  <1>9. ASSUME gs = Advance(n), gs[n].at <= Len(gs[n].list)
        PROVE  Busy(gs, n) \in U
    <2>1. gs[n].at \in 1..Len(frames[n].list) /\ gs[n].at > frames[n].at
      BY <1>1, <1>2, <1>3, <1>9
    <2>2. n \in 1..Len(frames)
      BY <1>1
    <2>3. QED
      BY <1>4, <2>1, <2>2 DEF Ahead, Busy
  <1>10. QED
    BY <1>8, <1>9

(* A cell that no list ahead needs may be filled.                           *)
LEMMA FillAhead ==
    ASSUME NEW U, NEW fs, NEW docs, NEW cells, Ahead(U, fs, docs, cells),
           NEW a, a \notin U, \A f \in 1..(Len(fs) - 1) : Busy(fs, f) # a
    PROVE  Ahead(U, fs, docs, cells \cup {a})
  BY DEF Ahead

(* A new activation, from the node the last one is at.                      *)
LEMMA PushAhead ==
    ASSUME NEW fs \in Seq(Frame), fs # <<>>, NEW docs, Lists(fs, docs), NEW U, NEW cells,
           Ahead(U, fs, docs, cells), Busy(fs, Len(fs)) \notin U \cup cells,
           \A f \in 1..(Len(fs) - 1) : Busy(fs, f) # Busy(fs, Len(fs)),
           NEW fr \in Frame, fr.at = 1, fr.list = ListOf(fr, fs, Len(fs), docs),
           fr.role = "document" => \A f \in 1..Len(fs) : fs[f].inst # fr.inst,
           \A p \in 1..Len(fr.list) : <<fr.inst, fr.list[p]>> \in U,
           fr.role = "left" =>
              \A y \in NodesOf(AltAt(fs, Len(fs), docs).right) : <<fr.inst, y>> \in U
    PROVE  /\ Lists(Append(fs, fr), docs)
           /\ Ahead(U, Append(fs, fr), docs, cells)
           /\ Busy(Append(fs, fr), Len(fs) + 1) = <<fr.inst, fr.list[1]>>
  <1> DEFINE gs == Append(fs, fr)
             n == Len(fs)
  <1>1. /\ n \in Nat \ {0} /\ Len(gs) = n + 1 /\ gs[n + 1] = fr
        /\ \A f \in 1..n : gs[f] = fs[f]
    BY AppendProperties, LenProperties, EmptySeq
  <1> HIDE DEF gs
  <1>2. \A f \in 1..n : /\ Busy(gs, f) = Busy(fs, f)
                        /\ AltAt(gs, f, docs) = AltAt(fs, f, docs)
                        /\ \A r : ListOf(r, gs, f, docs) = ListOf(r, fs, f, docs)
    BY <1>1 DEF Busy, AltAt, ListOf
  <1>3. \A f \in 2..(n + 1) : gs[f].list = ListOf(gs[f], gs, f - 1, docs)
    <2> SUFFICES ASSUME NEW f \in 2..(n + 1)
                 PROVE  gs[f].list = ListOf(gs[f], gs, f - 1, docs)
      OBVIOUS
    <2>1. CASE f = n + 1
      BY <1>1, <1>2, <2>1
    <2>2. CASE f # n + 1
      <3>1. f \in 2..n /\ f - 1 \in 1..n
        BY <1>1, <2>2
      <3>2. fs[f].list = ListOf(fs[f], fs, f - 1, docs) /\ gs[f] = fs[f]
        BY <1>1, <3>1 DEF Lists
      <3>3. QED
        BY <1>2, <3>1, <3>2
    <2>3. QED
      BY <2>1, <2>2
  <1>4. \A f, g \in 1..(n + 1) :
           g < f /\ gs[f].role = "document" => gs[g].inst # gs[f].inst
    <2> SUFFICES ASSUME NEW f \in 1..(n + 1), NEW g \in 1..(n + 1),
                        g < f, gs[f].role = "document"
                 PROVE  gs[g].inst # gs[f].inst
      OBVIOUS
    <2>1. g \in 1..n
      BY <1>1
    <2>2. CASE f = n + 1
      BY <1>1, <2>1, <2>2
    <2>3. CASE f \in 1..n
      BY <1>1, <2>1, <2>3 DEF Lists
    <2>4. QED
      BY <1>1, <2>2, <2>3
  <1>5. \A f, g \in 1..n : g < f => Busy(gs, g) # Busy(gs, f)
    <2> SUFFICES ASSUME NEW f \in 1..n, NEW g \in 1..n, g < f
                 PROVE  Busy(fs, g) # Busy(fs, f)
      BY <1>2
    <2>1. g \in 1..(n - 1)
      BY <1>1
    <2>2. CASE f = n
      BY <2>1, <2>2
    <2>3. CASE f # n
      <3>1. f \in 1..(n - 1)
        BY <1>1, <2>3
      <3>2. QED
        BY <2>1, <3>1 DEF Lists
    <2>4. QED
      BY <2>2, <2>3
  <1>6. Lists(gs, docs)
    BY <1>1, <1>3, <1>4, <1>5 DEF Lists
  <1>7. \A f \in 1..(n + 1) : \A p \in 1..Len(gs[f].list) :
           p > gs[f].at => <<gs[f].inst, gs[f].list[p]>> \in U
    <2> SUFFICES ASSUME NEW f \in 1..(n + 1), NEW p \in 1..Len(gs[f].list),
                        p > gs[f].at
                 PROVE  <<gs[f].inst, gs[f].list[p]>> \in U
      OBVIOUS
    <2>1. CASE f = n + 1
      BY <1>1, <2>1
    <2>2. CASE f \in 1..n
      BY <1>1, <2>2 DEF Ahead
    <2>3. QED
      BY <1>1, <2>1, <2>2
  <1>8. \A f \in 1..n : Busy(gs, f) \notin U \cup cells
    <2> SUFFICES ASSUME NEW f \in 1..n
                 PROVE  Busy(fs, f) \notin U \cup cells
      BY <1>2
    <2>1. f = n \/ f \in 1..(n - 1)
      BY <1>1
    <2>2. QED
      BY <2>1 DEF Ahead
  <1>9. \A f \in 2..(n + 1) : gs[f].role = "left" =>
           \A y \in NodesOf(AltAt(gs, f - 1, docs).right) : <<gs[f].inst, y>> \in U
    <2> SUFFICES ASSUME NEW f \in 2..(n + 1), gs[f].role = "left",
                        NEW y \in NodesOf(AltAt(fs, f - 1, docs).right)
                 PROVE  <<gs[f].inst, y>> \in U
      <3>1. \A f \in 2..(n + 1) : f - 1 \in 1..n
        BY <1>1
      <3>2. QED
        BY <1>2, <3>1
    <2>1. CASE f = n + 1
      BY <1>1, <2>1
    <2>2. CASE f \in 2..n
      <3>1. f \in 1..n
        BY <2>2
      <3>2. QED
        BY <1>1, <2>2, <3>1 DEF Ahead
    <2>3. QED
      BY <1>1, <2>1, <2>2
  <1>10. Ahead(U, gs, docs, cells)
    BY <1>1, <1>7, <1>8, <1>9 DEF Ahead
  <1>11. QED
    BY <1>1, <1>6, <1>10 DEF gs, Busy

-----------------------------------------------------------------------------
(* A node that an activation has in its list and that is in a side of an    *)
(* alternative: that alternative is where its caller waits.                 *)

(* A list has each node once; that of a side belongs to the alternative its *)
(* caller waits at.                                                         *)
LEMMA ListedOnce ==
    ASSUME StackInv, Lists(frames, loaded), NEW f \in 1..Depth
    PROVE  /\ DocAt(f) \in Documents /\ OccursOnce(DocAt(f))
           /\ Distinct(frames[f].list)
           /\ frames[f].role = "document" => frames[f].list = DocAt(f).top
           /\ frames[f].role # "document" =>
                 /\ f > 1 /\ f - 1 \in 1..(Depth - 1) /\ f - 1 \in 1..Depth
                 /\ frames[f - 1].inst = frames[f].inst /\ DocAt(f - 1) = DocAt(f)
                 /\ NodeAt(f - 1) \in DOMAIN DocAt(f).alternatives
                 /\ frames[f].list = DocAt(f).alternatives[NodeAt(f - 1)].left
                       \/ frames[f].list = DocAt(f).alternatives[NodeAt(f - 1)].right
                 /\ NodesOf(frames[f].list) \subseteq Children(DocAt(f), NodeAt(f - 1))
                 /\ frames[f].role = "left" =>
                       frames[f].list = DocAt(f).alternatives[NodeAt(f - 1)].left
  <1>1. /\ Depth = Len(frames) /\ Len(frames) \in Nat /\ FramesOK(frames, loaded)
        /\ DocAt(f) \in Documents
    BY DepthFacts, LenProperties DEF StackInv, TypeOK
  <1>2. OccursOnce(DocAt(f))
    BY <1>1, OccurrenceAssumption
  <1>3. CASE frames[f].role = "document"
    <2>1. frames[f].list = DocAt(f).top
      <3>1. f = 1 \/ f \in 2..Len(frames)
        BY <1>1
      <3>2. QED
        BY <1>3, <3>1 DEF Lists, ListOf, DocAt
    <2>2. QED
      BY <1>1, <1>2, <1>3, <2>1 DEF OccursOnce
  <1>4. CASE frames[f].role # "document"
    <2>1. f \in 2..Len(frames) /\ f - 1 \in 1..(Depth - 1) /\ f - 1 \in 1..Depth
      <3>1. f # 1
        BY <1>1, <1>4 DEF FramesOK
      <3>2. QED
        BY <1>1, <3>1
    <2>2. /\ frames[f - 1].inst = frames[f].inst
          /\ NodeAt(f - 1) \in DOMAIN DocAt(f - 1).alternatives
      BY <1>1, <1>4, <2>1 DEF FramesOK, StartedFrom, NodeAt, DocAt
    <2>3. DocAt(f - 1) = DocAt(f)
      BY <2>2 DEF DocAt
    <2>4. frames[f].list = ListOf(frames[f], frames, f - 1, loaded)
      BY <2>1 DEF Lists
    <2>5. /\ frames[f].list = DocAt(f).alternatives[NodeAt(f - 1)].left
             \/ frames[f].list = DocAt(f).alternatives[NodeAt(f - 1)].right
          /\ frames[f].role = "left" =>
                frames[f].list = DocAt(f).alternatives[NodeAt(f - 1)].left
      BY <1>4, <2>3, <2>4 DEF ListOf, AltAt, DocAt, NodeAt
    <2>6. /\ Distinct(frames[f].list)
          /\ NodesOf(frames[f].list) \subseteq Children(DocAt(f), NodeAt(f - 1))
      BY <1>2, <2>2, <2>3, <2>5 DEF OccursOnce, Children
    <2>7. QED
      BY <1>1, <1>2, <1>4, <2>1, <2>2, <2>3, <2>5, <2>6
  <1>5. QED
    BY <1>3, <1>4

(* A node of a list that is also in a side of an alternative: the list is   *)
(* that side, and the caller waits at that alternative.                     *)
LEMMA Owner ==
    ASSUME StackInv, Lists(frames, loaded), NEW f \in 1..Depth,
           NEW x \in NodesOf(frames[f].list),
           NEW a \in DOMAIN DocAt(f).alternatives, x \in Children(DocAt(f), a)
    PROVE  /\ frames[f].role # "document" /\ f > 1 /\ f - 1 \in 1..(Depth - 1)
           /\ a = NodeAt(f - 1)
           /\ Busy(frames, f - 1) = <<frames[f].inst, a>>
  <1>1. frames[f].role # "document"
    BY ListedOnce DEF OccursOnce
  <1>2. /\ f > 1 /\ f - 1 \in 1..(Depth - 1)
        /\ frames[f - 1].inst = frames[f].inst
        /\ NodeAt(f - 1) \in DOMAIN DocAt(f).alternatives
        /\ x \in Children(DocAt(f), NodeAt(f - 1))
        /\ OccursOnce(DocAt(f))
    BY <1>1, ListedOnce
  <1>3. a = NodeAt(f - 1)
    BY <1>2 DEF OccursOnce
  <1>4. QED
    BY <1>1, <1>2, <1>3 DEF Busy, NodeAt

(* The node at hand is at no other place that is still ahead.               *)
LEMMA HereNode ==
    ASSUME StackInv, Top.at <= Len(Top.list)
    PROVE  /\ Depth \in 1..Depth /\ Depth = Len(frames) /\ Depth \in Nat
           /\ Top = frames[Depth]
           /\ NodeAt(Depth) \in NodesOf(frames[Depth].list)
           /\ Busy(frames, Depth) = AddressAt(Depth)
           /\ AddressAt(Depth) = <<frames[Depth].inst, NodeAt(Depth)>>
  <1>1. Depth \in 1..Depth /\ Depth = Len(frames) /\ Depth \in Nat
        /\ Top = frames[Depth] /\ frames[Depth] \in Frame
    BY DepthFacts DEF StackInv, Top
  <1>2. frames[Depth].at \in 1..Len(frames[Depth].list)
        /\ DOMAIN frames[Depth].list = 1..Len(frames[Depth].list)
    BY <1>1, LenProperties DEF Frame
  <1>3. QED
    BY <1>1, <1>2 DEF NodesOf, NodeAt, AddressAt, Busy

(* The node at hand is neither further on in a list nor in a right side     *)
(* that is kept for a fall-back.                                            *)
LEMMA NotAhead ==
    ASSUME StackInv, Lists(frames, loaded), Top.at <= Len(Top.list)
    PROVE  /\ \A f \in 1..Depth : \A p \in 1..Len(frames[f].list) :
                 p > frames[f].at =>
                    <<frames[f].inst, frames[f].list[p]>> # AddressAt(Depth)
           /\ \A f \in 2..Depth : frames[f].role = "left" =>
                 \A y \in NodesOf(AltAt(frames, f - 1, loaded).right) :
                    <<frames[f].inst, y>> # AddressAt(Depth)
  <1> DEFINE x == NodeAt(Depth)
  <1>1. /\ Depth \in 1..Depth /\ Depth = Len(frames) /\ Depth \in Nat
        /\ Top = frames[Depth] /\ x \in NodesOf(frames[Depth].list)
        /\ AddressAt(Depth) = <<frames[Depth].inst, x>>
    BY HereNode
  <1>2. ASSUME NEW f \in 1..Depth, NEW p \in 1..Len(frames[f].list),
               p > frames[f].at,
               <<frames[f].inst, frames[f].list[p]>> = AddressAt(Depth)
        PROVE  FALSE
    <2>1. frames[f].inst = frames[Depth].inst /\ frames[f].list[p] = x
      BY <1>1, <1>2
    <2>2. frames[f] \in Frame
      BY DepthFacts DEF StackInv
    <2>3. DOMAIN frames[f].list = 1..Len(frames[f].list)
          /\ frames[f].at \in Nat \ {0} /\ Len(frames[f].list) \in Nat
      BY <2>2, LenProperties DEF Frame
    <2>4. CASE f = Depth
      <3>1. frames[f].at \in DOMAIN frames[f].list /\ frames[f].list[frames[f].at] = x
            /\ p \in DOMAIN frames[f].list
        BY <1>1, <2>3, <2>4 DEF NodeAt
      <3>2. Distinct(frames[f].list)
        BY ListedOnce
      <3>3. frames[f].at = p
        BY <2>1, <3>1, <3>2 DEF Distinct
      <3>4. QED
        BY <1>2, <2>3, <3>3
    <2>5. CASE f # Depth
      <3>1. f < Depth /\ f \in 1..Len(frames) /\ Depth \in 1..Len(frames)
        BY <1>1, <2>5
      <3>2. frames[Depth].role # "document"
        BY <2>1, <3>1 DEF Lists
      <3>3. /\ Depth - 1 \in 1..(Depth - 1)
            /\ frames[Depth - 1].inst = frames[Depth].inst
            /\ NodeAt(Depth - 1) \in DOMAIN DocAt(Depth).alternatives
            /\ x \in Children(DocAt(Depth), NodeAt(Depth - 1))
        BY <1>1, <3>2, ListedOnce
      <3>4. DocAt(f) = DocAt(Depth) /\ x \in NodesOf(frames[f].list)
        BY <2>1, <2>3 DEF DocAt, NodesOf
      <3>5. /\ f > 1 /\ f - 1 \in 1..(Depth - 1)
            /\ Busy(frames, f - 1) = <<frames[f].inst, NodeAt(Depth - 1)>>
        BY <3>3, <3>4, Owner
      <3>6. Busy(frames, Depth - 1) = <<frames[f].inst, NodeAt(Depth - 1)>>
        BY <2>1, <3>3 DEF Busy, NodeAt
      <3>7. f - 1 < Depth - 1
        BY <1>1, <3>1
      <3>8. QED
        BY <1>1, <3>3, <3>5, <3>6, <3>7 DEF Lists
    <2>6. QED
      BY <2>4, <2>5
  <1>3. ASSUME NEW f \in 2..Depth, frames[f].role = "left",
               NEW y \in NodesOf(AltAt(frames, f - 1, loaded).right),
               <<frames[f].inst, y>> = AddressAt(Depth)
        PROVE  FALSE
    <2>1. frames[f].inst = frames[Depth].inst /\ y = x /\ f \in 1..Depth
          /\ DocAt(f) = DocAt(Depth)
      BY <1>1, <1>3 DEF DocAt
    <2>2. /\ f - 1 \in 1..(Depth - 1) /\ frames[f - 1].inst = frames[f].inst
          /\ NodeAt(f - 1) \in DOMAIN DocAt(f).alternatives
          /\ DocAt(f - 1) = DocAt(f) /\ OccursOnce(DocAt(f))
          /\ frames[f].list = DocAt(f).alternatives[NodeAt(f - 1)].left
      BY <1>3, <2>1, ListedOnce
    <2>3. x \in NodesOf(DocAt(f).alternatives[NodeAt(f - 1)].right)
      BY <2>1, <2>2 DEF AltAt, DocAt, NodeAt
    <2>4. /\ Depth - 1 \in 1..(Depth - 1)
          /\ Busy(frames, Depth - 1) = <<frames[Depth].inst, NodeAt(f - 1)>>
      BY <1>1, <2>1, <2>2, <2>3, Owner DEF Children
    <2>5. Busy(frames, f - 1) = <<frames[Depth].inst, NodeAt(f - 1)>>
      BY <2>1, <2>2 DEF Busy, NodeAt
    <2>6. f = Depth
      <3>1. ~(f - 1 < Depth - 1)
        BY <1>1, <2>2, <2>4, <2>5 DEF Lists
      <3>2. QED
        BY <1>1, <2>1, <3>1
    <2>7. x \in NodesOf(DocAt(f).alternatives[NodeAt(f - 1)].left)
      BY <1>1, <2>2, <2>6
    <2>8. QED
      BY <2>2, <2>3, <2>7 DEF OccursOnce
  <1>4. QED
    BY <1>2, <1>3

(* Taking the node at hand off what is ahead.                               *)
LEMMA TakeAhead ==
    ASSUME StackInv, Lists(frames, loaded), Top.at <= Len(Top.list), NEW U, NEW cells,
           Ahead(U, frames, loaded, cells), AddressAt(Depth) \in U
    PROVE  /\ Ahead(U \ {AddressAt(Depth)}, frames, loaded, cells)
           /\ \A f \in 1..(Depth - 1) : Busy(frames, f) # AddressAt(Depth)
           /\ NodeAt(Depth) \in DOMAIN DocAt(Depth).alternatives =>
                 \A y \in Children(DocAt(Depth), NodeAt(Depth)) :
                    <<frames[Depth].inst, y>> \in U \ {AddressAt(Depth)}
  <1> DEFINE x == NodeAt(Depth)
             V == U \ {AddressAt(Depth)}
  <1>1. /\ Depth \in 1..Depth /\ Depth = Len(frames) /\ Depth \in Nat
        /\ x \in NodesOf(frames[Depth].list)
        /\ AddressAt(Depth) = <<frames[Depth].inst, x>>
    BY HereNode
  <1>2. \A f \in 1..(Depth - 1) : Busy(frames, f) \notin U \cup cells
    BY <1>1 DEF Ahead
  <1>3. ASSUME NEW n \in 1..Len(loaded), NEW a \in DOMAIN loaded[n].doc.alternatives,
               <<n, a>> \in U, NEW y \in Children(loaded[n].doc, a)
        PROVE  <<n, y>> \in V
    <2>1. <<n, y>> \in U
      BY <1>3 DEF Ahead
    <2>2. ASSUME <<n, y>> = AddressAt(Depth)
          PROVE  FALSE
      <3>1. n = frames[Depth].inst /\ y = x /\ loaded[n].doc = DocAt(Depth)
        BY <1>1, <2>2 DEF DocAt
      <3>2. Depth - 1 \in 1..(Depth - 1) /\ Busy(frames, Depth - 1) = <<n, a>>
        BY <1>1, <3>1, Owner
      <3>3. QED
        BY <1>2, <1>3, <3>2
    <2>3. QED
      BY <2>1, <2>2
  <1>4. \A f \in 1..Len(frames) : \A p \in 1..Len(frames[f].list) :
           p > frames[f].at => <<frames[f].inst, frames[f].list[p]>> \in V
    BY <1>1, NotAhead DEF Ahead
  <1>5. \A f \in 2..Len(frames) : frames[f].role = "left" =>
           \A y \in NodesOf(AltAt(frames, f - 1, loaded).right) :
              <<frames[f].inst, y>> \in V
    BY <1>1, NotAhead DEF Ahead
  <1>6. Ahead(V, frames, loaded, cells)
    <2>1. V \cap cells = {}
      BY DEF Ahead
    <2>2. \A f \in 1..(Len(frames) - 1) : Busy(frames, f) \notin V \cup cells
      BY <1>1, <1>2
    <2>3. \A n \in 1..Len(loaded) : \A a \in DOMAIN loaded[n].doc.alternatives :
             <<n, a>> \in V => \A y \in Children(loaded[n].doc, a) : <<n, y>> \in V
      BY <1>3
    <2> HIDE DEF V
    <2>4. QED
      BY <1>4, <1>5, <2>1, <2>2, <2>3 DEF Ahead
  <1>7. ASSUME x \in DOMAIN DocAt(Depth).alternatives,
               NEW y \in Children(DocAt(Depth), x)
        PROVE  <<frames[Depth].inst, y>> \in V
    <2>1. frames[Depth].inst \in 1..Len(loaded)
      BY <1>1, DepthFacts DEF StackInv
    <2>2. QED
      BY <1>1, <1>3, <1>7, <2>1 DEF DocAt
  <1>8. QED
    BY <1>2, <1>6, <1>7

(* Traversing one more document puts its nodes ahead.                       *)
LEMMA DocsAhead ==
    ASSUME StackInv, Lists(frames, loaded), NEW V, Ahead(V, frames, loaded, Cells),
           NEW docs, Len(docs) = Len(loaded) + 1,
           \A n \in 1..Len(loaded) : docs[n] = loaded[n],
           IsDocument(docs[Len(loaded) + 1].doc),
           NEW W, W = V \cup {<<Len(loaded) + 1, y>> :
                                 y \in Nodes(docs[Len(loaded) + 1].doc)}
    PROVE  Lists(frames, docs) /\ Ahead(W, frames, docs, Cells)
  <1> DEFINE m == Len(loaded) + 1
  <1>1. /\ Len(loaded) \in Nat /\ Depth = Len(frames) /\ Len(frames) \in Nat \ {0}
        /\ \A f \in 1..Len(frames) : frames[f].inst \in 1..Len(loaded)
        /\ FramesOK(frames, loaded)
    BY DepthFacts, LenProperties DEF StackInv, TypeOK
  <1>2. \A f \in 1..Len(frames) : docs[frames[f].inst] = loaded[frames[f].inst]
    BY <1>1
  <1>3. \A f \in 2..Len(frames) :
           /\ f - 1 \in 1..Len(frames) /\ f \in 1..Len(frames)
           /\ AltAt(frames, f - 1, docs) = AltAt(frames, f - 1, loaded)
           /\ ListOf(frames[f], frames, f - 1, docs)
                 = ListOf(frames[f], frames, f - 1, loaded)
    <2>1. \A f \in 2..Len(frames) : f - 1 \in 1..Len(frames) /\ f \in 1..Len(frames)
      BY <1>1
    <2>2. QED
      BY <1>2, <2>1 DEF AltAt, ListOf
  <1>4. Lists(frames, docs)
    <2>1. frames[1].list = docs[frames[1].inst].doc.top
      BY <1>1, <1>2 DEF Lists
    <2>2. \A f \in 2..Len(frames) :
             frames[f].list = ListOf(frames[f], frames, f - 1, docs)
      BY <1>3 DEF Lists
    <2>3. QED
      BY <2>1, <2>2 DEF Lists
  <1>5. Cells \subseteq Addresses
    BY DEF Cells, StackInv, TypeOK, PartialFunction
  <1>6. \A y : <<m, y>> \notin Cells
    BY <1>1, <1>5 DEF Addresses
  <1>7. W \cap Cells = {}
    BY <1>6 DEF Ahead
  <1>8. \A n \in 1..Len(docs) : \A a \in DOMAIN docs[n].doc.alternatives :
           <<n, a>> \in W => \A y \in Children(docs[n].doc, a) : <<n, y>> \in W
    <2> SUFFICES ASSUME NEW n \in 1..Len(docs), NEW a \in DOMAIN docs[n].doc.alternatives,
                        <<n, a>> \in W, NEW y \in Children(docs[n].doc, a)
                 PROVE  <<n, y>> \in W
      OBVIOUS
    <2>1. CASE n = m
      <3>1. /\ docs[m].doc.alternatives[a].left \in Seq(Nodes(docs[m].doc))
            /\ docs[m].doc.alternatives[a].right \in Seq(Nodes(docs[m].doc))
        BY <2>1 DEF IsDocument
      <3>2. /\ NodesOf(docs[m].doc.alternatives[a].left) \subseteq Nodes(docs[m].doc)
            /\ NodesOf(docs[m].doc.alternatives[a].right) \subseteq Nodes(docs[m].doc)
        BY <3>1, ElementOfSeq, LenProperties DEF NodesOf
      <3>3. y \in Nodes(docs[m].doc)
        BY <2>1, <3>2 DEF Children
      <3>4. QED
        BY <2>1, <3>3
    <2>2. CASE n \in 1..Len(loaded)
      <3>1. docs[n] = loaded[n] /\ n # m
        BY <1>1, <2>2
      <3>2. <<n, a>> \in V
        BY <3>1
      <3>3. QED
        BY <2>2, <3>1, <3>2 DEF Ahead
    <2>3. QED
      BY <1>1, <2>1, <2>2
  <1>9. \A f \in 1..Len(frames) : \A p \in 1..Len(frames[f].list) :
           p > frames[f].at => <<frames[f].inst, frames[f].list[p]>> \in W
    BY DEF Ahead
  <1>10. \A f \in 1..(Len(frames) - 1) : Busy(frames, f) \notin W \cup Cells
    <2> SUFFICES ASSUME NEW f \in 1..(Len(frames) - 1)
                 PROVE  Busy(frames, f) \notin W \cup Cells
      OBVIOUS
    <2>1. frames[f].inst # m
      <3>1. f \in 1..Len(frames)
        BY <1>1
      <3>2. QED
        BY <1>1, <3>1
    <2>2. Busy(frames, f) \notin V \cup Cells
      BY DEF Ahead
    <2>3. QED
      BY <2>1, <2>2 DEF Busy
  <1>11. \A f \in 2..Len(frames) : frames[f].role = "left" =>
            \A y \in NodesOf(AltAt(frames, f - 1, docs).right) :
               <<frames[f].inst, y>> \in W
    BY <1>3 DEF Ahead
  <1>12. Ahead(W, frames, docs, Cells)
    BY <1>7, <1>8, <1>9, <1>10, <1>11 DEF Ahead
  <1>13. QED
    BY <1>4, <1>12

-----------------------------------------------------------------------------
(* What a step may do to cells and activations together.                    *)

LeavesCells == UNCHANGED <<loaded, result, selected>>
KeepsOn == LeavesCells /\ UNCHANGED frames /\ (Going' => Going)
Drops == LeavesCells /\ ~Going' /\ \E n \in 1..Depth : frames' = Below(n)
AnswersAt(f) ==
    /\ frames' = Advance(f)
    /\ UNCHANGED <<loaded, selected>>
    /\ DOMAIN result' = (DOMAIN result) \cup {AddressAt(f)}
AnswersHere == AtImport /\ AnswersAt(Depth)
AnswersCaller ==
    AtEnd /\ Top.role = "document" /\ Depth > 1 /\ AnswersAt(Depth - 1)

(* Every disjunct of Next is one of these, as far as cells and activations  *)
(* go.                                                                      *)
LEMMA CellKinds ==
    ASSUME StackInv, [Next]_vars
    PROVE  \/ KeepsOn \/ Drops \/ AnswersHere \/ AnswersCaller
           \/ StartsDocument \/ EnterAlternative \/ FinishSide \/ Recover
  <1>1. /\ Depth \in 1..Depth
        /\ Top.role \in {"left", "right"} => Depth - 1 \in 1..Depth
        /\ Depth > 1 => Depth - 1 \in 1..Depth
    BY CallerFacts DEF StackInv
  <1>2. ASSUME NEW f \in 1..Depth, NEW r, NEW v, NEW files, Conclude(f, r, v, files),
               UNCHANGED <<loaded, selected>>
        PROVE  Drops \/ AnswersAt(f)
    <2>1. CASE HashAgrees(ImportAt(f), v)
      BY <1>2, <2>1 DEF Conclude, AnswersAt, SetOnce
    <2>2. CASE ~HashAgrees(ImportAt(f), v)
      BY <1>2, <2>2 DEF Conclude, Drops, LeavesCells, Going, Error
    <2>3. QED
      BY <2>1, <2>2
  <1>3. ASSUME DiskHit \/ MemHit \/ Fetching
        PROVE  AtImport
    BY <1>3 DEF DiskHit, MemHit, Fetching, MustFetch, PastDisk, Chained
  <1>4. CASE DiskHit
    BY <1>3, <1>4 DEF DiskHit, AnswersHere, AnswersAt, SetOnce
  <1>5. CASE MemHit
    BY <1>1, <1>2, <1>3, <1>5 DEF MemHit, AnswersHere
  <1>6. CASE FetchLocation
    BY <1>1, <1>2, <1>3, <1>6 DEF FetchLocation, AnswersHere
  <1>7. ASSUME NEW answer \in Serve(HereLoc.kind, HereLoc.headers), FetchText(answer)
        PROVE  Drops \/ AnswersHere
    BY <1>1, <1>2, <1>3, <1>7 DEF FetchText, AnswersHere
  <1>8. CASE FinishDocument
    BY <1>1, <1>2, <1>8 DEF FinishDocument, AnswersCaller
  <1>9. CASE LeaveSide \/ LeaveDocument
    <2>1. /\ LeavesCells /\ ~Going' /\ frames' = Below(Depth - 1)
          /\ Depth - 1 \in 1..Depth
      BY <1>1, <1>9 DEF LeaveSide, LeaveDocument, LeavesCells, Failing, Going, Wrapped,
         Error
    <2>2. QED
      BY <2>1 DEF Drops
  <1>10. CASE \/ HeadersFail \/ ChainFails \/ ChainAborts \/ RefuseRemote \/ Cycle
              \/ DocumentIllTyped \/ FinishRoot
              \/ \E answer \in Serve(HereLoc.kind, HereLoc.headers) :
                    FetchFails(answer) \/ FetchAborts(answer)
    <2>1. AtImport \/ AtEnd
      BY <1>3, <1>10 DEF HeadersFail, ChainFails, ChainAborts, RefuseRemote, Cycle,
         DocumentIllTyped, FinishRoot, FetchFails, FetchAborts, Chained, PastDisk,
         MustFetch
    <2>2. LeavesCells /\ UNCHANGED frames
      BY <1>10 DEF HeadersFail, ChainFails, ChainAborts, RefuseRemote, Cycle,
         DocumentIllTyped, FinishRoot, FetchFails, FetchAborts, Stop, LeavesCells
    <2>3. QED
      BY <2>1, <2>2 DEF KeepsOn, AtImport, AtNode, AtEnd
  <1>11. CASE GiveUp \/ Done \/ UNCHANGED vars
    <2>1. outcome \in Outcomes
      BY DEF StackInv, TypeOK
    <2>2. QED
      BY <1>11, <2>1 DEF GiveUp, Outcomes, Done, Stop, vars, KeepsOn, LeavesCells, Going
  <1>12. QED
    BY <1>4, <1>5, <1>6, <1>7, <1>8, <1>9, <1>10, <1>11 DEF Next, Fetch, StartsDocument

(* How a step preserves CellsInv: what is then ahead.                       *)
LEMMA CellsNow ==
    ASSUME Lists(frames', loaded'), NEW V, V \subseteq Addresses',
           Ahead(V, frames', loaded', Cells'),
           Going' /\ frames'[Len(frames')].at <= Len(frames'[Len(frames')].list)
              => Busy(frames', Len(frames')) \in V
    PROVE  CellsInv'
  <1>1. AtNode' => AddressAt(Depth)' \in V
    BY DEF AtNode, Top, Depth, AddressAt, NodeAt, Busy
  <1>2. QED
    BY <1>1 DEF CellsInv, CurrentIn

(* CellsInv after the last activations ended: the one left has moved on, or *)
(* the call is failing, and at most a cell that is not ahead was filled.    *)
LEMMA CutCells ==
    ASSUME StackInv, Lists(frames, loaded), NEW n \in 1..Depth,
           (frames' = Below(n) /\ ~Going') \/ frames' = Advance(n),
           NEW V, V \subseteq Addresses, NEW cells, Ahead(V, frames, loaded, cells),
           loaded' = loaded,
           \/ Cells' = cells
           \/ \E a : /\ Cells' = cells \cup {a} /\ a \notin V
                     /\ \A f \in 1..(n - 1) : Busy(frames, f) # a
    PROVE  CellsInv'
  <1>1. /\ Depth = Len(frames) /\ Len(frames) \in Nat /\ FramesOK(frames, loaded)
        /\ n \in Nat
    BY DepthFacts, LenProperties DEF StackInv, TypeOK
  <1>2. PICK gs : gs = frames'
    OBVIOUS
  <1>3. gs = Below(n) \/ gs = Advance(n)
    BY <1>2
  <1>4. /\ Len(gs) = n /\ \A i \in 1..(n - 1) : gs[i] = frames[i]
    BY <1>1, <1>3, CutFrames
  <1>5. Lists(gs, loaded) /\ Ahead(V, gs, loaded, cells)
    BY <1>3, CutLists, CutAhead
  <1>6. gs = Advance(n) /\ gs[n].at <= Len(gs[n].list) => Busy(gs, n) \in V
    BY <1>3, CutAhead
  <1>7. Ahead(V, gs, loaded, Cells')
    <2>1. CASE Cells' = cells
      BY <1>5, <2>1
    <2>2. ASSUME NEW a, Cells' = cells \cup {a}, a \notin V,
                 \A f \in 1..(n - 1) : Busy(frames, f) # a
          PROVE  Ahead(V, gs, loaded, Cells')
      <3>1. \A f \in 1..(Len(gs) - 1) : Busy(gs, f) # a
        BY <1>4, <2>2 DEF Busy
      <3>2. Ahead(V, gs, loaded, cells \cup {a})
        BY <1>5, <2>2, <3>1, FillAhead
      <3>3. QED
        BY <2>2, <3>2
    <2>3. QED
      BY <2>1, <2>2
  <1>8. V \subseteq Addresses'
    BY DEF Addresses
  <1>9. Going' /\ gs[n].at <= Len(gs[n].list) => Busy(gs, n) \in V
    BY <1>2, <1>6
  <1>10. QED
    BY <1>2, <1>4, <1>5, <1>7, <1>8, <1>9, CellsNow

(* A new activation, on what is left of the old ones.                       *)
LEMMA PushCells ==
    ASSUME TypeOK', NEW gs \in Seq(Frame), gs # <<>>, NEW fr, frames' = Append(gs, fr),
           Lists(gs, loaded'), NEW V, V \subseteq Addresses',
           Ahead(V, gs, loaded', Cells'), Busy(gs, Len(gs)) \notin V \cup Cells',
           \A f \in 1..(Len(gs) - 1) : Busy(gs, f) # Busy(gs, Len(gs)),
           fr.at = 1, fr.list = ListOf(fr, gs, Len(gs), loaded'),
           fr.role = "document" => \A f \in 1..Len(gs) : gs[f].inst # fr.inst,
           \A y \in NodesOf(fr.list) : <<fr.inst, y>> \in V,
           fr.role = "left" =>
              \A y \in NodesOf(AltAt(gs, Len(gs), loaded').right) : <<fr.inst, y>> \in V
    PROVE  CellsInv'
  <1>1. /\ Len(gs) \in Nat /\ Len(frames') = Len(gs) + 1 /\ frames'[Len(gs) + 1] = fr
        /\ frames' \in Seq(Frame)
    BY LenProperties, AppendProperties DEF TypeOK, FramesOK
  <1>2. fr \in Frame
    BY <1>1, ElementOfSeq
  <1>3. Len(fr.list) \in Nat /\ DOMAIN fr.list = 1..Len(fr.list)
    BY <1>2, LenProperties DEF Frame
  <1>4. \A p \in 1..Len(fr.list) : <<fr.inst, fr.list[p]>> \in V
    BY <1>3 DEF NodesOf
  <1>5. PICK docs, cells : docs = loaded' /\ cells = Cells'
    OBVIOUS
  <1>6. /\ Lists(Append(gs, fr), docs)
        /\ Ahead(V, Append(gs, fr), docs, cells)
        /\ Busy(Append(gs, fr), Len(gs) + 1) = <<fr.inst, fr.list[1]>>
    <2>1. Lists(gs, docs) /\ Ahead(V, gs, docs, cells)
      BY <1>5
    <2>2. Busy(gs, Len(gs)) \notin V \cup cells
      BY <1>5
    <2>3. fr.list = ListOf(fr, gs, Len(gs), docs)
      BY <1>5
    <2>4. fr.role = "left" =>
             \A y \in NodesOf(AltAt(gs, Len(gs), docs).right) : <<fr.inst, y>> \in V
      BY <1>5
    <2>5. \A f \in 1..(Len(gs) - 1) : Busy(gs, f) # Busy(gs, Len(gs))
      OBVIOUS
    <2>6. fr.role = "document" => \A f \in 1..Len(gs) : gs[f].inst # fr.inst
      OBVIOUS
    <2>7. gs \in Seq(Frame) /\ gs # <<>> /\ fr \in Frame /\ fr.at = 1
      BY <1>2
    <2>8. QED
      BY ONLY <1>4, <2>1, <2>2, <2>3, <2>4, <2>5, <2>6, <2>7, PushAhead
  <1>7. fr.at <= Len(fr.list) => Busy(frames', Len(frames')) \in V
    <2>1. fr.at <= Len(fr.list) => 1 \in 1..Len(fr.list)
      BY <1>3
    <2>2. Busy(frames', Len(frames')) = <<fr.inst, fr.list[1]>>
      BY <1>1 DEF Busy
    <2>3. QED
      BY <1>4, <2>1, <2>2
  <1>8. QED
    BY <1>1, <1>5, <1>6, <1>7, CellsNow

(* The activations start a side of the alternative they are at: its nodes   *)
(* were ahead, and the alternative itself no longer is.                     *)
LEMMA EnterCells == StackInv /\ CellsInv /\ EnterAlternative /\ TypeOK' => CellsInv'
  <1> SUFFICES ASSUME StackInv, CellsInv, EnterAlternative, TypeOK'
               PROVE  CellsInv'
    OBVIOUS
  <1>1. PICK U \in SUBSET Addresses : Ahead(U, frames, loaded, Cells) /\ CurrentIn(U)
    BY DEF CellsInv
  <1>2. /\ AtNode /\ Top.at <= Len(Top.list) /\ AddressAt(Depth) \in U
        /\ NodeAt(Depth) \in DOMAIN DocAt(Depth).alternatives /\ Lists(frames, loaded)
    BY <1>1 DEF EnterAlternative, AtAlternative, AtNode, CurrentIn, CellsInv
  <1>3. /\ Depth = Len(frames) /\ frames \in Seq(Frame) /\ frames # <<>>
        /\ Top = frames[Depth] /\ Busy(frames, Depth) = AddressAt(Depth)
    BY <1>2, HereNode DEF StackInv, TypeOK, FramesOK
  <1>4. PICK V : V = U \ {AddressAt(Depth)}
    OBVIOUS
  <1>5. /\ Ahead(V, frames, loaded, Cells)
        /\ \A f \in 1..(Depth - 1) : Busy(frames, f) # AddressAt(Depth)
        /\ \A y \in Children(DocAt(Depth), NodeAt(Depth)) :
              <<frames[Depth].inst, y>> \in V
    BY <1>1, <1>2, <1>4, TakeAhead
  <1>6. PICK fr : fr = Activation(Top.inst, DocAt(Depth).alternatives[NodeAt(Depth)].left,
                                  "left", Len(stack))
    OBVIOUS
  <1>7. /\ frames' = Append(frames, fr)
        /\ UNCHANGED <<loaded, result, selected>>
    BY <1>6 DEF EnterAlternative
  <1>8. /\ loaded' = loaded /\ Cells' = Cells /\ V \subseteq Addresses'
    BY <1>4, <1>7 DEF Cells, Addresses
  <1>9. /\ fr.at = 1 /\ fr.role = "left" /\ fr.inst = frames[Depth].inst
        /\ fr.list = AltAt(frames, Depth, loaded).left
        /\ fr.list = ListOf(fr, frames, Depth, loaded)
    BY <1>3, <1>6 DEF Activation, ListOf, AltAt, DocAt, NodeAt
  <1>10. /\ \A y \in NodesOf(fr.list) : <<fr.inst, y>> \in V
         /\ \A y \in NodesOf(AltAt(frames, Depth, loaded).right) : <<fr.inst, y>> \in V
    BY <1>5, <1>9 DEF Children, AltAt, DocAt, NodeAt
  <1>11. Busy(frames, Depth) \notin V \cup Cells
    BY <1>1, <1>2, <1>3, <1>4 DEF Ahead
  <1>12. fr.role = "document" => \A f \in 1..Len(frames) : frames[f].inst # fr.inst
    BY <1>9
  <1>13. \A f \in 1..(Len(frames) - 1) : Busy(frames, f) # Busy(frames, Len(frames))
    BY <1>3, <1>5
  <1>14. /\ Lists(frames, loaded') /\ Ahead(V, frames, loaded', Cells')
         /\ Busy(frames, Len(frames)) \notin V \cup Cells'
         /\ fr.list = ListOf(fr, frames, Len(frames), loaded')
         /\ fr.role = "left" =>
               \A y \in NodesOf(AltAt(frames, Len(frames), loaded').right) :
                  <<fr.inst, y>> \in V
    BY <1>2, <1>3, <1>5, <1>8, <1>9, <1>10, <1>11
  <1>15. PICK gs : gs = frames
    OBVIOUS
  <1>16. /\ gs \in Seq(Frame) /\ gs # <<>> /\ frames' = Append(gs, fr)
         /\ V \subseteq Addresses' /\ fr.at = 1
    BY <1>3, <1>7, <1>8, <1>9, <1>15
  <1>17. QED
    BY <1>10, <1>12, <1>13, <1>14, <1>15, <1>16, PushCells

(* The right side was kept ahead while the left one was under way.          *)
LEMMA RecoverCells == StackInv /\ CellsInv /\ Recover /\ TypeOK' => CellsInv'
  <1> SUFFICES ASSUME StackInv, CellsInv, Recover, TypeOK'
               PROVE  CellsInv'
    OBVIOUS
  <1>1. PICK U \in SUBSET Addresses : Ahead(U, frames, loaded, Cells)
    BY DEF CellsInv
  <1>2. /\ Lists(frames, loaded) /\ Top.role = "left"
        /\ Depth = Len(frames) /\ Len(frames) \in Nat /\ FramesOK(frames, loaded)
    BY DepthFacts, LenProperties DEF CellsInv, Recover, StackInv, TypeOK
  <1>3. /\ Depth > 1 /\ Depth \in 2..Len(frames) /\ Depth - 1 \in 1..Depth
        /\ Depth - 1 \in 1..(Depth - 1) /\ Top = frames[Depth]
        /\ Top.inst = frames[Depth - 1].inst
    BY <1>2, CallerFacts DEF StackInv
  <1>4. PICK gs : gs = Below(Depth - 1)
    OBVIOUS
  <1>5. /\ gs \in Seq(Frame) /\ gs # <<>> /\ Len(gs) = Depth - 1
        /\ \A f \in 1..(Depth - 1) : gs[f] = frames[f]
    BY <1>2, <1>3, <1>4, BelowFrames, CutFrames DEF Below
  <1>6. Lists(gs, loaded) /\ Ahead(U, gs, loaded, Cells)
    BY <1>1, <1>2, <1>3, <1>4, CutLists, CutAhead
  <1>7. PICK fr : fr = Activation(Top.inst,
                                  DocAt(Depth - 1).alternatives[NodeAt(Depth - 1)].right,
                                  "right", Len(stack))
    OBVIOUS
  <1>8. frames' = Append(gs, fr) /\ UNCHANGED <<loaded, result, selected>>
    BY <1>4, <1>7 DEF Recover
  <1>9. loaded' = loaded /\ Cells' = Cells /\ U \subseteq Addresses'
    BY <1>8 DEF Cells, Addresses
  <1>10. /\ \A f \in 1..(Depth - 1) : Busy(gs, f) = Busy(frames, f)
         /\ AltAt(gs, Depth - 1, loaded) = AltAt(frames, Depth - 1, loaded)
         /\ gs[Depth - 1] = frames[Depth - 1]
    BY <1>3, <1>5 DEF Busy, AltAt
  <1>11. /\ fr.at = 1 /\ fr.role = "right" /\ fr.inst = Top.inst
         /\ fr.list = AltAt(frames, Depth - 1, loaded).right
         /\ fr.list = ListOf(fr, gs, Depth - 1, loaded)
    BY <1>7, <1>10 DEF Activation, ListOf, AltAt, DocAt, NodeAt
  <1>12. \A y \in NodesOf(fr.list) : <<fr.inst, y>> \in U
    BY <1>1, <1>2, <1>3, <1>11 DEF Ahead
  <1>13. Busy(gs, Depth - 1) \notin U \cup Cells
    BY <1>1, <1>2, <1>3, <1>10 DEF Ahead
  <1>14. \A f \in 1..(Len(gs) - 1) : Busy(gs, f) # Busy(gs, Len(gs))
    <2> SUFFICES ASSUME NEW f \in 1..(Len(gs) - 1)
                 PROVE  Busy(frames, f) # Busy(frames, Depth - 1)
      <3>1. \A f \in 1..(Len(gs) - 1) : f \in 1..(Depth - 1)
        BY <1>2, <1>5
      <3>2. QED
        BY <1>3, <1>5, <1>10, <3>1
    <2>1. f \in 1..(Depth - 1) /\ f < Depth - 1
      BY <1>2, <1>5
    <2>2. QED
      BY <1>2, <1>3, <2>1 DEF Lists
  <1>15. /\ Lists(gs, loaded') /\ Ahead(U, gs, loaded', Cells')
         /\ Busy(gs, Len(gs)) \notin U \cup Cells'
         /\ fr.list = ListOf(fr, gs, Len(gs), loaded')
    BY <1>5, <1>6, <1>9, <1>11, <1>13
  <1>16. /\ fr.role = "document" => \A f \in 1..Len(gs) : gs[f].inst # fr.inst
         /\ fr.role = "left" =>
               \A y \in NodesOf(AltAt(gs, Len(gs), loaded').right) : <<fr.inst, y>> \in U
    BY <1>11
  <1>17. QED
    BY <1>5, <1>8, <1>9, <1>11, <1>12, <1>14, <1>15, <1>16, PushCells

(* All nodes of a document that was just read are ahead.                    *)
LEMMA LoadCells ==
    ASSUME StackInv, CellsInv, TypeOK',
           NEW answer \in Serve(HereLoc.kind, HereLoc.headers), Load(answer)
    PROVE  CellsInv'
  <1> DEFINE m == Len(loaded) + 1
  <1>1. PICK U \in SUBSET Addresses : Ahead(U, frames, loaded, Cells) /\ CurrentIn(U)
    BY DEF CellsInv
  <1>2. /\ AtImport /\ Len(loaded) \in Nat /\ Len(loaded') = m
        /\ \A n \in 1..Len(loaded) : loaded'[n] = loaded[n]
        /\ loaded'[m].doc = answer.doc /\ answer.doc \in Documents
    <2>1. /\ AtImport /\ Len(loaded) \in Nat /\ Len(loaded') = m
          /\ \A n \in 1..Len(loaded) : loaded'[n] = loaded[n]
          /\ loaded'[m] = [doc |-> answer.doc, base |-> BaseOf(HereLoc)]
          /\ answer.doc \in Documents
      BY LoadedDocument
    <2>2. QED
      BY <2>1
  <1>3. AtNode /\ Top.at <= Len(Top.list) /\ AddressAt(Depth) \in U /\ Lists(frames, loaded)
    BY <1>1, <1>2 DEF AtImport, AtNode, CurrentIn, CellsInv
  <1>4. /\ Depth = Len(frames) /\ frames \in Seq(Frame) /\ frames # <<>>
        /\ Depth \in 1..Depth /\ Busy(frames, Depth) = AddressAt(Depth)
    BY <1>3, HereNode DEF StackInv, TypeOK, FramesOK
  <1>5. PICK V : V = U \ {AddressAt(Depth)}
    OBVIOUS
  <1>6. /\ Ahead(V, frames, loaded, Cells)
        /\ \A f \in 1..(Depth - 1) : Busy(frames, f) # AddressAt(Depth)
    BY <1>1, <1>3, <1>5, TakeAhead
  <1>7. PICK docs : docs = loaded'
    OBVIOUS
  <1>8. PICK W : W = V \cup {<<m, y>> : y \in Nodes(docs[m].doc)}
    OBVIOUS
  <1>9. IsDocument(docs[m].doc)
    BY <1>2, <1>7, ResolutionAssumption
  <1>10. Lists(frames, docs) /\ Ahead(W, frames, docs, Cells)
    BY <1>2, <1>3, <1>6, <1>7, <1>8, <1>9, DocsAhead
  <1>11. PICK fr : fr = Activation(m, answer.doc.top, "document", Len(stack) + 1)
    OBVIOUS
  <1>12. frames' = Append(frames, fr) /\ UNCHANGED <<result, selected>>
    BY <1>11 DEF Load
  <1>13. Cells' = Cells
    BY <1>12 DEF Cells
  <1>14. W \subseteq Addresses'
    <2>1. Nodes(docs[m].doc) \subseteq Ids
      BY <1>9 DEF IsDocument
    <2>2. QED
      BY <1>2, <1>5, <1>8, <2>1 DEF Addresses
  <1>15. /\ fr.at = 1 /\ fr.role = "document" /\ fr.inst = m
         /\ fr.list = docs[m].doc.top
         /\ fr.list = ListOf(fr, frames, Len(frames), docs)
    BY <1>2, <1>7, <1>11 DEF Activation, ListOf
  <1>16. \A f \in 1..Len(frames) : frames[f].inst # m
    <2>1. \A f \in 1..Len(frames) : frames[f].inst \in 1..Len(loaded)
      BY <1>4, DepthFacts DEF StackInv
    <2>2. QED
      BY <1>2, <2>1
  <1>17. \A y \in NodesOf(fr.list) : <<fr.inst, y>> \in W
    <2>1. fr.list \in Seq(Nodes(docs[m].doc))
      BY <1>9, <1>15 DEF IsDocument
    <2>2. NodesOf(fr.list) \subseteq Nodes(docs[m].doc)
      BY <2>1, ElementOfSeq, LenProperties DEF NodesOf
    <2>3. QED
      BY <1>8, <1>15, <2>2
  <1>18. Busy(frames, Len(frames)) \notin W \cup Cells'
    <2>1. AddressAt(Depth) \notin V \cup Cells
      BY <1>1, <1>3, <1>5 DEF Ahead
    <2>2. frames[Depth].inst # m
      BY <1>4, <1>16
    <2>3. QED
      BY <1>4, <1>8, <1>13, <2>1, <2>2 DEF Busy
  <1>19. /\ \A f \in 1..(Len(frames) - 1) : Busy(frames, f) # Busy(frames, Len(frames))
         /\ fr.role = "document" => \A f \in 1..Len(frames) : frames[f].inst # fr.inst
         /\ fr.role = "left" =>
               \A y \in NodesOf(AltAt(frames, Len(frames), loaded').right) :
                  <<fr.inst, y>> \in W
    BY <1>4, <1>6, <1>15, <1>16
  <1>20. /\ Lists(frames, loaded') /\ Ahead(W, frames, loaded', Cells')
         /\ fr.list = ListOf(fr, frames, Len(frames), loaded')
    BY <1>7, <1>10, <1>13, <1>15
  <1>21. PICK gs : gs = frames
    OBVIOUS
  <1>22. /\ gs \in Seq(Frame) /\ gs # <<>> /\ frames' = Append(gs, fr)
         /\ W \subseteq Addresses' /\ fr.at = 1
    BY <1>4, <1>12, <1>14, <1>15, <1>21
  <1>23. QED
    BY <1>17, <1>18, <1>19, <1>20, <1>21, <1>22, PushCells

(* CellsInv is inductive.                                                   *)
LEMMA CellsStep == StackInv /\ CellsInv /\ [Next]_vars => CellsInv'
  <1> SUFFICES ASSUME StackInv, CellsInv, [Next]_vars
               PROVE  CellsInv'
    OBVIOUS
  <1>1. PICK U \in SUBSET Addresses : Ahead(U, frames, loaded, Cells) /\ CurrentIn(U)
    BY DEF CellsInv
  <1>2. /\ Lists(frames, loaded) /\ Depth \in 1..Depth /\ Depth = Len(frames)
        /\ Depth \in Nat /\ TypeOK' /\ Top = frames[Depth]
        /\ Depth > 1 => Depth - 1 \in 1..Depth /\ Depth - 1 \in 1..(Depth - 1)
        /\ Top.role \in {"left", "right"} => Depth > 1
    BY CallerFacts, DepthFacts, TypeStep DEF CellsInv, StackInv
  <1>3. CASE KeepsOn
    <2>1. /\ frames' = frames /\ loaded' = loaded /\ Cells' = Cells
          /\ Addresses' = Addresses
          /\ Going' => Going
      BY <1>3 DEF KeepsOn, LeavesCells, Cells, Addresses
    <2>2. /\ Lists(frames', loaded') /\ Ahead(U, frames', loaded', Cells')
          /\ U \subseteq Addresses'
      BY <1>1, <1>2, <2>1
    <2>3. Going' /\ frames'[Len(frames')].at <= Len(frames'[Len(frames')].list)
             => Busy(frames', Len(frames')) \in U
      BY <1>1, <1>2, <1>3, <2>1 DEF KeepsOn, CurrentIn, AtNode, Busy, AddressAt, NodeAt
    <2>4. QED
      BY <2>2, <2>3, CellsNow
  <1>4. CASE Drops
    <2>1. PICK n \in 1..Depth : frames' = Below(n)
      BY <1>4 DEF Drops
    <2>2. ~Going' /\ loaded' = loaded /\ Cells' = Cells
      BY <1>4 DEF Drops, LeavesCells, Cells
    <2>3. QED
      BY <1>1, <1>2, <2>1, <2>2, CutCells
  <1>5. CASE AnswersHere
    <2>1. Top.at <= Len(Top.list) /\ AddressAt(Depth) \in U
      BY <1>1, <1>5 DEF AnswersHere, AtImport, AtNode, CurrentIn
    <2>2. PICK a, V : a = AddressAt(Depth) /\ V = U \ {AddressAt(Depth)}
      OBVIOUS
    <2>3. /\ Ahead(V, frames, loaded, Cells) /\ V \subseteq Addresses /\ a \notin V
          /\ \A f \in 1..(Depth - 1) : Busy(frames, f) # a
      BY <1>1, <1>2, <2>1, <2>2, TakeAhead
    <2>4. /\ frames' = Advance(Depth) /\ loaded' = loaded /\ Cells' = Cells \cup {a}
      BY <1>5, <2>2 DEF AnswersHere, AnswersAt, Cells
    <2>5. QED
      BY <1>2, <2>3, <2>4, CutCells
  <1>6. CASE AnswersCaller \/ FinishSide
    <2>1. Depth > 1
      BY <1>2, <1>6 DEF AnswersCaller, FinishSide
    <2>2. PICK a, n : a = AddressAt(Depth - 1) /\ n = Depth - 1
      OBVIOUS
    <2>3. a = Busy(frames, n) /\ n \in 1..Depth /\ n \in 1..(Depth - 1)
      BY <1>2, <2>1, <2>2 DEF AddressAt, Busy, NodeAt
    <2>4. a \notin U
      BY <1>1, <1>2, <2>3 DEF Ahead
    <2>5. \A f \in 1..(n - 1) : Busy(frames, f) # a
      <3>1. \A f \in 1..(n - 1) : f \in 1..(Depth - 1) /\ f < n
        BY <1>2, <2>3
      <3>2. QED
        BY <1>2, <2>3, <3>1 DEF Lists
    <2>6. frames' = Advance(n) /\ loaded' = loaded /\ Cells' = Cells \cup {a}
      <3>1. CASE AnswersCaller
        BY <2>2, <3>1 DEF AnswersCaller, AnswersAt, Cells
      <3>2. CASE FinishSide
        BY <2>2, <3>2 DEF FinishSide, SetOnce, Cells
      <3>3. QED
        BY <1>6, <3>1, <3>2
    <2>7. QED
      BY <1>1, <1>2, <2>3, <2>4, <2>5, <2>6, CutCells
  <1>7. CASE StartsDocument
    BY <1>2, <1>7, LoadCells DEF StartsDocument
  <1>8. CASE EnterAlternative \/ Recover
    BY <1>2, <1>8, EnterCells, RecoverCells
  <1>9. QED
    BY <1>3, <1>4, <1>5, <1>6, <1>7, <1>8, CellKinds

(* At the start all nodes of the root are ahead and no cell is filled.      *)
LEMMA CellsInit == Init => CellsInv
  <1> SUFFICES ASSUME Init
               PROVE  CellsInv
    OBVIOUS
  <1>1. TypeOK
    BY InitType
  <1>2. PICK root \in Roots : /\ loaded = <<root>>
                              /\ frames = <<Activation(1, root.doc.top, "document", 0)>>
    BY DEF Init
  <1>3. /\ Len(frames) = 1 /\ Depth = 1 /\ Len(loaded) = 1 /\ loaded[1] = root
        /\ frames[1].inst = 1 /\ frames[1].at = 1 /\ frames[1].role = "document"
        /\ frames[1].list = root.doc.top /\ Cells = {}
    BY <1>2 DEF Init, Cells, Depth, Activation
  <1>4. IsDocument(root.doc)
    BY <1>1, <1>2, ResolutionAssumption DEF Parsed
  <1>5. Lists(frames, loaded)
    BY <1>3 DEF Lists
  <1>6. PICK U : U = {<<1, y>> : y \in Nodes(root.doc)}
    OBVIOUS
  <1>7. U \in SUBSET Addresses
    BY <1>3, <1>4, <1>6 DEF IsDocument, Addresses
  <1>8. \A a \in DOMAIN root.doc.alternatives : \A y \in Children(root.doc, a) :
           y \in Nodes(root.doc)
    <2> SUFFICES ASSUME NEW a \in DOMAIN root.doc.alternatives
                 PROVE  Children(root.doc, a) \subseteq Nodes(root.doc)
      OBVIOUS
    <2>1. /\ root.doc.alternatives[a].left \in Seq(Nodes(root.doc))
          /\ root.doc.alternatives[a].right \in Seq(Nodes(root.doc))
      BY <1>4 DEF IsDocument
    <2>2. QED
      BY <2>1, ElementOfSeq, LenProperties DEF NodesOf, Children
  <1>9. \A p \in 1..Len(root.doc.top) : root.doc.top[p] \in Nodes(root.doc)
    BY <1>4, ElementOfSeq DEF IsDocument
  <1>10. Ahead(U, frames, loaded, Cells)
    BY <1>3, <1>6, <1>8, <1>9 DEF Ahead
  <1>11. CurrentIn(U)
    <2>1. Len(root.doc.top) \in Nat
      BY <1>4, LenProperties DEF IsDocument
    <2>2. QED
      BY <1>3, <1>6, <1>9, <2>1 DEF CurrentIn, AtNode, Top, AddressAt, NodeAt
  <1>12. QED
    BY <1>5, <1>7, <1>10, <1>11 DEF CellsInv

(* CellsInv holds throughout.                                               *)
LEMMA CellsAlways == Spec => []CellsInv
  BY CellsInit, CellsStep, StackAlways, PTL DEF Spec

(* The cell of the node an activation is at is empty: OnceCell::set, whose  *)
(* failure resolve.rs and ctxt.rs ignore, never finds it filled.            *)
LEMMA CellsInvImplies == StackInv /\ CellsInv => CellsAreSetOnce
  <1> SUFFICES ASSUME StackInv, CellsInv, NEW f \in DOMAIN frames,
                      frames[f].at <= Len(frames[f].list), f < Depth \/ Going
               PROVE  AddressAt(f) \notin Cells
    BY DEF CellsAreSetOnce, Cells
  <1>1. PICK U \in SUBSET Addresses : Ahead(U, frames, loaded, Cells) /\ CurrentIn(U)
    BY DEF CellsInv
  <1>2. f \in 1..Depth /\ Depth = Len(frames) /\ Depth \in Nat /\ Top = frames[Depth]
    BY DepthFacts, LenProperties, CallerFacts DEF StackInv, TypeOK, FramesOK
  <1>3. CASE f < Depth
    <2>1. f \in 1..(Len(frames) - 1) /\ AddressAt(f) = Busy(frames, f)
      BY <1>2, <1>3 DEF AddressAt, NodeAt, Busy
    <2>2. QED
      BY <1>1, <2>1 DEF Ahead
  <1>4. CASE f = Depth /\ Going
    BY <1>1, <1>2, <1>4 DEF CurrentIn, AtNode, Ahead
  <1>5. QED
    BY <1>2, <1>3, <1>4

(* No import is given a second result and no alternative a second choice:   *)
(* when an activation comes to a node, its cell is empty, whatever was      *)
(* given up half way before (set_resultid, set_selected).                   *)
THEOREM CellsFillOnce == Spec => []CellsAreSetOnce
  BY CellsAlways, StackAlways, CellsInvImplies, PTL

-----------------------------------------------------------------------------
(* S holds what is behind the activations: everything they have passed in   *)
(* their lists and, with an alternative, the side that was chosen.  All of  *)
(* it is filled.                                                            *)

SideChosen(n, a, docs, sel) ==
    IF sel[<<n, a>>] THEN docs[n].doc.alternatives[a].left
                     ELSE docs[n].doc.alternatives[a].right
IsFilled(n, x, S, docs, res, sel) ==
    /\ x \in DOMAIN docs[n].doc.imports => <<n, x>> \in res
    /\ x \in DOMAIN docs[n].doc.alternatives =>
          /\ <<n, x>> \in DOMAIN sel
          /\ \A y \in NodesOf(SideChosen(n, x, docs, sel)) : <<n, y>> \in S
Filled(S, docs, res, sel) ==
    \A n \in 1..Len(docs) : \A x \in Nodes(docs[n].doc) :
        <<n, x>> \in S => IsFilled(n, x, S, docs, res, sel)
Passed(S, fs) ==
    \A f \in 1..Len(fs) : \A p \in 1..Len(fs[f].list) :
        p < fs[f].at => <<fs[f].inst, fs[f].list[p]>> \in S
SettledInv ==
    \E S \in SUBSET Addresses :
        Filled(S, loaded, DOMAIN result, selected) /\ Passed(S, frames)

(* What is settled stays so when cells are added and documents are loaded.  *)
LEMMA FilledGrows ==
    ASSUME NEW docs, NEW docs2, Len(docs) \in Nat, Len(docs2) \in Nat,
           NEW S, S \subseteq (1..Len(docs)) \X Ids,
           NEW res, NEW res2, res \subseteq res2,
           NEW sel, NEW sel2, Extends(sel2, sel),
           \A n \in 1..Len(docs) : docs2[n] = docs[n],
           Filled(S, docs, res, sel)
    PROVE  Filled(S, docs2, res2, sel2)
  <1> SUFFICES ASSUME NEW n \in 1..Len(docs2), NEW x \in Nodes(docs2[n].doc),
                      <<n, x>> \in S
               PROVE  IsFilled(n, x, S, docs2, res2, sel2)
    BY DEF Filled
  <1>1. n \in 1..Len(docs) /\ docs2[n] = docs[n]
    OBVIOUS
  <1>2. IsFilled(n, x, S, docs, res, sel)
    BY <1>1 DEF Filled
  <1>3. <<n, x>> \in DOMAIN sel =>
           /\ <<n, x>> \in DOMAIN sel2
           /\ SideChosen(n, x, docs2, sel2) = SideChosen(n, x, docs, sel)
    BY <1>1 DEF Extends, SideChosen
  <1>4. QED
    BY <1>1, <1>2, <1>3 DEF IsFilled

(* One more node is settled once its own cell is and what it uses is.       *)
LEMMA FilledAdds ==
    ASSUME NEW S, NEW docs, NEW res, NEW sel, Filled(S, docs, res, sel),
           NEW n, NEW x, NEW T, T = S \cup {<<n, x>>}, IsFilled(n, x, S, docs, res, sel)
    PROVE  Filled(T, docs, res, sel)
  BY DEF Filled, IsFilled

(* What activations have passed, after they were cut or one moved on.       *)
LEMMA CutPassed ==
    ASSUME StackInv, NEW S, Passed(S, frames), NEW n \in 1..Depth, NEW gs, NEW T,
           \/ gs = Below(n) /\ T = S
           \/ gs = Advance(n) /\ T = S \cup {AddressAt(n)}
    PROVE  Passed(T, gs)
  <1>1. /\ Depth = Len(frames) /\ Len(frames) \in Nat /\ n \in Nat
        /\ n \in 1..Len(frames) /\ FramesOK(frames, loaded)
        /\ frames[n] \in Frame
    BY DepthFacts, LenProperties DEF StackInv, TypeOK
  <1>2. /\ Len(gs) = n /\ \A f \in 1..(n - 1) : gs[f] = frames[f]
        /\ gs[n].inst = frames[n].inst /\ gs[n].list = frames[n].list
    BY <1>1, CutFrames
  <1>3. \/ gs[n].at = frames[n].at /\ T = S
        \/ gs[n].at = frames[n].at + 1 /\ T = S \cup {AddressAt(n)}
    <2>1. Below(n)[n] = frames[n]
      <3>1. n \in 1..n
        BY <1>1
      <3>2. QED
        BY <1>1, <3>1, BelowFrames DEF Below
    <2>2. Advance(n)[n] = [frames[n] EXCEPT !.at = @ + 1]
      BY <1>1, AdvanceFrames DEF Below, Advance, Advanced
    <2>3. QED
      BY <1>1, <2>1, <2>2 DEF Frame
  <1>4. frames[n].at \in Nat /\ Len(frames[n].list) \in Nat
    BY <1>1, LenProperties DEF Frame
  <1>5. ASSUME NEW f \in 1..n, NEW p \in 1..Len(gs[f].list), p < gs[f].at
        PROVE  <<gs[f].inst, gs[f].list[p]>> \in T
    <2>1. CASE f = n
      <3>1. p \in 1..Len(frames[n].list)
        BY <1>2, <2>1
      <3>2. CASE p < frames[n].at
        BY <1>1, <1>2, <1>3, <2>1, <3>1, <3>2 DEF Passed
      <3>3. CASE p = frames[n].at
        BY <1>2, <1>3, <1>4, <1>5, <2>1, <3>3 DEF AddressAt, NodeAt
      <3>4. QED
        BY <1>3, <1>4, <1>5, <2>1, <3>1, <3>2, <3>3
    <2>2. CASE f # n
      <3>1. f \in 1..(n - 1) /\ f \in 1..Len(frames) /\ S \subseteq T
        BY <1>1, <1>3, <2>2
      <3>2. QED
        BY <1>2, <1>5, <3>1 DEF Passed
    <2>3. QED
      BY <2>1, <2>2
  <1>6. QED
    BY <1>2, <1>5 DEF Passed

(* A new activation has passed nothing.                                     *)
LEMMA PushPassed ==
    ASSUME NEW fs \in Seq(Frame), NEW fr, fr.at = 1, NEW S, Passed(S, fs),
           Append(fs, fr) \in Seq(Frame)
    PROVE  Passed(S, Append(fs, fr))
  <1> DEFINE gs == Append(fs, fr)
             n == Len(fs)
  <1>1. /\ n \in Nat /\ Len(gs) = n + 1 /\ gs[n + 1] = fr
        /\ \A f \in 1..n : gs[f] = fs[f]
    BY AppendProperties, LenProperties
  <1> HIDE DEF gs
  <1>2. ASSUME NEW f \in 1..(n + 1), NEW p \in 1..Len(gs[f].list), p < gs[f].at
        PROVE  <<gs[f].inst, gs[f].list[p]>> \in S
    <2>1. f # n + 1
      BY <1>1, <1>2
    <2>2. f \in 1..n
      BY <1>1, <2>1
    <2>3. QED
      BY <1>1, <1>2, <2>2 DEF Passed
  <1>3. Passed(S, gs)
    BY <1>1, <1>2 DEF Passed
  <1>4. QED
    BY <1>3 DEF gs

(* SettledInv is inductive: a node is passed only in a step that fills its  *)
(* cell, and an alternative only after the side it chose was passed to its  *)
(* end.                                                                     *)
LEMMA SettledStep ==
    ASSUME StackInv, CellsInv, SettledInv, [Next]_vars
    PROVE  SettledInv'
  <1>1. PICK S \in SUBSET Addresses :
           Filled(S, loaded, DOMAIN result, selected) /\ Passed(S, frames)
    BY DEF SettledInv
  <1>2. /\ Depth \in 1..Depth /\ Depth = Len(frames) /\ Depth \in Nat
        /\ Top = frames[Depth] /\ TypeOK /\ TypeOK' /\ Grow
        /\ frames \in Seq(Frame) /\ frames' \in Seq(Frame)
        /\ Len(loaded) \in Nat /\ Len(loaded') \in Nat
        /\ Depth > 1 => Depth - 1 \in 1..Depth /\ Depth - 1 \in 1..(Depth - 1)
        /\ Top.role \in {"left", "right"} => Depth > 1
    BY CallerFacts, DepthFacts, TypeStep, ResultKinds, LenProperties
       DEF StackInv, TypeOK, FramesOK
  <1>3. S \subseteq (1..Len(loaded)) \X Ids /\ S \subseteq Addresses'
    BY <1>2 DEF Addresses, Grow
  <1>4. Extends(selected', selected)
    BY SelectedExtends
  <1>5. DOMAIN result \subseteq DOMAIN result'
    <2>1. (DOMAIN result' = DOMAIN result)
             \/ \E a : DOMAIN result' = (DOMAIN result) \cup {a}
      BY CellKinds DEF KeepsOn, Drops, LeavesCells, AnswersHere, AnswersCaller, AnswersAt,
         StartsDocument, Load, EnterAlternative, FinishSide, Recover
    <2>2. QED
      BY <2>1
  <1>6. Filled(S, loaded', DOMAIN result', selected')
    <2>1. PICK docs, res, sel : docs = loaded' /\ res = DOMAIN result' /\ sel = selected'
      OBVIOUS
    <2>2. /\ Len(docs) \in Nat /\ DOMAIN result \subseteq res /\ Extends(sel, selected)
          /\ \A n \in 1..Len(loaded) : docs[n] = loaded[n]
      BY <1>2, <1>4, <1>5, <2>1 DEF Grow
    <2>3. Filled(S, docs, res, sel)
      BY <1>1, <1>2, <1>3, <2>2, FilledGrows
    <2>4. QED
      BY <2>1, <2>3
  <1>7. ASSUME Passed(S, frames')
        PROVE  SettledInv'
    BY <1>3, <1>6, <1>7 DEF SettledInv
  <1>8. ASSUME NEW n \in 1..Depth, frames' = Advance(n), loaded' = loaded,
               frames[n].at <= Len(frames[n].list),
               IsFilled(frames[n].inst, NodeAt(n), S, loaded', DOMAIN result', selected')
        PROVE  SettledInv'
    <2>1. PICK T : T = S \cup {AddressAt(n)}
      OBVIOUS
    <2>2. Passed(T, frames')
      BY <1>1, <1>8, <2>1, CutPassed
    <2>3. Filled(T, loaded', DOMAIN result', selected')
      <3>1. PICK i, x : i = frames[n].inst /\ x = NodeAt(n)
        OBVIOUS
      <3>2. T = S \cup {<<i, x>>}
        BY <2>1, <3>1 DEF AddressAt
      <3>3. IsFilled(i, x, S, loaded', DOMAIN result', selected')
        BY <1>8, <3>1
      <3>4. PICK docs, res, sel : docs = loaded' /\ res = DOMAIN result' /\ sel = selected'
        OBVIOUS
      <3>5. Filled(S, docs, res, sel) /\ IsFilled(i, x, S, docs, res, sel)
        BY <1>6, <3>3, <3>4
      <3>6. Filled(T, docs, res, sel)
        BY <3>2, <3>5, FilledAdds
      <3>7. QED
        BY <3>4, <3>6
    <2>4. T \subseteq Addresses'
      BY <1>2, <1>3, <1>8, <2>1, NodeFacts DEF Addresses
    <2>5. QED
      BY <2>2, <2>3, <2>4 DEF SettledInv
  <1>9. CASE KeepsOn
    BY <1>1, <1>7, <1>9 DEF KeepsOn
  <1>10. CASE Drops
    BY <1>1, <1>7, <1>10, CutPassed DEF Drops
  <1>11. ASSUME NEW f \in 1..Depth, AnswersAt(f), frames[f].at <= Len(frames[f].list),
                NodeAt(f) \in DOMAIN DocAt(f).imports
         PROVE  SettledInv'
    <2>1. /\ frames' = Advance(f) /\ loaded' = loaded
          /\ <<frames[f].inst, NodeAt(f)>> \in DOMAIN result'
      BY <1>11 DEF AnswersAt, AddressAt
    <2>2. NodeAt(f) \notin DOMAIN DocAt(f).alternatives
      BY <1>2, <1>11, DepthFacts DEF IsDocument
    <2>3. IsFilled(frames[f].inst, NodeAt(f), S, loaded', DOMAIN result', selected')
      BY <2>1, <2>2 DEF IsFilled, DocAt
    <2>4. QED
      BY <1>8, <1>11, <2>1, <2>3
  <1>12. CASE AnswersHere
    BY <1>2, <1>11, <1>12 DEF AnswersHere, AtImport, AtNode
  <1>13. CASE AnswersCaller
    BY <1>2, <1>11, <1>13, CallerFacts DEF AnswersCaller
  <1>14. CASE FinishSide
    <2>1. /\ Depth > 1 /\ Top.at > Len(Top.list) /\ Top.role \in {"left", "right"}
          /\ frames' = Advance(Depth - 1) /\ loaded' = loaded
          /\ selected' = SetOnce(selected, AddressAt(Depth - 1), Top.role = "left")
      BY <1>2, <1>14 DEF FinishSide, AtEnd
    <2>2. PICK n : n = Depth - 1
      OBVIOUS
    <2>3. /\ n \in 1..Depth /\ frames[n].at <= Len(frames[n].list)
          /\ NodeAt(n) \in DOMAIN DocAt(n).alternatives
          /\ Top.inst = frames[n].inst /\ DocAt(Depth) = DocAt(n)
      BY <1>2, <2>1, <2>2, CallerFacts
    <2>4. NodeAt(n) \notin DOMAIN DocAt(n).imports
      BY <1>2, <2>3, DepthFacts DEF IsDocument
    <2>5. AddressAt(n) \notin DOMAIN selected
      <3>1. n \in DOMAIN frames /\ n < Depth
        BY <1>2, <2>1, <2>2, LenProperties
      <3>2. QED
        BY <2>3, <3>1, CellsInvImplies DEF CellsAreSetOnce
    <2>6. /\ AddressAt(n) \in DOMAIN selected'
          /\ selected'[AddressAt(n)] = (Top.role = "left")
      BY <2>1, <2>2, <2>5 DEF SetOnce
    <2>7. frames[Depth].list = ListOf(Top, frames, n, loaded)
      BY <1>2, <2>1, <2>2 DEF CellsInv, Lists
    <2>8. SideChosen(frames[n].inst, NodeAt(n), loaded', selected') = Top.list
      BY <1>2, <2>1, <2>3, <2>6, <2>7 DEF SideChosen, ListOf, AltAt, AddressAt, NodeAt
    <2>9. \A y \in NodesOf(Top.list) : <<frames[n].inst, y>> \in S
      <3>1. Top.list \in Seq(Ids) /\ Top.at \in Nat
        BY <1>2, DepthFacts DEF Frame
      <3>2. DOMAIN Top.list = 1..Len(Top.list) /\ Len(Top.list) \in Nat
        BY <3>1, LenProperties
      <3>3. \A p \in 1..Len(Top.list) : p < Top.at
        BY <2>1, <3>1, <3>2
      <3>4. QED
        BY <1>1, <1>2, <2>3, <3>2, <3>3 DEF Passed, NodesOf
    <2>10. IsFilled(frames[n].inst, NodeAt(n), S, loaded', DOMAIN result', selected')
      BY <2>1, <2>3, <2>4, <2>6, <2>8, <2>9 DEF IsFilled, DocAt, AddressAt
    <2>11. QED
      BY <1>8, <2>1, <2>2, <2>3, <2>10
  <1>15. ASSUME NEW gs \in Seq(Frame), NEW fr, frames' = Append(gs, fr), fr.at = 1,
                Passed(S, gs)
         PROVE  SettledInv'
    BY <1>2, <1>7, <1>15, PushPassed
  <1>16. CASE StartsDocument
    <2>1. PICK answer \in Serve(HereLoc.kind, HereLoc.headers) : Load(answer)
      BY <1>16 DEF StartsDocument
    <2>2. PICK fr : fr = Activation(Len(loaded) + 1, answer.doc.top, "document",
                                    Len(stack) + 1)
      OBVIOUS
    <2>3. frames' = Append(frames, fr) /\ fr.at = 1
      BY <2>1, <2>2 DEF Load, Activation
    <2>4. QED
      BY <1>1, <1>2, <1>15, <2>3
  <1>17. CASE EnterAlternative
    <2>1. PICK fr : fr = Activation(Top.inst,
                                    DocAt(Depth).alternatives[NodeAt(Depth)].left,
                                    "left", Len(stack))
      OBVIOUS
    <2>2. frames' = Append(frames, fr) /\ fr.at = 1
      BY <1>17, <2>1 DEF EnterAlternative, Activation
    <2>3. QED
      BY <1>1, <1>2, <1>15, <2>2
  <1>18. CASE Recover
    <2>1. PICK fr : fr = Activation(Top.inst,
                                DocAt(Depth - 1).alternatives[NodeAt(Depth - 1)].right,
                                "right", Len(stack))
      OBVIOUS
    <2>2. PICK gs : gs = Below(Depth - 1)
      OBVIOUS
    <2>3. frames' = Append(gs, fr) /\ fr.at = 1 /\ Depth > 1
      BY <1>2, <1>18, <2>1, <2>2 DEF Recover, Activation
    <2>4. Passed(S, gs) /\ gs \in Seq(Frame)
      BY <1>1, <1>2, <2>2, <2>3, CutPassed, CutFrames DEF TypeOK
    <2>5. QED
      BY <1>15, <2>3, <2>4
  <1>19. QED
    BY <1>9, <1>10, <1>12, <1>13, <1>14, <1>16, <1>17, <1>18, CellKinds

(* A call succeeds only when its first activation has come to its end.      *)
EndInv == outcome.tag = "resolved" => Depth = 1 /\ Top.at > Len(Top.list)

(* Only FinishRoot ends a call with success.                                *)
LEMMA ResolvedStep ==
    ASSUME StackInv, [Next]_vars, outcome'.tag = "resolved"
    PROVE  FinishRoot \/ UNCHANGED vars
  <1>1. outcome \in Outcomes
    BY DEF StackInv, TypeOK
  <1>2. ~(Going /\ outcome' = outcome) /\ ~(Failing /\ outcome' = outcome)
    BY DEF Going, Failing
  <1>3. /\ \A cause : outcome' # Error(cause) /\ outcome' # Wrapped(Error(cause))
        /\ outcome' # Wrapped(outcome) /\ outcome' # Panic /\ outcome' # Running
    <2>1. Panic.tag = "panicked" /\ Running.tag = "running"
      BY DEF Panic, Running
    <2>2. \A cause : Error(cause).tag = "failing"
      BY DEF Error
    <2>3. \A error : Wrapped(error).tag = "failing"
      BY DEF Error, Wrapped
    <2>4. QED
      BY <2>1, <2>2, <2>3
  <1>4. ASSUME NEW f, NEW r, NEW v, NEW files, Conclude(f, r, v, files)
        PROVE  ~Going
    BY <1>2, <1>3, <1>4 DEF Conclude
  <1>5. ASSUME DiskHit \/ MemHit \/ Cycle \/ Fetching
        PROVE  Going
    BY <1>5 DEF DiskHit, MemHit, Cycle, Fetching, MustFetch, PastDisk, Chained, AtImport,
       AtNode
  <1>6. ~(HeadersFail \/ ChainFails \/ ChainAborts \/ RefuseRemote \/ DocumentIllTyped)
    BY <1>3 DEF HeadersFail, ChainFails, ChainAborts, RefuseRemote, DocumentIllTyped, Stop
  <1>7. ~(DiskHit \/ MemHit \/ Cycle)
    BY <1>2, <1>3, <1>4, <1>5 DEF DiskHit, MemHit, Cycle
  <1>8. ~Fetch
    <2>1. ~FetchLocation
      BY <1>4, <1>5 DEF FetchLocation
    <2>2. ASSUME NEW answer, Fetching
          PROVE  ~(FetchText(answer) \/ FetchFails(answer) \/ FetchAborts(answer)
                   \/ Load(answer))
      BY <1>2, <1>3, <1>4, <1>5, <2>2 DEF FetchText, FetchFails, FetchAborts, Load
    <2>3. QED
      BY <2>1, <2>2 DEF Fetch
  <1>9. ~(FinishDocument \/ EnterAlternative \/ FinishSide)
    BY <1>2, <1>4 DEF FinishDocument, EnterAlternative, FinishSide, AtEnd, AtAlternative,
       AtNode
  <1>10. ~(Recover \/ LeaveSide \/ LeaveDocument)
    BY <1>2, <1>3 DEF Recover, LeaveSide, LeaveDocument
  <1>11. ~GiveUp
    BY <1>1 DEF GiveUp, Stop, Outcomes
  <1>12. QED
    BY <1>6, <1>7, <1>8, <1>9, <1>10, <1>11 DEF Next, Done

(* EndInv is inductive.                                                     *)
LEMMA EndStep == StackInv /\ EndInv /\ [Next]_vars => EndInv'
  <1> SUFFICES ASSUME StackInv, EndInv, [Next]_vars, outcome'.tag = "resolved"
               PROVE  (Depth = 1 /\ Top.at > Len(Top.list))'
    BY DEF EndInv
  <1>1. CASE FinishRoot
    BY <1>1 DEF FinishRoot, AtEnd, Stop, Depth, Top
  <1>2. CASE UNCHANGED vars
    BY <1>2 DEF EndInv, vars, Depth, Top
  <1>3. QED
    BY <1>1, <1>2, ResolvedStep

(* What is behind the activation that ends is closed under use.             *)
LEMMA SettledInvImplies ==
    StackInv /\ CellsInv /\ SettledInv /\ EndInv => UsedNodesAreSettled
  <1> SUFFICES ASSUME StackInv, CellsInv, SettledInv, EndInv,
                      (AtEnd /\ Top.role = "document") \/ outcome.tag = "resolved",
                      NEW x \in Used(Top.inst)
               PROVE  IF x \in DOMAIN DocAt(Depth).imports
                      THEN <<Top.inst, x>> \in DOMAIN result
                      ELSE <<Top.inst, x>> \in DOMAIN selected
    BY DEF UsedNodesAreSettled
  <1> DEFINE n == Top.inst
             doc == loaded[n].doc
  <1>1. PICK S \in SUBSET Addresses :
           Filled(S, loaded, DOMAIN result, selected) /\ Passed(S, frames)
    BY DEF SettledInv
  <1>2. /\ Depth \in 1..Depth /\ Depth = Len(frames) /\ Depth \in Nat
        /\ Top = frames[Depth] /\ Top \in Frame /\ n \in 1..Len(loaded)
        /\ DocAt(Depth) = doc /\ IsDocument(doc) /\ frames[1].role = "document"
    BY CallerFacts, DepthFacts DEF StackInv, DocAt
  <1>3. Top.role = "document" /\ Top.at > Len(Top.list)
    BY <1>2 DEF EndInv, AtEnd
  <1>4. Top.list = doc.top
    BY <1>2, <1>3, ListedOnce DEF CellsInv
  <1>5. PICK T : T = {y \in Nodes(doc) : <<n, y>> \in S}
    OBVIOUS
  <1>6. ASSUME NEW list \in Seq(Nodes(doc)), \A y \in NodesOf(list) : <<n, y>> \in S
        PROVE  NodesOf(list) \subseteq T
    <2>1. NodesOf(list) \subseteq Nodes(doc)
      BY ElementOfSeq, LenProperties DEF NodesOf
    <2>2. QED
      BY <1>5, <1>6, <2>1
  <1>7. NodesOf(doc.top) \subseteq T
    <2>1. /\ DOMAIN Top.list = 1..Len(Top.list) /\ Len(Top.list) \in Nat
          /\ Top.at \in Nat
      BY <1>2, LenProperties DEF Frame
    <2>2. \A p \in 1..Len(Top.list) : p < Top.at
      BY <1>3, <2>1
    <2>3. \A y \in NodesOf(doc.top) : <<n, y>> \in S
      BY <1>1, <1>2, <1>4, <2>1, <2>2 DEF Passed, NodesOf
    <2>4. doc.top \in Seq(Nodes(doc))
      BY <1>2 DEF IsDocument
    <2>5. QED
      BY <1>6, <2>3, <2>4
  <1>8. ASSUME NEW a \in T \cap DOMAIN doc.alternatives
        PROVE  NodesOf(ChosenSide(n, a)) \subseteq T
    <2>1. IsFilled(n, a, S, loaded, DOMAIN result, selected)
      BY <1>1, <1>2, <1>5 DEF Filled
    <2>2. ChosenSide(n, a) = SideChosen(n, a, loaded, selected)
      BY DEF ChosenSide, SideChosen
    <2>3. \A y \in NodesOf(ChosenSide(n, a)) : <<n, y>> \in S
      BY <2>1, <2>2 DEF IsFilled
    <2>4. ChosenSide(n, a) \in Seq(Nodes(doc))
      BY <1>2 DEF ChosenSide, IsDocument
    <2>5. QED
      BY <1>6, <2>3, <2>4
  <1>9. ClosedUnderUse(n, T) /\ T \in SUBSET Nodes(doc)
    BY <1>5, <1>7, <1>8 DEF ClosedUnderUse
  <1>10. x \in T
    BY <1>9 DEF Used
  <1>11. x \in Nodes(doc) /\ IsFilled(n, x, S, loaded, DOMAIN result, selected)
    BY <1>1, <1>2, <1>5, <1>10 DEF Filled
  <1>12. QED
    BY <1>2, <1>11 DEF IsFilled, Nodes

(* What a document uses when it is typechecked, and what the whole uses     *)
(* when the call succeeds, has its result or its choice of side: "imports   *)
(* should all have been resolved at this stage" (ctxt.rs), whatever was     *)
(* given up half way in the sides of alternatives.                          *)
THEOREM UsedNodesSettle == Spec => []UsedNodesAreSettled
  <1>1. Init => SettledInv /\ EndInv
    <2> SUFFICES ASSUME Init
                 PROVE  SettledInv /\ EndInv
      OBVIOUS
    <2>1. PICK root \in Roots : frames = <<Activation(1, root.doc.top, "document", 0)>>
      BY DEF Init
    <2>2. Len(frames) = 1 /\ frames[1].at = 1
      BY <2>1 DEF Activation
    <2>3. Passed({}, frames)
      BY <2>2 DEF Passed
    <2>4. Filled({}, loaded, DOMAIN result, selected)
      BY DEF Filled
    <2>5. SettledInv
      BY <2>3, <2>4 DEF SettledInv
    <2>6. EndInv
      BY DEF Init, EndInv, Running
    <2>7. QED
      BY <2>5, <2>6
  <1>2. SettledInv /\ StackInv /\ CellsInv /\ [Next]_vars => SettledInv'
    BY SettledStep
  <1>3. QED
    BY <1>1, <1>2, EndStep, SettledInvImplies, CellsAlways, StackAlways, PTL DEF Spec
=============================================================================
