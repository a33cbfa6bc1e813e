------------------------------- MODULE DiskProofs -------------------------------
(***************************************************************************)
(* Proofs about the on-disk cache, for any number of processes, digests,   *)
(* files and blocks, and any digest function.                              *)
(*                                                                         *)
(* That undisturbed writers leave a whole file is not inductive: what is,  *)
(* is that each block of it is right already or is still to be written by  *)
(* a process that has the file open (Covered).  A process that finishes    *)
(* has no block left to write, so when the last one does nothing is left.  *)
(***************************************************************************)
EXTENDS DiskCache, TLAPS

(* Putting a block where a writer of `e` puts it keeps right blocks right.  *)
LEMMA PutIsWritten ==
    ASSUME NEW s \in Seq(Blocks), NEW i \in Nat \ {0}, NEW b \in Blocks
    PROVE  /\ Written(s, i, b) \in Seq(Blocks)
           /\ Len(Written(s, i, b)) = IF i > Len(s) THEN i ELSE Len(s)
           /\ \A k \in 1..Len(Written(s, i, b)) :
                 Written(s, i, b)[k] =
                     IF k = i THEN b ELSE IF k <= Len(s) THEN s[k] ELSE Hole
<1> DEFINE m == IF i > Len(s) THEN i ELSE Len(s)
<1>1. m \in Nat
    OBVIOUS
<1>2. \A k \in 1..m :
          (IF k = i THEN b ELSE IF k <= Len(s) THEN s[k] ELSE Hole) \in Blocks
    BY CacheAssumption
<1>3. Written(s, i, b) =
          [k \in 1..m |->
              IF k = i THEN b ELSE IF k <= Len(s) THEN s[k] ELSE Hole]
    BY DEF Written, Put
<1> HIDE DEF m
<1>4. Written(s, i, b) \in [1..m -> Blocks]
    BY <1>2, <1>3
<1>5. Written(s, i, b) \in Seq(Blocks) /\ Len(Written(s, i, b)) = m
    BY <1>1, <1>4
<1> QED
    BY <1>3, <1>5 DEF m

(* Every variable keeps its type, and a node is open exactly while it is    *)
(* read or written.                                                         *)
LEMMA InitTyped == Init => TypeOK
<1> SUFFICES ASSUME Init PROVE TypeOK
    OBVIOUS
<1>1. content \in [Nodes -> Seq(Blocks)]
  <2>1. Found \subseteq Seq(Blocks) /\ <<>> \in Seq(Blocks)
      BY CacheAssumption
  <2>2. content \in [Nodes -> Found \cup {<<>>}]
      BY DEF Init
  <2> QED
      BY <2>1, <2>2
<1>2. data \in [Procs -> Seq(Blocks)]
    BY DEF Init
<1> QED
    BY <1>1, <1>2, CacheAssumption DEF Init, TypeOK

LEMMA ElementOfContent ==
    ASSUME TypeOK, NEW p \in Procs, pc[p] = "reading",
           at[p] <= Len(content[file[p]])
    PROVE  content[file[p]][at[p]] \in Blocks
<1>1. file[p] \in Nodes /\ content[file[p]] \in Seq(Blocks)
    BY DEF TypeOK
<1>2. at[p] \in 1..Len(content[file[p]])
    BY <1>1 DEF TypeOK
<1> QED
    BY <1>1, <1>2

LEMMA ElementOfData ==
    ASSUME TypeOK, NEW p \in Procs, at[p] <= Len(data[p])
    PROVE  data[p][at[p]] \in Blocks /\ at[p] \in 1..Len(data[p])
<1>1. data[p] \in Seq(Blocks) /\ at[p] \in 1..Len(data[p])
    BY DEF TypeOK
<1> QED
    BY <1>1

LEMMA StepTyped == TypeOK /\ [Next]_vars => TypeOK'
<1> SUFFICES ASSUME TypeOK, [Next]_vars PROVE TypeOK'
    OBVIOUS
<1> USE DEF files, call, history, Goto, Hold, Buffer, Leave
<1>1. ASSUME NEW p \in Procs, NEW h \in Hashes, StartGet(p, h) PROVE TypeOK'
    BY <1>1, CacheAssumption DEF TypeOK, StartGet
<1>2. ASSUME NEW p \in Procs, ReadBlock(p) PROVE TypeOK'
  <2>1. content[file[p]][at[p]] \in Blocks /\ data[p] \in Seq(Blocks)
      BY <1>2, ElementOfContent DEF ReadBlock, TypeOK
  <2>2. Append(data[p], content[file[p]][at[p]]) \in Seq(Blocks)
      BY <2>1
  <2> QED
      BY <1>2, <2>2 DEF TypeOK, ReadBlock
<1>3. ASSUME NEW p \in Procs, EndRead(p) PROVE TypeOK'
    BY <1>3, CacheAssumption DEF TypeOK, EndRead
<1>4. ASSUME NEW p \in Procs, CheckExists(p) PROVE TypeOK'
    BY <1>4 DEF TypeOK, CheckExists
<1>5. ASSUME NEW p \in Procs, Remove(p) PROVE TypeOK'
    BY <1>5 DEF TypeOK, Remove, Removed
<1>6. ASSUME NEW p \in Procs, Finish(p) PROVE TypeOK'
    BY <1>6, CacheAssumption DEF TypeOK, Finish
<1>7. ASSUME NEW p \in Procs, NEW e \in Encodings, NEW n \in Nodes,
             Create(p, e, n)
      PROVE  TypeOK'
  <2>1. e \in Seq(Blocks) /\ <<>> \in Seq(Blocks)
      BY CacheAssumption
  <2>2. {e} \cup {data[w] : w \in Writers(n)} \in SUBSET Seq(Blocks)
      BY <2>1 DEF Writers, TypeOK
  <2>3. written' \in [Nodes -> SUBSET Seq(Blocks)]
      BY <1>7, <2>2 DEF TypeOK, Create
  <2>4. entry' \in [Hashes -> Nodes \cup {NoNode}]
      BY <1>7 DEF TypeOK, Create
  <2>5. content' \in [Nodes -> Seq(Blocks)] /\ data' \in [Procs -> Seq(Blocks)]
      BY <1>7, <2>1 DEF TypeOK, Create
  <2>6. \A q \in Procs :
            file'[q] # NoNode <=> pc'[q] \in {"reading", "writing"}
      BY <1>7, CacheAssumption DEF TypeOK, Create
  <2> QED
      BY <1>7, <2>3, <2>4, <2>5, <2>6 DEF TypeOK, Create
<1>8. ASSUME NEW p \in Procs, WriteBlock(p) PROVE TypeOK'
  <2>1. file[p] \in Nodes /\ content[file[p]] \in Seq(Blocks)
      BY <1>8 DEF TypeOK, WriteBlock
  <2>2. Written(content[file[p]], at[p], data[p][at[p]]) \in Seq(Blocks)
      BY <1>8, <2>1, ElementOfData, PutIsWritten DEF WriteBlock, TypeOK
  <2> QED
      BY <1>8, <2>2 DEF TypeOK, WriteBlock
<1>9. ASSUME NEW p \in Procs, EndWrite(p) PROVE TypeOK'
    BY <1>9, CacheAssumption DEF TypeOK, EndWrite
<1>10. ASSUME NEW p \in Procs, WriteFails(p) \/ Crash(p) PROVE TypeOK'
  <2>1. Interrupted(p)
      BY <1>10 DEF WriteFails, Crash
  <2>2. torn' \subseteq Nodes
      BY <2>1 DEF Interrupted, TypeOK
  <2>3. data' \in [Procs -> Seq(Blocks)]
      BY <2>1 DEF Interrupted, TypeOK
  <2> QED
      BY <2>1, <2>2, <2>3, CacheAssumption DEF TypeOK, Interrupted
<1>11. CASE UNCHANGED vars
    BY <1>11 DEF TypeOK, vars
<1> QED
    BY <1>1, <1>2, <1>3, <1>4, <1>5, <1>6, <1>7, <1>8, <1>9, <1>10, <1>11
       DEF Next, Continue

(* Nodes are open exactly while they are read or written, and every         *)
(* variable keeps its type.                                                 *)
THEOREM DiskTyped == Spec => []TypeOK
    BY InitTyped, StepTyped, PTL DEF Spec

-----------------------------------------------------------------------------
(* What holds of the bytes in memory when their digest is compared goes on  *)
(* holding, as nobody else can reach them.                                  *)
LEMMA StepVerified ==
    TypeOK /\ HitsAreVerified /\ [Next]_vars => HitsAreVerified'
<1> SUFFICES ASSUME TypeOK, HitsAreVerified, [Next]_vars,
                    NEW q \in Procs, pc'[q] = "hit"
             PROVE  Digest(data'[q]) = hash'[q]
    BY DEF HitsAreVerified
<1>1. CASE pc[q] = "hit" /\ data'[q] = data[q] /\ hash'[q] = hash[q]
    BY <1>1 DEF HitsAreVerified
<1>2. CASE EndRead(q)
    BY <1>2 DEF EndRead, Verified, Goto, Buffer, TypeOK
<1>3. \/ pc[q] = "hit" /\ data'[q] = data[q] /\ hash'[q] = hash[q]
      \/ EndRead(q)
    BY DEF Next, Continue, StartGet, ReadBlock, EndRead, CheckExists, Remove,
           Finish, Create, WriteBlock, EndWrite, WriteFails, Crash,
           Interrupted, vars, files, call, history, Goto, Hold, Buffer, Leave,
           TypeOK
<1> QED
    BY <1>1, <1>2, <1>3

(* What a process takes from the cache has the digest it asked for.         *)
THEOREM DiskHitsAreVerified == Spec => []HitsAreVerified
<1>1. Init => HitsAreVerified
    BY DEF Init, HitsAreVerified
<1> QED
    BY <1>1, StepVerified, DiskTyped, PTL DEF Spec

-----------------------------------------------------------------------------
(* Block k of node n is right, or somebody has yet to write it.             *)
Covered(n, e) ==
    /\ Len(content[n]) <= Len(e)
    /\ \A k \in 1..Len(e) :
          \/ k <= Len(content[n]) /\ content[n][k] = e[k]
          \/ \E w \in Writers(n) : at[w] <= k

(* Who writes a node is among those its history names, and an untorn node   *)
(* to which one encoding was written is covered.                            *)
WritersKnown == \A n \in Nodes : \A w \in Writers(n) : data[w] \in written[n]
NodesCovered ==
    \A n \in Nodes \ torn, e \in Encodings :
        written[n] = {e} => Covered(n, e)
DiskInv == TypeOK /\ WritersKnown /\ NodesCovered

LEMMA InitDiskInv == Init => DiskInv
    BY InitTyped DEF Init, DiskInv, WritersKnown, NodesCovered, Writers

(* A step that keeps the directory's contents and that no writer takes      *)
(* disturbs neither.                                                        *)
LEMMA NoWriterStep ==
    ASSUME DiskInv, NEW p \in Procs, pc[p] # "writing", pc'[p] # "writing",
           content' = content, written' = written, torn' = torn,
           \A w \in Procs \ {p} : /\ pc'[w] = pc[w] /\ file'[w] = file[w]
                                  /\ at'[w] = at[w] /\ data'[w] = data[w]
    PROVE  WritersKnown' /\ NodesCovered'
<1>1. \A n \in Nodes : Writers(n)' = Writers(n)
    BY DEF Writers
<1>2. \A n \in Nodes : \A w \in Writers(n) : at'[w] = at[w] /\ data'[w] = data[w]
    BY DEF Writers
<1>3. WritersKnown'
    BY <1>1, <1>2 DEF DiskInv, WritersKnown
<1>4. \A n \in Nodes, e \in Encodings : Covered(n, e) => Covered(n, e)'
    BY <1>1, <1>2 DEF Covered
<1> QED
    BY <1>3, <1>4 DEF DiskInv, NodesCovered

(* Truncating a file leaves everything to its new writer.                   *)
LEMMA CreateCovers ==
    ASSUME DiskInv, NEW p \in Procs, NEW e \in Encodings, NEW n \in Nodes,
           Create(p, e, n)
    PROVE  WritersKnown' /\ NodesCovered'
<1> USE DEF Create, Goto, Hold, Buffer
<1>1. TypeOK /\ pc[p] = "missed" /\ e \in Seq(Blocks)
    BY CacheAssumption DEF DiskInv
<1>2. /\ Writers(n)' = Writers(n) \cup {p}
      /\ \A m \in Nodes \ {n} : Writers(m)' = Writers(m)
      /\ \A m \in Nodes : p \notin Writers(m)
    BY <1>1 DEF Writers, TypeOK
<1>3. \A w \in Procs \ {p} : at'[w] = at[w] /\ data'[w] = data[w]
    BY <1>1 DEF TypeOK
<1>4. at'[p] = 1 /\ data'[p] = e /\ content'[n] = <<>>
    BY <1>1 DEF TypeOK
<1>5. WritersKnown'
  <2> SUFFICES ASSUME NEW m \in Nodes, NEW w \in Writers(m)'
               PROVE  data'[w] \in written'[m]
      BY DEF WritersKnown
  <2>1. CASE m = n
    <3>1. written'[n] = {e} \cup {data[v] : v \in Writers(n)}
        BY <1>1 DEF TypeOK
    <3>2. CASE w = p
        BY <2>1, <3>1, <3>2, <1>4
    <3>3. CASE w \in Writers(n) /\ w # p
      <4>1. data'[w] = data[w]
          BY <3>3, <1>3 DEF Writers
      <4> QED
          BY <2>1, <3>1, <3>3, <4>1
    <3> QED
        BY <2>1, <3>2, <3>3, <1>2
  <2>2. CASE m # n
    <3>1. w \in Writers(m) /\ w # p /\ w \in Procs
        BY <2>2, <1>2 DEF Writers
    <3>2. data[w] \in written[m] /\ written'[m] = written[m]
        BY <3>1, <2>2, <1>1 DEF DiskInv, WritersKnown, TypeOK
    <3> QED
        BY <3>1, <3>2, <1>3
  <2> QED
      BY <2>1, <2>2
<1>6. NodesCovered'
  <2> SUFFICES ASSUME NEW m \in Nodes, m \notin torn', NEW f \in Encodings,
                      written'[m] = {f}
               PROVE  Covered(m, f)'
      BY DEF NodesCovered
  <2>0. Len(f) \in Nat
      BY CacheAssumption
  <2>1. CASE m = n
    <3>1. p \in Writers(m)' /\ at'[p] = 1 /\ Len(content'[m]) = 0
        BY <2>1, <1>2, <1>4
    <3> QED
        BY <2>0, <3>1 DEF Covered
  <2>2. CASE m # n
    <3>1. written[m] = {f} /\ m \notin torn /\ content'[m] = content[m]
        BY <2>2, <1>1 DEF TypeOK
    <3>2. Covered(m, f)
        BY <3>1 DEF DiskInv, NodesCovered
    <3>3. Writers(m)' = Writers(m)
          /\ \A w \in Writers(m) : at'[w] = at[w]
        BY <2>2, <1>2, <1>3 DEF Writers
    <3> QED
        BY <3>1, <3>2, <3>3 DEF Covered
  <2> QED
      BY <2>1, <2>2
<1> QED
    BY <1>5, <1>6

(* A block that is written becomes right, and no other changes unless it    *)
(* lies beyond the end of the file, where somebody else has yet to write.   *)
LEMMA WriteCovers ==
    ASSUME DiskInv, NEW p \in Procs, WriteBlock(p)
    PROVE  WritersKnown' /\ NodesCovered'
<1> USE DEF WriteBlock, history
<1>1. TypeOK /\ pc[p] = "writing" /\ at[p] <= Len(data[p])
    BY DEF DiskInv
<1>2. PICK n \in Nodes : n = file[p]
    BY <1>1 DEF TypeOK
<1>3. \A m \in Nodes : Writers(m)' = Writers(m)
    BY DEF Writers
<1>4. p \in Writers(n) /\ data[p] \in written[n]
    BY <1>1, <1>2 DEF DiskInv, WritersKnown, Writers
<1>5. WritersKnown'
    BY <1>1, <1>3 DEF DiskInv, WritersKnown
<1>6. NodesCovered'
  <2> SUFFICES ASSUME NEW m \in Nodes, m \notin torn', NEW f \in Encodings,
                      written'[m] = {f}
               PROVE  Covered(m, f)'
      BY DEF NodesCovered
  <2>1. Covered(m, f)
      BY DEF DiskInv, NodesCovered
  <2>2. \A w \in Procs : w # p => at'[w] = at[w]
      BY <1>1 DEF TypeOK
  <2>3. at'[p] = at[p] + 1 /\ at[p] \in Nat \ {0}
      BY <1>1 DEF TypeOK
  <2>4. CASE m # n
    <3>1. p \notin Writers(m) /\ content'[m] = content[m]
        BY <2>4, <1>1, <1>2 DEF Writers, TypeOK
    <3> QED
        BY <3>1, <2>1, <2>2, <1>3 DEF Covered, Writers
  <2>5. CASE m = n
    <3>1. data[p] = f
        BY <2>5, <1>4
    <3>2. PICK s \in Seq(Blocks) : s = content[n]
        BY <1>1 DEF TypeOK
    <3>3. PICK t : t = Written(s, at[p], data[p][at[p]])
        OBVIOUS
    <3>4. content'[n] = t
        BY <1>1, <1>2, <3>2, <3>3 DEF TypeOK
    <3>5. /\ Len(t) = IF at[p] > Len(s) THEN at[p] ELSE Len(s)
          /\ \A k \in 1..Len(t) :
                t[k] = IF k = at[p] THEN f[at[p]]
                       ELSE IF k <= Len(s) THEN s[k] ELSE Hole
      <4>1. PICK b \in Blocks : b = f[at[p]]
          BY <3>1, <1>1, ElementOfData
      <4>2. PICK i \in Nat \ {0} : i = at[p]
          BY <2>3
      <4>3. t = Written(s, i, b)
          BY <3>1, <3>3, <4>1, <4>2
      <4>4. /\ Len(Written(s, i, b)) = IF i > Len(s) THEN i ELSE Len(s)
            /\ \A k \in 1..Len(Written(s, i, b)) :
                  Written(s, i, b)[k] =
                      IF k = i THEN b ELSE IF k <= Len(s) THEN s[k] ELSE Hole
          BY PutIsWritten
      <4> QED
          BY <4>1, <4>2, <4>3, <4>4
    <3>6. Len(s) \in Nat /\ Len(f) \in Nat /\ at[p] <= Len(f)
        BY <3>1, <1>1, CacheAssumption
    <3>7. Len(t) <= Len(f)
        BY <3>5, <3>6, <2>1, <2>3, <2>5, <3>2 DEF Covered
    <3>8. ASSUME NEW k \in 1..Len(f)
          PROVE  \/ k <= Len(t) /\ t[k] = f[k]
                 \/ \E w \in Writers(m) : at'[w] <= k
      <4>1. CASE k = at[p]
          BY <4>1, <3>5, <3>6, <2>3
      <4>2. CASE k # at[p] /\ k <= Len(s) /\ s[k] = f[k]
          BY <4>2, <3>5, <3>6, <2>3
      <4>3. CASE k # at[p] /\ \E w \in Writers(m) : at[w] <= k
        <5>1. PICK w \in Writers(m) : at[w] <= k
            BY <4>3
        <5>2. w \in Procs
            BY DEF Writers
        <5>3. at'[w] <= k
            BY <4>3, <5>1, <5>2, <2>2, <2>3
        <5> QED
            BY <5>3
      <4> QED
          BY <4>1, <4>2, <4>3, <2>1, <2>5, <3>2 DEF Covered
    <3> QED
        BY <3>4, <3>7, <3>8, <2>5, <1>3 DEF Covered
  <2> QED
      BY <2>4, <2>5
<1> QED
    BY <1>5, <1>6

(* A writer that stops has written all it had to, or leaves the node torn.  *)
LEMMA StopCovers ==
    ASSUME DiskInv, NEW p \in Procs, EndWrite(p) \/ Interrupted(p)
    PROVE  WritersKnown' /\ NodesCovered'
<1> USE DEF Leave, Goto, Hold, Buffer, files
<1>1. TypeOK
    BY DEF DiskInv
<1>2. content' = content /\ written' = written /\ torn \subseteq torn'
    BY DEF EndWrite, Interrupted, history
<1>3. \A m \in Nodes : Writers(m)' = Writers(m) \ {p}
    BY <1>1 DEF EndWrite, Interrupted, Writers, TypeOK
<1>4. \A w \in Procs \ {p} : at'[w] = at[w] /\ data'[w] = data[w]
    BY <1>1 DEF EndWrite, Interrupted, TypeOK
<1>5. WritersKnown'
    BY <1>2, <1>3, <1>4 DEF DiskInv, WritersKnown, Writers
<1>6. NodesCovered'
  <2> SUFFICES ASSUME NEW m \in Nodes, m \notin torn', NEW f \in Encodings,
                      written'[m] = {f}
               PROVE  Covered(m, f)'
      BY DEF NodesCovered
  <2>1. Covered(m, f) /\ written[m] = {f}
      BY <1>2 DEF DiskInv, NodesCovered
  <2>2. CASE p \in Writers(m)
    <3>1. EndWrite(p) /\ at[p] > Len(data[p])
        BY <2>2, <1>1 DEF EndWrite, Interrupted, Writers
    <3>2. data[p] = f
        BY <2>1, <2>2 DEF DiskInv, WritersKnown
    <3>3. \A k \in 1..Len(f) : ~(at[p] <= k)
        BY <3>1, <3>2, <1>1, CacheAssumption DEF TypeOK
    <3> QED
        BY <2>1, <3>3, <1>2, <1>3, <1>4 DEF Covered, Writers
  <2>3. CASE p \notin Writers(m)
      BY <2>1, <2>3, <1>2, <1>3, <1>4 DEF Covered, Writers
  <2> QED
      BY <2>2, <2>3
<1> QED
    BY <1>5, <1>6

LEMMA StepDiskInv == DiskInv /\ [Next]_vars => DiskInv'
<1> SUFFICES ASSUME DiskInv, [Next]_vars
             PROVE  WritersKnown' /\ NodesCovered'
    BY StepTyped DEF DiskInv
<1>1. TypeOK
    BY DEF DiskInv
<1>2. ASSUME NEW p \in Procs, pc[p] # "writing", pc'[p] # "writing",
             \/ \E h \in Hashes : StartGet(p, h)
             \/ ReadBlock(p) \/ EndRead(p) \/ CheckExists(p) \/ Remove(p)
             \/ Finish(p)
      PROVE  WritersKnown' /\ NodesCovered'
  <2>1. /\ content' = content /\ written' = written /\ torn' = torn
        /\ \A w \in Procs \ {p} : /\ pc'[w] = pc[w] /\ file'[w] = file[w]
                                  /\ at'[w] = at[w] /\ data'[w] = data[w]
      BY <1>1, <1>2 DEF StartGet, ReadBlock, EndRead, CheckExists, Remove,
         Finish, files, call, history, Goto, Hold, Buffer, Leave, TypeOK
  <2> QED
      BY <1>2, <2>1, NoWriterStep
<1>3. ASSUME NEW p \in Procs,
             \/ \E h \in Hashes : StartGet(p, h)
             \/ ReadBlock(p) \/ EndRead(p) \/ CheckExists(p) \/ Remove(p)
             \/ Finish(p)
      PROVE  pc[p] # "writing" /\ pc'[p] # "writing"
    BY <1>1, <1>3 DEF StartGet, ReadBlock, EndRead, CheckExists, Remove,
       Finish, Goto, Leave, TypeOK
<1>4. CASE UNCHANGED vars
  <2>1. /\ \A n \in Nodes : Writers(n)' = Writers(n)
        /\ content' = content /\ written' = written /\ torn' = torn
        /\ at' = at /\ data' = data
      BY <1>4 DEF vars, files, call, history, Writers
  <2>2. \A n \in Nodes, e \in Encodings : Covered(n, e) => Covered(n, e)'
      BY <2>1 DEF Covered
  <2>3. WritersKnown'
      BY <2>1 DEF DiskInv, WritersKnown
  <2>4. NodesCovered'
      BY <2>1, <2>2 DEF DiskInv, NodesCovered
  <2> QED
      BY <2>3, <2>4
<1> QED
    BY <1>2, <1>3, <1>4, CreateCovers, WriteCovers, StopCovers
       DEF Next, Continue, WriteFails, Crash

(* Once all who wrote one encoding to a file are done it holds that         *)
(* encoding, unless one of them was cut short.                              *)
THEOREM UndisturbedFilesAreWhole == Spec => []WholeUnlessInterrupted
<1>1. ASSUME DiskInv, NEW n \in Nodes \ torn, NEW e \in Encodings,
             written[n] = {e}, Writers(n) = {}
      PROVE  content[n] = e
  <2>1. Covered(n, e)
      BY <1>1 DEF DiskInv, NodesCovered
  <2>2. content[n] \in Seq(Blocks) /\ e \in Seq(Blocks)
      BY <1>1, CacheAssumption DEF DiskInv, TypeOK
  <2>3. \A k \in 1..Len(e) : k <= Len(content[n]) /\ content[n][k] = e[k]
      BY <1>1, <2>1 DEF Covered
  <2>4. Len(content[n]) = Len(e)
    <3>1. CASE Len(e) = 0
        BY <2>1, <2>2, <3>1 DEF Covered
    <3>2. CASE Len(e) # 0
        BY <2>1, <2>2, <2>3, <3>2 DEF Covered
    <3> QED
        BY <3>1, <3>2
  <2> QED
      BY <2>2, <2>3, <2>4
<1>2. DiskInv => WholeUnlessInterrupted
    BY <1>1 DEF WholeUnlessInterrupted
<1> QED
    BY <1>2, InitDiskInv, StepDiskInv, PTL DEF Spec
-----------------------------------------------------------------------------
(* How many system calls a call of get and insert still has to make, if no  *)
(* file is longer than `longest`: it reads a file to its end, perhaps       *)
(* removes it, and writes one.                                              *)
StepsLeft(p, longest) ==
    CASE pc[p] = "reading" -> 2 * longest + 6 - at[p]
      [] pc[p] = "failed" -> longest + 4
      [] pc[p] = "removing" -> longest + 3
      [] pc[p] \in {"hit", "missed"} -> longest + 2
      [] pc[p] = "writing" -> longest + 2 - at[p]
      [] pc[p] = "idle" -> 0

(* Where a process is in the file it has open, whatever others have made of *)
(* that file since.                                                         *)
InFile(p, longest) ==
    /\ pc[p] = "reading" => at[p] <= longest + 1
    /\ pc[p] = "writing" => Len(data[p]) <= longest /\ at[p] <= Len(data[p]) + 1
    /\ pc[p] \notin {"reading", "writing"} => at[p] = 1
LengthInv(longest) ==
    /\ \A n \in Nodes : Len(content[n]) <= longest
    /\ \A p \in Procs : InFile(p, longest)

(* A step is one process's: it begins a call, or brings one closer to its   *)
(* end, and leaves every other process where it is.                         *)
Stays(p) == UNCHANGED <<pc[p], file[p], hash[p], at[p], data[p]>>
Proceeds(longest) ==
    \A p \in Procs :
        pc[p] = "idle" \/ Stays(p) \/ StepsLeft(p, longest)' < StepsLeft(p, longest)

Step(p) == (\E h \in Hashes : StartGet(p, h)) \/ Continue(p) \/ Crash(p)

(* A process changes nothing of another one.                                *)
LEMMA OthersStay ==
    ASSUME TypeOK, NEW p \in Procs, Step(p), NEW q \in Procs, q # p
    PROVE  Stays(q)
<1> USE DEF files, call, history, Goto, Hold, Buffer, Leave, Interrupted, Stays
<1>1. CASE \E h \in Hashes : StartGet(p, h)
    BY <1>1 DEF StartGet, TypeOK
<1>2. CASE ReadBlock(p) \/ EndRead(p) \/ CheckExists(p) \/ Remove(p) \/ Finish(p)
    BY <1>2 DEF ReadBlock, EndRead, CheckExists, Remove, Finish, TypeOK
<1>3. CASE \E e \in Encodings, n \in Nodes : Create(p, e, n)
    BY <1>3 DEF Create, TypeOK
<1>4. CASE WriteBlock(p) \/ EndWrite(p) \/ WriteFails(p) \/ Crash(p)
    BY <1>4 DEF WriteBlock, EndWrite, WriteFails, Crash, TypeOK
<1> QED
    BY <1>1, <1>2, <1>3, <1>4 DEF Step, Continue

(* A writer makes its file longer by the blocks it has only.                *)
LEMMA FilesStayShort ==
    ASSUME TypeOK, NEW longest \in Nat, LengthInv(longest),
           NEW p \in Procs, Step(p), NEW n \in Nodes
    PROVE  Len(content'[n]) <= longest
<1> USE DEF files, Interrupted
<1>1. content[n] \in Seq(Blocks) /\ Len(content[n]) <= longest
    BY DEF TypeOK, LengthInv
<1>2. CASE WriteBlock(p)
  <2>1. /\ at[p] \in Nat \ {0} /\ data[p] \in Seq(Blocks) /\ at[p] <= Len(data[p])
        /\ Len(data[p]) <= longest /\ Len(data[p]) \in Nat
      BY <1>2 DEF WriteBlock, TypeOK, LengthInv, InFile
  <2>2. data[p][at[p]] \in Blocks
      BY <2>1, ElementOfData
  <2>3. Len(Written(content[n], at[p], data[p][at[p]])) <= longest
    <3>1. Len(Written(content[n], at[p], data[p][at[p]]))
             = IF at[p] > Len(content[n]) THEN at[p] ELSE Len(content[n])
        BY <1>1, <2>1, <2>2, PutIsWritten
    <3>2. at[p] <= longest
        BY <2>1
    <3> QED
        BY <1>1, <3>1, <3>2
  <2>4. content'[n] = content[n]
        \/ content'[n] = Written(content[n], at[p], data[p][at[p]])
      BY <1>2 DEF WriteBlock, TypeOK
  <2> QED
      BY <1>1, <2>3, <2>4
<1>3. CASE \E e \in Encodings, m \in Nodes : Create(p, e, m)
  <2>1. content'[n] = content[n] \/ content'[n] = <<>>
      BY <1>3 DEF Create, TypeOK
  <2> QED
      BY <1>1, <2>1
<1>4. ASSUME content' = content PROVE Len(content'[n]) <= longest
    BY <1>1, <1>4
<1>5. CASE (\E h \in Hashes : StartGet(p, h)) \/ Crash(p)
    BY <1>4, <1>5 DEF StartGet, Crash
<1>6. CASE ReadBlock(p) \/ EndRead(p) \/ CheckExists(p) \/ Remove(p)
           \/ Finish(p) \/ EndWrite(p) \/ WriteFails(p)
    BY <1>4, <1>6 DEF ReadBlock, EndRead, CheckExists, Remove, Finish, EndWrite,
       WriteFails
<1> QED
    BY <1>2, <1>3, <1>5, <1>6 DEF Step, Continue

(* There are steps left exactly while a call is under way.                  *)
LEMMA StepsAreLeft ==
    ASSUME TypeOK, NEW longest \in Nat, LengthInv(longest), NEW p \in Procs
    PROVE  /\ StepsLeft(p, longest) \in 0..(2 * longest + 5)
           /\ pc[p] # "idle" => StepsLeft(p, longest) > 0
<1>1. /\ at[p] \in Nat \ {0} /\ Len(data[p]) \in Nat
      /\ pc[p] \in {"reading", "failed", "removing", "hit", "missed", "writing", "idle"}
    BY DEF TypeOK
<1>2. InFile(p, longest)
    BY DEF LengthInv
<1>3. CASE pc[p] = "reading"
  <2>1. StepsLeft(p, longest) = 2 * longest + 6 - at[p] /\ at[p] <= longest + 1
      BY <1>2, <1>3 DEF InFile, StepsLeft
  <2> QED
      BY <1>1, <2>1
<1>4. CASE pc[p] = "writing"
  <2>1. StepsLeft(p, longest) = longest + 2 - at[p] /\ at[p] <= longest + 1
      BY <1>1, <1>2, <1>4 DEF InFile, StepsLeft
  <2> QED
      BY <1>1, <2>1
<1>5. CASE pc[p] \in {"failed", "removing", "hit", "missed", "idle"}
    BY <1>5 DEF StepsLeft
<1> QED
    BY <1>1, <1>3, <1>4, <1>5

(* A process moves on in its file or in its call.                           *)
LEMMA OwnStep ==
    ASSUME TypeOK, NEW longest \in Nat, LengthInv(longest),
           \A e \in Encodings : Len(e) <= longest,
           NEW p \in Procs, Step(p)
    PROVE  /\ InFile(p, longest)'
           /\ pc[p] = "idle" \/ StepsLeft(p, longest)' < StepsLeft(p, longest)
<1> USE DEF files, call, history, Goto, Hold, Buffer, Leave, InFile, StepsLeft
<1>1. /\ at[p] \in Nat \ {0} /\ data[p] \in Seq(Blocks) /\ InFile(p, longest)
      /\ Len(data[p]) \in Nat
    BY DEF TypeOK, LengthInv
<1>2. ASSUME NEW h \in Hashes, StartGet(p, h)
      PROVE  pc[p] = "idle" /\ InFile(p, longest)'
    BY <1>1, <1>2 DEF StartGet, TypeOK
<1>3. CASE ReadBlock(p)
  <2>1. file[p] \in Nodes /\ Len(content[file[p]]) <= longest
        /\ Len(content[file[p]]) \in Nat
      BY <1>3 DEF ReadBlock, TypeOK, LengthInv
  <2>2. /\ pc[p] = "reading" /\ pc'[p] = "reading" /\ at'[p] = at[p] + 1
        /\ at[p] <= longest
      BY <1>1, <1>3, <2>1 DEF ReadBlock, TypeOK
  <2> QED
      BY <1>1, <2>2
<1>4. CASE EndRead(p)
  <2>1. pc[p] = "reading" /\ pc'[p] \in {"hit", "failed"} /\ at'[p] = 1
      BY <1>4 DEF EndRead, TypeOK
  <2> QED
      BY <1>1, <2>1
<1>5. CASE CheckExists(p) \/ Remove(p)
  <2>1. /\ at'[p] = at[p]
        /\ \/ pc[p] = "failed" /\ pc'[p] \in {"missed", "removing"}
           \/ pc[p] = "removing" /\ pc'[p] = "missed"
      BY <1>5 DEF CheckExists, Remove, TypeOK
  <2> QED
      BY <1>1, <2>1
<1>6. ASSUME NEW e \in Encodings, NEW n \in Nodes, Create(p, e, n)
      PROVE  InFile(p, longest)' /\ StepsLeft(p, longest)' < StepsLeft(p, longest)
  <2>1. e \in Seq(Blocks) /\ Len(e) <= longest /\ Len(e) \in Nat
      BY CacheAssumption
  <2>2. pc[p] = "missed" /\ pc'[p] = "writing" /\ at'[p] = 1 /\ data'[p] = e
      BY <1>6 DEF Create, TypeOK
  <2> QED
      BY <2>1, <2>2
<1>7. CASE WriteBlock(p)
  <2>1. /\ pc[p] = "writing" /\ pc'[p] = "writing" /\ at'[p] = at[p] + 1
        /\ data'[p] = data[p] /\ at[p] <= Len(data[p])
      BY <1>7 DEF WriteBlock, TypeOK
  <2> QED
      BY <1>1, <2>1
<1>8. CASE Finish(p) \/ EndWrite(p) \/ WriteFails(p) \/ Crash(p)
  <2>1. pc'[p] = "idle" /\ at'[p] = 1
      BY <1>8 DEF Finish, EndWrite, WriteFails, Crash, Interrupted, TypeOK
  <2>2. pc[p] # "idle" => StepsLeft(p, longest) > 0
      BY StepsAreLeft
  <2> QED
      BY <2>1, <2>2
<1> QED
    BY <1>2, <1>3, <1>4, <1>5, <1>6, <1>7, <1>8 DEF Step, Continue

(* Both hold after every step.                                              *)
LEMMA StepProceeds ==
    ASSUME NEW longest \in Nat, \A e \in Encodings : Len(e) <= longest,
           TypeOK, LengthInv(longest), [Next]_vars
    PROVE  LengthInv(longest)' /\ [Proceeds(longest)]_vars
<1>1. CASE UNCHANGED vars
    BY <1>1 DEF vars, files, call, history, LengthInv, InFile
<1>2. ASSUME NEW p \in Procs, Step(p)
      PROVE  LengthInv(longest)' /\ Proceeds(longest)
  <2>1. \A q \in Procs \ {p} : Stays(q)
      BY <1>2, OthersStay
  <2>2. \A n \in Nodes : Len(content'[n]) <= longest
      BY <1>2, FilesStayShort
  <2>3. \A q \in Procs \ {p} : InFile(q, longest)'
      BY <2>1 DEF LengthInv, InFile, Stays
  <2>4. /\ InFile(p, longest)'
        /\ pc[p] = "idle" \/ StepsLeft(p, longest)' < StepsLeft(p, longest)
      BY <1>2, OwnStep
  <2> QED
      BY <2>1, <2>2, <2>3, <2>4 DEF LengthInv, Proceeds
<1> QED
    BY <1>1, <1>2 DEF Next, Step

(* A call of get and insert makes a bounded number of system calls, whatever*)
(* other processes do to its file meanwhile: it never goes back in a file,  *)
(* never looks at one twice, and does not insist on removing one            *)
(* (Cache::get, Cache::insert).                                             *)
THEOREM CallsAreShort ==
    ASSUME NEW longest \in Nat,
           \A s \in Encodings \cup Found : Len(s) <= longest
    PROVE  Spec => /\ [](\A p \in Procs : StepsLeft(p, longest) \in 0..(2 * longest + 5))
                   /\ [][Proceeds(longest)]_vars
<1>1. Init => LengthInv(longest)
  <2> SUFFICES ASSUME Init PROVE LengthInv(longest)
      OBVIOUS
  <2>1. \A n \in Nodes : content[n] \in Found \cup {<<>>}
      BY DEF Init
  <2>2. \A n \in Nodes : Len(content[n]) <= longest
      BY <2>1
  <2> QED
      BY <2>2 DEF Init, LengthInv, InFile
<1>2. TypeOK /\ LengthInv(longest)
      => \A p \in Procs : StepsLeft(p, longest) \in 0..(2 * longest + 5)
  <2> SUFFICES ASSUME TypeOK, LengthInv(longest), NEW p \in Procs
               PROVE  StepsLeft(p, longest) \in 0..(2 * longest + 5)
      OBVIOUS
  <2> QED
      BY StepsAreLeft
<1>3. TypeOK /\ LengthInv(longest) /\ [Next]_vars
      => LengthInv(longest)' /\ [Proceeds(longest)]_vars
    BY StepProceeds
<1> QED
    BY <1>1, <1>2, <1>3, DiskTyped, PTL DEF Spec
=============================================================================
