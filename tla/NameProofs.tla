------------------------------ MODULE NameProofs ------------------------------
(***************************************************************************)
(* Proofs about NameEnv: names and positions are inverse to one another in *)
(* every environment, and the two traversals therefore give back the       *)
(* expression they were given, or one that means the same.                 *)
(***************************************************************************)
EXTENDS NameEnv, FiniteSetTheorems, SequenceTheorems, TLAPS

-----------------------------------------------------------------------------
(* Lemmas about one environment.                                            *)

LEMMA NamedIsFinite ==
    ASSUME NEW s \in Seq(Labels), NEW x, NEW i
    PROVE  /\ IsFiniteSet(Named(s, x)) /\ IsFiniteSet(Inside(s, x, i))
           /\ count_named(s, x) \in Nat
           /\ Cardinality(Inside(s, x, i)) \in Nat
<1>1. Len(s) \in Nat
  OBVIOUS
<1>2. IsFiniteSet(0..(Len(s) - 1))
  BY <1>1, FS_Interval
<1>3. Named(s, x) \in SUBSET (0..(Len(s) - 1))
  BY DEF Named, Positions
<1>4. IsFiniteSet(Named(s, x))
  BY <1>2, <1>3, FS_Subset
<1>5. Inside(s, x, i) \in SUBSET Named(s, x)
  BY DEF Inside
<1>6. IsFiniteSet(Inside(s, x, i))
  BY <1>4, <1>5, FS_Subset
<1> QED
  BY <1>4, <1>6, FS_CardinalityType DEF count_named

(* Of two binders with one name the inner has fewer of them inside it.      *)
LEMMA InsideGrows ==
    ASSUME NEW s \in Seq(Labels), NEW x,
           NEW i \in Named(s, x), NEW j \in Named(s, x), i < j
    PROVE  Cardinality(Inside(s, x, i)) < Cardinality(Inside(s, x, j))
<1>1. i \in Nat /\ j \in Nat
  BY DEF Named, Positions
<1>2. Inside(s, x, i) \in SUBSET Inside(s, x, j)
  BY <1>1 DEF Inside, Named, Positions
<1>3. i \in Inside(s, x, j) /\ i \notin Inside(s, x, i)
  BY <1>1 DEF Inside
<1>4. /\ IsFiniteSet(Inside(s, x, j))
      /\ Cardinality(Inside(s, x, i)) \in Nat
      /\ Cardinality(Inside(s, x, j)) \in Nat
  BY NamedIsFinite
<1>5. /\ Cardinality(Inside(s, x, i)) <= Cardinality(Inside(s, x, j))
      /\ Cardinality(Inside(s, x, j)) = Cardinality(Inside(s, x, i))
            => Inside(s, x, j) = Inside(s, x, i)
  BY <1>2, <1>4, FS_Subset
<1> QED
  BY <1>3, <1>4, <1>5

(* A name with an index is the name of one binder at most.                  *)
LEMMA OneCandidate ==
    ASSUME NEW s \in Seq(Labels), NEW x, NEW n,
           NEW i \in Candidates(s, x, n), NEW j \in Candidates(s, x, n)
    PROVE  i = j
<1>1. /\ i \in Named(s, x) /\ j \in Named(s, x)
      /\ Cardinality(Inside(s, x, i)) = n /\ Cardinality(Inside(s, x, j)) = n
  BY DEF Candidates
<1>2. i \in Nat /\ j \in Nat
  BY <1>1 DEF Named, Positions
<1>3. n \in Nat
  BY <1>1, NamedIsFinite
<1>4. ~(i < j)
  BY <1>1, <1>3, InsideGrows
<1>5. ~(j < i)
  BY <1>1, <1>3, InsideGrows
<1> QED
  BY <1>2, <1>4, <1>5

(* What unlabel_var finds is in range and has the name.                     *)
LEMMA UnlabelInRange ==
    ASSUME NEW s \in Seq(Labels), NEW x, NEW n, Candidates(s, x, n) # {}
    PROVE  /\ unlabel_var(s, x, n) \in Candidates(s, x, n)
           /\ unlabel_var(s, x, n) \in Positions(s)
  BY DEF unlabel_var, Candidates, Named

(* unlabel_var undoes label_var: no position is lost in a name.             *)
THEOREM UnlabelUndoesLabel ==
    ASSUME NEW s \in Seq(Labels), NEW i \in Positions(s)
    PROVE  LET v == label_var(s, i) IN
           /\ v.name \in Labels /\ v.idx \in Nat
           /\ Candidates(s, v.name, v.idx) # {}
           /\ unlabel_var(s, v.name, v.idx) = i
<1> DEFINE x == NameAt(s, i)
           n == Cardinality(Inside(s, x, i))
<1>1. label_var(s, i).name = x /\ label_var(s, i).idx = n
  BY DEF label_var, Var
<1>2. x \in Labels
  <2>1. Len(s) - i \in 1..Len(s)
    BY DEF Positions
  <2> QED
    BY <2>1, ElementOfSeq DEF NameAt
<1>3. n \in Nat
  BY NamedIsFinite
<1>4. i \in Candidates(s, x, n)
  BY DEF Candidates, Named
<1>5. unlabel_var(s, x, n) \in Candidates(s, x, n)
  BY <1>4, UnlabelInRange
<1>6. unlabel_var(s, x, n) = i
  BY <1>4, <1>5, OneCandidate
<1> QED
  BY <1>1, <1>2, <1>3, <1>4, <1>6

(* label_var undoes unlabel_var: a variable that is bound comes back with   *)
(* the name and the index it was written with.                              *)
THEOREM LabelUndoesUnlabel ==
    ASSUME NEW s \in Seq(Labels), NEW x, NEW n, Candidates(s, x, n) # {}
    PROVE  label_var(s, unlabel_var(s, x, n)) = Var(x, n)
<1> DEFINE i == unlabel_var(s, x, n)
<1>1. i \in Candidates(s, x, n)
  BY UnlabelInRange
<1>2. NameAt(s, i) = x /\ Cardinality(Inside(s, x, i)) = n
  BY <1>1 DEF Candidates, Named
<1> QED
  BY <1>2 DEF label_var

LEMMA AllButOne ==
    ASSUME NEW c \in Nat, NEW n \in 0..(c - 1)
    PROVE  /\ IsFiniteSet((0..(c - 1)) \ {n})
           /\ Cardinality((0..(c - 1)) \ {n}) = c - 1
<1>1. IsFiniteSet(0..(c - 1)) /\ Cardinality(0..(c - 1)) = c
  BY FS_Interval
<1> QED
  BY <1>1, FS_RemoveElement

(* An index below the number of binders with the name finds one of them: if *)
(* none had exactly n others inside, the numbers of others inside, all      *)
(* different, would be too few for the binders.                             *)
LEMMA SmallIndexIsBound ==
    ASSUME NEW s \in Seq(Labels), NEW x, NEW n \in Nat, n < count_named(s, x)
    PROVE  Candidates(s, x, n) # {}
<1> DEFINE S == Named(s, x)
           c == Cardinality(S)
           T == (0..(c - 1)) \ {n}
           f == [i \in S |-> Cardinality(Inside(s, x, i))]
<1>1. IsFiniteSet(S) /\ c \in Nat /\ c = count_named(s, x)
  BY NamedIsFinite DEF count_named
<1>2. n \in 0..(c - 1)
  BY <1>1
<1>3. IsFiniteSet(T) /\ Cardinality(T) = c - 1
  <2> HIDE DEF c
  <2> QED
    BY <1>1, <1>2, AllButOne
<1>4. SUFFICES ASSUME Candidates(s, x, n) = {} PROVE FALSE
  OBVIOUS
<1>5. ASSUME NEW i \in S PROVE f[i] \in T
  <2>1. i \in Named(s, x) /\ Inside(s, x, i) \in SUBSET S /\ i \notin Inside(s, x, i)
    <3>1. i \in Nat
      BY <1>5 DEF Named, Positions
    <3> QED
      BY <1>5, <3>1 DEF Inside
  <2>2. Cardinality(Inside(s, x, i)) \in Nat
    BY NamedIsFinite
  <2>3. /\ Cardinality(Inside(s, x, i)) <= c
        /\ c = Cardinality(Inside(s, x, i)) => S = Inside(s, x, i)
    BY <1>1, <2>1, FS_Subset
  <2>4. Cardinality(Inside(s, x, i)) # n
    BY <1>4, <2>1 DEF Candidates
  <2> QED
    BY <1>1, <2>1, <2>2, <2>3, <2>4
<1>6. f \in [S -> T]
  BY <1>5
<1>7. PICK i \in S, j \in S : i # j /\ f[i] = f[j]
  <2> HIDE DEF S, T, f
  <2>1. Cardinality(T) < Cardinality(S)
    BY <1>1, <1>3 DEF S
  <2> QED
    BY <1>1, <1>3, <1>6, <2>1, FS_PigeonHole
<1>8. i \in Nat /\ j \in Nat
  BY DEF Named, Positions
<1>9. f[i] \in Nat /\ f[j] \in Nat
  BY NamedIsFinite
<1>10. CASE i < j
  BY <1>7, <1>9, <1>10, InsideGrows
<1>11. CASE j < i
  BY <1>7, <1>9, <1>11, InsideGrows
<1> QED
  BY <1>7, <1>8, <1>10, <1>11

-----------------------------------------------------------------------------
(* The two traversals.  `After` is what a token does to the environment.    *)

After(s, token) ==
    CASE token.tag = "Open" -> Append(s, token.name)
      [] token.tag = "Close" -> Removed(s)
      [] OTHER -> s

SourceToken ==
    {Closing} \cup {Opening(b, x) : b \in Binders, x \in Labels}
              \cup {Var(x, n) : x \in Labels, n \in Nat}
HirToken ==
    {Closing} \cup {Opening(b, x) : b \in Binders, x \in Labels}
              \cup {Missing(x, n) : x \in Labels, n \in Nat}
              \cup {Bound(i) : i \in Nat}

Shapes ==
    /\ phase \in {"resolve", "print", "done"} /\ alpha \in BOOLEAN
    /\ source \in Seq(SourceToken) /\ hir \in Seq(HirToken)
    /\ printed \in Seq(SourceToken)
    /\ names \in Seq(Labels) /\ reader \in Seq(Labels) /\ bodies \in Nat
    /\ scopes \in Seq(Seq(Labels))

(* What the first traversal makes of each token, and the environments it    *)
(* makes it in.                                                             *)
TurnedInto(scope, token, node) ==
    \/ node = Closing /\ token = Closing /\ scope # <<>>
    \/ \E b \in Binders, x \in Labels :
          node = Opening(b, x) /\ token = Opening(b, x)
    \/ \E x \in Labels, n \in Indices :
          /\ token = Var(x, n)
          /\ node = IF Candidates(scope, x, n) = {} THEN Missing(x, n)
                    ELSE Bound(unlabel_var(scope, x, n))
Traversed ==
    /\ Len(hir) = Len(source) /\ Len(scopes) = Len(source)
    /\ \A k \in 1..Len(hir) : TurnedInto(scopes[k], source[k], hir[k])
    /\ Len(hir) > 0 => scopes[1] = <<>>
    /\ \A k \in 1..(Len(hir) - 1) : scopes[k + 1] = After(scopes[k], hir[k])

(* The environment of the traversal under way.                              *)
Resolving ==
    phase = "resolve" =>
        /\ printed = <<>> /\ reader = <<>>
        /\ bodies = Len(names)
        /\ names = IF Len(hir) = 0 THEN <<>>
                   ELSE After(scopes[Len(hir)], hir[Len(hir)])
Rendering ==
    phase # "resolve" =>
        /\ Len(printed) <= Len(hir) /\ Len(reader) = Len(names)
        /\ phase = "print" /\ Len(printed) < Len(hir)
              => names = scopes[Len(printed) + 1]

(* What has been printed, and the names a reader of it has in scope.        *)
Plainly ==
    ~alpha => /\ phase # "resolve" => reader = names
              /\ \A k \in 1..Len(printed) : printed[k] = source[k]
AllUnderscore(n) == [i \in 1..n |-> Underscore]
Renamed ==
    alpha /\ Renamable /\ phase # "resolve" =>
        reader = AllUnderscore(Len(names))

NameInv ==
    /\ Shapes /\ Traversed /\ Resolving /\ Rendering /\ Plainly /\ Renamed

LEMMA InitEstablishes == Init => NameInv
  BY DEF Init, NameInv, Shapes, Traversed, Resolving, Rendering, Plainly,
         Renamed

LEMMA Appended ==
    ASSUME NEW S, NEW s \in Seq(S), NEW e \in S
    PROVE  /\ Append(s, e) \in Seq(S) /\ Len(Append(s, e)) = Len(s) + 1
           /\ Append(s, e)[Len(s) + 1] = e
           /\ \A k \in 1..Len(s) : Append(s, e)[k] = s[k]
           /\ Append(s, e) # <<>>
  OBVIOUS

LEMMA RemovedIsSeq ==
    ASSUME NEW S, NEW s \in Seq(S), s # <<>>
    PROVE  /\ Removed(s) \in Seq(S) /\ Len(Removed(s)) = Len(s) - 1
           /\ \A k \in 1..(Len(s) - 1) : Removed(s)[k] = s[k]
<1>1. PICK m \in Nat : Len(s) = m + 1
  <2>1. Len(s) \in Nat /\ Len(s) > 0
    BY EmptySeq
  <2> QED
    BY <2>1
<1>2. Removed(s) = SubSeq(s, 1, m)
  BY <1>1 DEF Removed
<1>3. \A i \in 1..m : s[i] \in S
  BY <1>1
<1>4. /\ SubSeq(s, 1, m) \in Seq(S)
      /\ Len(SubSeq(s, 1, m)) = IF 1 <= m THEN m - 1 + 1 ELSE 0
      /\ \A i \in 1..(m - 1 + 1) : SubSeq(s, 1, m)[i] = s[1 + i - 1]
  BY <1>3, SubSeqProperties
<1> QED
  BY <1>1, <1>2, <1>4

(* A step of the first traversal.                                           *)
LEMMA TraverseKeeps ==
    ASSUME NameInv, NEW t \in SourceToken, NEW r \in HirToken,
           Traverse(t, r), TurnedInto(names, t, r),
           names' = After(names, r), names' \in Seq(Labels),
           bodies' = Len(names')
    PROVE  NameInv'
<1> DEFINE n == Len(hir)
<1>1. /\ phase = "resolve" /\ phase' = "resolve" /\ alpha' = alpha
      /\ source' = Append(source, t) /\ hir' = Append(hir, r)
      /\ scopes' = Append(scopes, names)
      /\ printed' = printed /\ reader' = reader
      /\ printed = <<>> /\ reader = <<>>
  BY DEF Traverse, NameInv, Resolving
<1>2. /\ source \in Seq(SourceToken) /\ hir \in Seq(HirToken)
      /\ scopes \in Seq(Seq(Labels)) /\ names \in Seq(Labels)
      /\ n \in Nat /\ Len(source) = n /\ Len(scopes) = n
  BY DEF NameInv, Shapes, Traversed
<1>3. /\ source' \in Seq(SourceToken) /\ Len(source') = n + 1
      /\ source'[n + 1] = t /\ \A k \in 1..n : source'[k] = source[k]
  BY <1>1, <1>2, Appended
<1>4. /\ hir' \in Seq(HirToken) /\ Len(hir') = n + 1
      /\ hir'[n + 1] = r /\ \A k \in 1..n : hir'[k] = hir[k]
  BY <1>1, <1>2, Appended
<1>5. /\ scopes' \in Seq(Seq(Labels)) /\ Len(scopes') = n + 1
      /\ scopes'[n + 1] = names /\ \A k \in 1..n : scopes'[k] = scopes[k]
  BY <1>1, <1>2, Appended
<1>6. Shapes'
  BY <1>1, <1>3, <1>4, <1>5 DEF Shapes, NameInv
<1>7. names = IF n = 0 THEN <<>> ELSE After(scopes[n], hir[n])
  BY <1>1 DEF NameInv, Resolving
<1>8. Traversed'
  <2>1. ASSUME NEW k \in 1..(n + 1)
        PROVE  TurnedInto(scopes'[k], source'[k], hir'[k])
    <3>1. CASE k = n + 1
      BY <1>3, <1>4, <1>5, <3>1
    <3>2. CASE k \in 1..n
      BY <1>3, <1>4, <1>5, <3>2 DEF NameInv, Traversed
    <3> QED
      BY <1>2, <3>1, <3>2
  <2>2. scopes'[1] = <<>>
    <3>1. CASE n = 0
      BY <1>5, <1>7, <3>1
    <3>2. CASE n > 0
      <4>1. scopes'[1] = scopes[1]
        BY <1>2, <1>5, <3>2
      <4> QED
        BY <3>2, <4>1 DEF NameInv, Traversed
    <3> QED
      BY <1>2, <3>1, <3>2
  <2>3. ASSUME NEW k \in 1..n
        PROVE  scopes'[k + 1] = After(scopes'[k], hir'[k])
    <3>1. CASE k = n
      BY <1>2, <1>4, <1>5, <1>7, <3>1
    <3>2. CASE k \in 1..(n - 1)
      BY <1>2, <1>4, <1>5, <3>2 DEF NameInv, Traversed
    <3> QED
      BY <1>2, <3>1, <3>2
  <2> QED
    BY <1>2, <1>3, <1>4, <1>5, <2>1, <2>2, <2>3 DEF Traversed
<1>9. Resolving'
  BY <1>1, <1>2, <1>4, <1>5 DEF Resolving
<1>10. Rendering' /\ Plainly' /\ Renamed'
  BY <1>1 DEF Rendering, Plainly, Renamed
<1> QED
  BY <1>6, <1>8, <1>9, <1>10 DEF NameInv

(* A step of the second.                                                    *)
LEMMA PrintKeeps ==
    ASSUME NameInv, phase = "print", At <= Len(hir), NEW t \in SourceToken,
           PrintToken(t), names' = After(names, hir[At]), names' \in Seq(Labels),
           reader' \in Seq(Labels), Len(reader') = Len(names'),
           ~alpha => t = source[At] /\ reader' = names',
           alpha /\ Renamable => reader' = AllUnderscore(Len(names'))
    PROVE  NameInv'
<1> DEFINE n == Len(printed)
<1>1. /\ phase' = phase /\ alpha' = alpha /\ source' = source /\ hir' = hir
      /\ bodies' = bodies /\ scopes' = scopes
      /\ printed' = Append(printed, t)
  BY DEF PrintToken
<1>2. n \in Nat /\ printed \in Seq(SourceToken) /\ At = n + 1
  BY DEF NameInv, Shapes, At
<1>3. /\ printed' \in Seq(SourceToken) /\ Len(printed') = n + 1
      /\ printed'[n + 1] = t /\ \A k \in 1..n : printed'[k] = printed[k]
  BY <1>1, <1>2, Appended
<1>4. Shapes'
  BY <1>1, <1>3 DEF Shapes, NameInv
<1>5. Traversed' /\ Resolving'
  BY <1>1 DEF NameInv, Traversed, Resolving
<1>6. names = scopes[n + 1]
  BY <1>2 DEF NameInv, Rendering, At
<1>7. Rendering'
  <2>1. ASSUME n + 1 < Len(hir) PROVE names' = scopes[n + 2]
    <3>1. n + 1 \in 1..(Len(hir) - 1) /\ Len(hir) \in Nat
      BY <1>2, <2>1 DEF NameInv, Shapes
    <3>2. scopes[(n + 1) + 1] = After(scopes[n + 1], hir[n + 1])
      BY <3>1 DEF NameInv, Traversed
    <3> QED
      BY <1>2, <1>6, <3>2
  <2> QED
    BY <1>1, <1>2, <1>3, <2>1 DEF Rendering
<1>8. Plainly'
  <2>1. ASSUME ~alpha, NEW k \in 1..(n + 1) PROVE printed'[k] = source[k]
    BY <1>2, <1>3, <2>1 DEF NameInv, Plainly
  <2> QED
    BY <1>1, <1>3, <2>1 DEF Plainly
<1>9. Renamed'
  BY <1>1 DEF Renamed, Renamable
<1> QED
  BY <1>4, <1>5, <1>7, <1>8, <1>9 DEF NameInv

-----------------------------------------------------------------------------
(* What each step does to the tokens.                                       *)

LEMMA EnterKeeps ==
    ASSUME NameInv, NEW b \in Binders, NEW x \in Labels, Enter(b, x)
    PROVE  NameInv'
<1> DEFINE t == Opening(b, x)
<1>1. t \in SourceToken /\ t \in HirToken
  BY DEF SourceToken, HirToken
<1>2. Traverse(t, t) /\ names' = Append(names, x) /\ bodies' = bodies + 1
  BY DEF Enter
<1>3. After(names, t) = Append(names, x)
  BY DEF After, Opening
<1>4. names \in Seq(Labels) /\ bodies = Len(names)
  BY <1>2 DEF NameInv, Shapes, Resolving, Traverse
<1>5. names' \in Seq(Labels) /\ Len(names') = bodies'
  BY <1>2, <1>4
<1>6. TurnedInto(names, t, t)
  BY DEF TurnedInto
<1> QED
  BY <1>1, <1>2, <1>3, <1>5, <1>6, TraverseKeeps

LEMMA LeaveKeeps ==
    ASSUME NameInv, Leave
    PROVE  NameInv'
<1>1. Closing \in SourceToken /\ Closing \in HirToken
  BY DEF SourceToken, HirToken
<1>2. /\ Traverse(Closing, Closing)
      /\ names' = Removed(names) /\ bodies' = bodies - 1 /\ bodies > 0
  BY DEF Leave
<1>3. After(names, Closing) = Removed(names)
  BY DEF After, Closing
<1>4. names \in Seq(Labels) /\ bodies = Len(names) /\ names # <<>>
  BY <1>2 DEF NameInv, Shapes, Resolving, Traverse
<1>5. names' \in Seq(Labels) /\ Len(names') = bodies'
  BY <1>2, <1>4, RemovedIsSeq
<1>6. TurnedInto(names, Closing, Closing)
  BY <1>4 DEF TurnedInto
<1> QED
  BY <1>1, <1>2, <1>3, <1>5, <1>6, TraverseKeeps

LEMMA UseVarKeeps ==
    ASSUME NameInv, NEW x \in Labels, NEW n \in Indices, UseVar(x, n)
    PROVE  NameInv'
<1> DEFINE r == Resolve(x, n)
<1>1. Traverse(Var(x, n), r) /\ names' = names /\ bodies' = bodies
  BY DEF UseVar
<1>2. n \in Nat
  BY NameAssumption
<1>3. names \in Seq(Labels) /\ bodies = Len(names)
  BY <1>1 DEF NameInv, Shapes, Resolving, Traverse
<1>4. r = IF Candidates(names, x, n) = {} THEN Missing(x, n)
          ELSE Bound(unlabel_var(names, x, n))
  BY DEF Resolve
<1>5. r \in HirToken
  <2>1. CASE Candidates(names, x, n) = {}
    BY <1>2, <1>4, <2>1 DEF HirToken
  <2>2. CASE Candidates(names, x, n) # {}
    <3>1. unlabel_var(names, x, n) \in Nat
      BY <1>3, <2>2, UnlabelInRange DEF Positions
    <3> QED
      BY <1>4, <2>2, <3>1 DEF HirToken
  <2> QED
    BY <2>1, <2>2
<1>6. After(names, r) = names
  BY <1>4 DEF After, Missing, Bound
<1>7. Var(x, n) \in SourceToken
  BY <1>2 DEF SourceToken
<1>8. TurnedInto(names, Var(x, n), r)
  BY <1>4 DEF TurnedInto
<1> HIDE DEF r
<1> QED
  BY <1>1, <1>3, <1>5, <1>6, <1>7, <1>8, TraverseKeeps

LEMMA StartKeeps ==
    ASSUME NameInv, StartPrinting
    PROVE  NameInv'
<1>1. /\ phase' = "print" /\ names' = <<>>
      /\ UNCHANGED <<alpha, source, hir, printed, bodies, scopes, reader>>
      /\ printed = <<>> /\ reader = <<>>
  BY DEF StartPrinting, NameInv, Resolving
<1>2. Len(hir) > 0 => scopes[1] = <<>>
  BY DEF NameInv, Traversed
<1> QED
  BY <1>1, <1>2 DEF NameInv, Shapes, Traversed, Resolving, Rendering,
                    Plainly, Renamed, Renamable, AllUnderscore

LEMMA FinishKeeps ==
    ASSUME NameInv, Finish
    PROVE  NameInv'
  BY DEF Finish, NameInv, Shapes, Traversed, Resolving, Rendering, Plainly,
         Renamed, Renamable

(* The tag of a node tells what it came from.                               *)
LEMMA TurnedTags ==
    ASSUME NEW scope, NEW token, NEW node, TurnedInto(scope, token, node)
    PROVE  /\ node.tag = "Open" => \E b \in Binders, x \in Labels :
                 node = Opening(b, x) /\ token = Opening(b, x)
           /\ node.tag = "Close" =>
                 node = Closing /\ token = Closing /\ scope # <<>>
           /\ node.tag = "Bound" => \E x \in Labels, n \in Indices :
                 /\ Candidates(scope, x, n) # {} /\ token = Var(x, n)
                 /\ node = Bound(unlabel_var(scope, x, n))
           /\ node.tag = "Missing" => \E x \in Labels, n \in Indices :
                 /\ Candidates(scope, x, n) = {} /\ token = Var(x, n)
                 /\ node = Missing(x, n)
<1>1. CASE node = Closing /\ token = Closing /\ scope # <<>>
  <2>1. node.tag = "Close"
    BY <1>1 DEF Closing
  <2> QED
    BY <1>1, <2>1
<1>2. ASSUME NEW b \in Binders, NEW x \in Labels,
             node = Opening(b, x), token = Opening(b, x)
      PROVE  node.tag = "Open"
  BY <1>2 DEF Opening
<1>3. ASSUME NEW x \in Labels, NEW n \in Indices,
             Candidates(scope, x, n) = {}, node = Missing(x, n)
      PROVE  node.tag = "Missing"
  BY <1>3 DEF Missing
<1>4. ASSUME NEW x \in Labels, NEW n \in Indices,
             node = Bound(unlabel_var(scope, x, n))
      PROVE  node.tag = "Bound"
  BY <1>4 DEF Bound
<1>5. CASE \E b \in Binders, x \in Labels :
              node = Opening(b, x) /\ token = Opening(b, x)
  <2>1. node.tag = "Open"
    BY <1>2, <1>5
  <2> QED
    BY <1>5, <2>1
<1>6. CASE \E x \in Labels, n \in Indices :
              /\ token = Var(x, n)
              /\ node = IF Candidates(scope, x, n) = {} THEN Missing(x, n)
                        ELSE Bound(unlabel_var(scope, x, n))
  <2>1. PICK x \in Labels, n \in Indices :
              /\ token = Var(x, n)
              /\ node = IF Candidates(scope, x, n) = {} THEN Missing(x, n)
                        ELSE Bound(unlabel_var(scope, x, n))
    BY <1>6
  <2>2. CASE Candidates(scope, x, n) = {}
    <3>1. node = Missing(x, n) /\ node.tag = "Missing"
      BY <1>3, <2>1, <2>2
    <3> QED
      BY <2>1, <2>2, <3>1
  <2>3. CASE Candidates(scope, x, n) # {}
    <3>1. node = Bound(unlabel_var(scope, x, n)) /\ node.tag = "Bound"
      BY <1>4, <2>1, <2>3
    <3> QED
      BY <2>1, <2>3, <3>1
  <2> QED
    BY <2>2, <2>3
<1> QED
  BY <1>1, <1>5, <1>6 DEF TurnedInto

LEMMA FromFree ==
    ASSUME NEW scope, NEW token, NEW node, TurnedInto(scope, token, node),
           node.tag = "Missing"
    PROVE  \E x \in Labels, n \in Indices :
              /\ Candidates(scope, x, n) = {} /\ token = Var(x, n)
              /\ node = Missing(x, n)
<1>1. node.tag = "Missing" => \E x \in Labels, n \in Indices :
              /\ Candidates(scope, x, n) = {} /\ token = Var(x, n)
              /\ node = Missing(x, n)
  BY TurnedTags
<1> QED
  BY <1>1

LEMMA NodeAtHand ==
    ASSUME NameInv, phase = "print", At <= Len(hir)
    PROVE  /\ At \in 1..Len(hir)
           /\ TurnedInto(names, source[At], hir[At])
           /\ names = scopes[At] /\ names \in Seq(Labels)
           /\ reader \in Seq(Labels) /\ Len(reader) = Len(names)
<1>1. At \in 1..Len(hir) /\ At = Len(printed) + 1
  BY DEF NameInv, Shapes, At
<1>2. names = scopes[At]
  BY <1>1 DEF NameInv, Rendering
<1> QED
  BY <1>1, <1>2 DEF NameInv, Shapes, Traversed, Rendering

LEMMA Underscores ==
    ASSUME NEW n \in Nat
    PROVE  /\ AllUnderscore(n) \in Seq(Labels) /\ Len(AllUnderscore(n)) = n
           /\ Append(AllUnderscore(n), Underscore) = AllUnderscore(n + 1)
           /\ n > 0 => Removed(AllUnderscore(n)) = AllUnderscore(n - 1)
<1>1. AllUnderscore(n) \in Seq(Labels) /\ Len(AllUnderscore(n)) = n
  BY NameAssumption DEF AllUnderscore
<1>2. Append(AllUnderscore(n), Underscore) = AllUnderscore(n + 1)
  BY <1>1 DEF AllUnderscore
<1>3. ASSUME n > 0 PROVE Removed(AllUnderscore(n)) = AllUnderscore(n - 1)
  <2>1. PICK m \in Nat : n = m + 1
    BY <1>3
  <2>2. Removed(AllUnderscore(n)) = SubSeq(AllUnderscore(n), 1, m)
    BY <1>1, <2>1 DEF Removed
  <2>3. \A i \in 1..m : AllUnderscore(n)[i] = Underscore
    BY <2>1 DEF AllUnderscore
  <2>4. SubSeq(AllUnderscore(n), 1, m) = AllUnderscore(m)
    BY <2>1, <2>3 DEF AllUnderscore
  <2> QED
    BY <2>1, <2>2, <2>4
<1> QED
  BY <1>1, <1>2, <1>3

LEMMA PrintOpeningKeeps ==
    ASSUME NameInv, PrintOpening
    PROVE  NameInv'
<1>1. /\ phase = "print" /\ At <= Len(hir) /\ hir[At].tag = "Open"
      /\ names' = Append(names, hir[At].name)
  BY DEF PrintOpening, Printing
<1>2. PICK b \in Binders, x \in Labels :
        hir[At] = Opening(b, x) /\ source[At] = Opening(b, x)
  BY <1>1, NodeAtHand, TurnedTags
<1> DEFINE y == PrintedName(b, x)
           t == Opening(b, y)
<1>3. hir[At].binder = b /\ hir[At].name = x
  BY <1>2 DEF Opening
<1>4. PrintToken(t) /\ reader' = Append(reader, y) /\ names' = Append(names, x)
  BY <1>1, <1>3 DEF PrintOpening
<1>5. y \in Labels /\ (~alpha => y = x)
  BY NameAssumption DEF PrintedName
<1>6. t \in SourceToken
  BY <1>5 DEF SourceToken
<1>7. After(names, hir[At]) = Append(names, x)
  BY <1>1, <1>3 DEF After
<1>8. /\ names \in Seq(Labels) /\ reader \in Seq(Labels)
      /\ Len(reader) = Len(names)
  BY <1>1, NodeAtHand
<1>9. /\ names' \in Seq(Labels) /\ reader' \in Seq(Labels)
      /\ Len(names') = Len(names) + 1 /\ Len(reader') = Len(names')
  BY <1>4, <1>5, <1>8
<1>10. ASSUME ~alpha PROVE t = source[At] /\ reader' = names'
  <2>1. reader = names
    BY <1>1, <1>10 DEF NameInv, Plainly
  <2> QED
    BY <1>2, <1>4, <1>5, <1>10, <2>1
<1>11. ASSUME alpha, Renamable PROVE reader' = AllUnderscore(Len(names'))
  <2>1. reader = AllUnderscore(Len(names))
    BY <1>1, <1>11 DEF NameInv, Renamed
  <2>2. At \in DOMAIN hir
    BY <1>1, NodeAtHand DEF NameInv, Shapes
  <2>3. b # "Let"
    BY <1>1, <1>3, <1>11, <2>2 DEF Renamable
  <2>4. y = Underscore
    BY <1>11, <2>3 DEF PrintedName, Binders
  <2>5. Len(names) \in Nat
    BY <1>8
  <2> QED
    BY <1>4, <1>9, <2>1, <2>4, <2>5, Underscores
<1> HIDE DEF t, y
<1> QED
  BY <1>1, <1>4, <1>6, <1>7, <1>9, <1>10, <1>11, PrintKeeps

LEMMA PrintClosingKeeps ==
    ASSUME NameInv, PrintClosing
    PROVE  NameInv'
<1>1. /\ phase = "print" /\ At <= Len(hir) /\ hir[At].tag = "Close"
      /\ PrintToken(Closing)
      /\ names' = Removed(names) /\ reader' = Removed(reader)
  BY DEF PrintClosing, Printing
<1>2. hir[At] = Closing /\ source[At] = Closing /\ names # <<>>
  BY <1>1, NodeAtHand, TurnedTags
<1>3. Closing \in SourceToken
  BY DEF SourceToken
<1>4. After(names, hir[At]) = Removed(names)
  BY <1>1 DEF After
<1>5. /\ names \in Seq(Labels) /\ reader \in Seq(Labels)
      /\ Len(reader) = Len(names) /\ Len(names) > 0 /\ reader # <<>>
      /\ Len(names) \in Nat
  BY <1>1, <1>2, NodeAtHand, EmptySeq
<1>6. /\ names' \in Seq(Labels) /\ reader' \in Seq(Labels)
      /\ Len(names') = Len(names) - 1 /\ Len(reader') = Len(names')
  BY <1>1, <1>2, <1>5, RemovedIsSeq
<1>7. ASSUME ~alpha PROVE Closing = source[At] /\ reader' = names'
  BY <1>1, <1>2, <1>7 DEF NameInv, Plainly
<1>8. ASSUME alpha, Renamable PROVE reader' = AllUnderscore(Len(names'))
  <2>1. reader = AllUnderscore(Len(names))
    BY <1>1, <1>8 DEF NameInv, Renamed
  <2> QED
    BY <1>1, <1>5, <1>6, <2>1, Underscores
<1> QED
  BY <1>1, <1>3, <1>4, <1>6, <1>7, <1>8, PrintKeeps

(* Printing a variable leaves both environments alone.                      *)
LEMMA PrintVarKeeps ==
    ASSUME NameInv, phase = "print", At <= Len(hir), NEW t \in SourceToken,
           PrintToken(t), UNCHANGED <<names, reader>>,
           hir[At].tag \in {"Bound", "Missing"}, ~alpha => t = source[At]
    PROVE  NameInv'
<1>1. After(names, hir[At]) = names
  BY DEF After
<1>2. /\ names \in Seq(Labels) /\ reader \in Seq(Labels)
      /\ Len(reader) = Len(names)
  BY NodeAtHand
<1>3. ~alpha => reader = names
  BY DEF NameInv, Plainly
<1>4. alpha /\ Renamable => reader = AllUnderscore(Len(names))
  BY DEF NameInv, Renamed
<1> QED
  BY <1>1, <1>2, <1>3, <1>4, PrintKeeps

LEMMA PrintBoundKeeps ==
    ASSUME NameInv, PrintBound
    PROVE  NameInv'
<1>1. /\ phase = "print" /\ At <= Len(hir) /\ hir[At].tag = "Bound"
      /\ UNCHANGED <<names, reader>>
  BY DEF PrintBound, Printing
<1>2. PICK x \in Labels, n \in Indices :
        /\ Candidates(names, x, n) # {} /\ source[At] = Var(x, n)
        /\ hir[At] = Bound(unlabel_var(names, x, n))
  BY <1>1, NodeAtHand, TurnedTags
<1>3. hir[At].pos = unlabel_var(names, x, n)
  BY <1>2 DEF Bound
<1>4. names \in Seq(Labels) /\ n \in Nat
  BY <1>1, NodeAtHand, NameAssumption
<1>5. hir[At].pos \in Nat
  BY <1>2, <1>3, <1>4, UnlabelInRange DEF Positions
<1>6. label_var(names, hir[At].pos) = Var(x, n)
  BY <1>2, <1>3, <1>4, LabelUndoesUnlabel
<1> DEFINE t == IF alpha THEN Var(Underscore, hir[At].pos) ELSE Var(x, n)
<1>7. PrintToken(t)
  BY <1>6 DEF PrintBound
<1>8. t \in SourceToken
  BY <1>4, <1>5, NameAssumption DEF SourceToken
<1>9. ~alpha => t = source[At]
  BY <1>2
<1> HIDE DEF t
<1> QED
  BY <1>1, <1>7, <1>8, <1>9, PrintVarKeeps

LEMMA PrintMissingKeeps ==
    ASSUME NameInv, PrintMissing
    PROVE  NameInv'
<1>1. /\ phase = "print" /\ At <= Len(hir) /\ hir[At].tag = "Missing"
      /\ UNCHANGED <<names, reader>>
  BY DEF PrintMissing, Printing
<1>2. PICK x \in Labels, n \in Indices :
        /\ Candidates(names, x, n) = {} /\ source[At] = Var(x, n)
        /\ hir[At] = Missing(x, n)
  <2>1. TurnedInto(names, source[At], hir[At])
    BY <1>1, NodeAtHand
  <2> QED
    BY <1>1, <2>1, FromFree
<1>3. hir[At].name = x /\ hir[At].idx = n
  BY <1>2 DEF Missing
<1>4. names \in Seq(Labels) /\ n \in Nat
  BY <1>1, NodeAtHand, NameAssumption
<1>5. FreeIndex(x, n) \in Nat /\ (~alpha => FreeIndex(x, n) = n)
  <2>1. count_named(names, x) \in Nat
    BY <1>4, NamedIsFinite
  <2> QED
    BY <1>4, <2>1 DEF FreeIndex, SaturatingSub
<1>6. PrintToken(Var(x, FreeIndex(x, n)))
  BY <1>3 DEF PrintMissing
<1>7. Var(x, FreeIndex(x, n)) \in SourceToken
  BY <1>5 DEF SourceToken
<1> QED
  BY <1>1, <1>2, <1>5, <1>6, <1>7, PrintVarKeeps

LEMMA NameInvariant == Spec => []NameInv
<1>1. Init => NameInv
  BY InitEstablishes
<1>2. NameInv /\ [Next]_vars => NameInv'
  <2> SUFFICES ASSUME NameInv, [Next]_vars PROVE NameInv'
    OBVIOUS
  <2>1. ASSUME NEW b \in Binders, NEW x \in Labels, Enter(b, x)
        PROVE  NameInv'
    BY <2>1, EnterKeeps
  <2>2. CASE Leave
    BY <2>2, LeaveKeeps
  <2>3. ASSUME NEW x \in Labels, NEW n \in Indices, UseVar(x, n)
        PROVE  NameInv'
    BY <2>3, UseVarKeeps
  <2>4. CASE StartPrinting
    BY <2>4, StartKeeps
  <2>5. CASE PrintOpening
    BY <2>5, PrintOpeningKeeps
  <2>6. CASE PrintClosing
    BY <2>6, PrintClosingKeeps
  <2>7. CASE PrintBound
    BY <2>7, PrintBoundKeeps
  <2>8. CASE PrintMissing
    BY <2>8, PrintMissingKeeps
  <2>9. CASE Finish
    BY <2>9, FinishKeeps
  <2>10. CASE UNCHANGED vars
    BY <2>10 DEF vars, NameInv, Shapes, Traversed, Resolving, Rendering,
                 Plainly, Renamed, Renamable
  <2> QED
    BY <2>1, <2>2, <2>3, <2>4, <2>5, <2>6, <2>7, <2>8, <2>9, <2>10
    DEF Next, Done
<1> QED
  BY <1>1, <1>2, PTL DEF Spec

-----------------------------------------------------------------------------
(* Positions are in range wherever they stand, so that label_var never      *)
(* indexes past the environment.                                            *)
THEOREM NamesTyped == Spec => []TypeOK
<1>1. NameInv => TypeOK
  <2> SUFFICES ASSUME NameInv PROVE TypeOK
    OBVIOUS
  <2>1. ASSUME NEW k \in 1..Len(hir) PROVE TokenOK(k)
    <3>1. TurnedInto(scopes[k], source[k], hir[k]) /\ scopes[k] \in Seq(Labels)
      BY <2>1 DEF NameInv, Shapes, Traversed
    <3>2. CASE hir[k] = Closing
      BY <3>2 DEF TokenOK
    <3>3. CASE \E b \in Binders, x \in Labels : hir[k] = Opening(b, x)
      BY <3>3 DEF TokenOK
    <3>4. ASSUME NEW x \in Labels, NEW n \in Indices,
                 hir[k] = IF Candidates(scopes[k], x, n) = {}
                          THEN Missing(x, n)
                          ELSE Bound(unlabel_var(scopes[k], x, n))
          PROVE  TokenOK(k)
      <4>1. CASE Candidates(scopes[k], x, n) = {}
        BY <3>4, <4>1 DEF TokenOK
      <4>2. CASE Candidates(scopes[k], x, n) # {}
        <5>1. unlabel_var(scopes[k], x, n) \in Positions(scopes[k])
          BY <3>1, <4>2, UnlabelInRange
        <5> QED
          BY <3>4, <4>2, <5>1 DEF TokenOK
      <4> QED
        BY <4>1, <4>2
    <3> QED
      BY <3>1, <3>2, <3>3, <3>4 DEF TurnedInto
  <2>2. Len(printed) <= Len(hir)
    BY DEF NameInv, Shapes, Resolving, Rendering
  <2> QED
    BY <2>1, <2>2 DEF TypeOK, NameInv, Shapes, Traversed
<1> QED
  BY <1>1, NameInvariant, PTL

(* The two traversals agree, at every token, on the binders in scope.       *)
THEOREM ScopesStayInStep == Spec => []ScopesAgree
<1>1. NameInv => ScopesAgree
  BY NodeAtHand DEF ScopesAgree
<1> QED
  BY <1>1, NameInvariant, PTL

(* An expression that is resolved and converted back is the expression.     *)
THEOREM NamesRoundTrip == Spec => []NamesComeBack
<1>1. NameInv => NamesComeBack
  <2> SUFFICES ASSUME NameInv, ~alpha
               PROVE  printed = SubSeq(source, 1, Len(printed))
    BY DEF NamesComeBack
  <2>1. /\ printed \in Seq(SourceToken) /\ source \in Seq(SourceToken)
        /\ \A k \in 1..Len(printed) : printed[k] = source[k]
    BY DEF NameInv, Shapes, Plainly
  <2>2. PICK n \in Nat : n = Len(printed)
    BY <2>1
  <2>3. n <= Len(source)
    BY <2>2 DEF NameInv, Shapes, Resolving, Rendering, Traversed
  <2>4. SubSeq(source, 1, n) = [k \in 1..n |-> source[k]]
    BY <2>1, <2>3
  <2>5. printed = [k \in 1..n |-> printed[k]]
    BY <2>1, <2>2
  <2> QED
    BY <2>1, <2>2, <2>4, <2>5
<1> QED
  BY <1>1, NameInvariant, PTL

-----------------------------------------------------------------------------
(* Alpha normalization.                                                     *)

LEMMA UnderscoreCandidate ==
    ASSUME NEW n \in Nat, NEW i \in 0..(n - 1)
    PROVE  Candidates(AllUnderscore(n), Underscore, i) = {i}
<1> DEFINE s == AllUnderscore(n)
<1>1. s \in Seq(Labels) /\ Len(s) = n
  BY Underscores
<1>2. \A j \in 0..(n - 1) : NameAt(s, j) = Underscore
  BY <1>1 DEF NameAt, AllUnderscore
<1>3. Named(s, Underscore) = 0..(n - 1)
  BY <1>1, <1>2 DEF Named, Positions
<1>4. ASSUME NEW j \in 0..(n - 1)
      PROVE  Cardinality(Inside(s, Underscore, j)) = j
  <2>1. Inside(s, Underscore, j) = 0..(j - 1)
    BY <1>3 DEF Inside
  <2>2. j - 1 \in Int /\ (IF 0 > j - 1 THEN 0 ELSE j - 1 - 0 + 1) = j
    BY <1>4
  <2> QED
    BY <2>1, <2>2, FS_Interval
<1> QED
  BY <1>3, <1>4 DEF Candidates

LEMMA NothingElseNamed ==
    ASSUME NEW n \in Nat, NEW x, x # Underscore, NEW m
    PROVE  /\ Candidates(AllUnderscore(n), x, m) = {}
           /\ count_named(AllUnderscore(n), x) = 0
<1>1. Named(AllUnderscore(n), x) = {}
  BY DEF Named, NameAt, Positions, AllUnderscore
<1> QED
  BY <1>1, FS_EmptySet DEF Candidates, count_named

LEMMA BoundKeepsMeaning ==
    ASSUME NameInv, Renamable, PrintBound
    PROVE  Meaning(reader, printed'[At]) = Meaning(scopes[At], source[At])
<1>1. /\ phase = "print" /\ At <= Len(hir) /\ hir[At].tag = "Bound"
  BY DEF PrintBound, Printing
<1>2. /\ TurnedInto(names, source[At], hir[At]) /\ names = scopes[At]
      /\ names \in Seq(Labels)
  BY <1>1, NodeAtHand
<1>3. PICK x \in Labels, n \in Indices :
        /\ Candidates(names, x, n) # {} /\ source[At] = Var(x, n)
        /\ hir[At] = Bound(unlabel_var(names, x, n))
  BY <1>1, <1>2, TurnedTags
<1>4. PICK i : i = unlabel_var(names, x, n)
  OBVIOUS
<1>5. hir[At].pos = i /\ i \in 0..(Len(names) - 1) /\ Len(names) \in Nat
  BY <1>2, <1>3, <1>4, UnlabelInRange DEF Bound, Positions
<1>6. Meaning(scopes[At], source[At]) = Bound(i)
  BY <1>2, <1>3, <1>4 DEF Meaning, Var
<1>7. printed'[At] = IF alpha THEN Var(Underscore, i) ELSE label_var(names, i)
  BY <1>5 DEF PrintBound, PrintToken, At, NameInv, Shapes
<1>8. CASE alpha
  <2>1. reader = AllUnderscore(Len(names))
    BY <1>1, <1>8 DEF NameInv, Renamed
  <2>2. Candidates(reader, Underscore, i) = {i}
    BY <1>5, <2>1, UnderscoreCandidate
  <2>3. unlabel_var(reader, Underscore, i) = i
    BY <2>2 DEF unlabel_var
  <2>4. Meaning(reader, Var(Underscore, i)) = Bound(i)
    BY <2>2, <2>3 DEF Meaning, Var
  <2> QED
    BY <1>6, <1>7, <1>8, <2>4
<1>9. CASE ~alpha
  <2>1. reader = names
    BY <1>1, <1>9 DEF NameInv, Plainly
  <2>2. label_var(names, i) = Var(x, n)
    BY <1>2, <1>3, <1>4, LabelUndoesUnlabel
  <2> QED
    BY <1>2, <1>3, <1>7, <1>9, <2>1, <2>2
<1> QED
  BY <1>8, <1>9

LEMMA MissingKeepsMeaning ==
    ASSUME NameInv, Renamable, PrintMissing
    PROVE  Meaning(reader, printed'[At]) = Meaning(scopes[At], source[At])
<1>1. phase = "print" /\ At <= Len(hir) /\ hir[At].tag = "Missing"
  BY DEF PrintMissing, Printing
<1>2. /\ TurnedInto(names, source[At], hir[At]) /\ names = scopes[At]
      /\ names \in Seq(Labels) /\ At \in 1..Len(hir)
  BY <1>1, NodeAtHand
<1>3. PICK x \in Labels, n \in Indices :
        /\ Candidates(names, x, n) = {} /\ source[At] = Var(x, n)
        /\ hir[At] = Missing(x, n)
  <2>1. TurnedInto(names, source[At], hir[At])
    BY <1>1, NodeAtHand
  <2> QED
    BY <1>1, <2>1, FromFree
<1>4. hir[At].name = x /\ hir[At].idx = n /\ n \in Nat
  BY <1>3, NameAssumption DEF Missing
<1>5. printed'[At] = Var(x, FreeIndex(x, n))
  BY <1>4 DEF PrintMissing, PrintToken, At, NameInv, Shapes
<1>6. PICK c \in Nat : c = count_named(names, x)
  BY <1>2, NamedIsFinite
<1>7. Meaning(scopes[At], source[At]) = Missing(x, n - c)
  BY <1>2, <1>3, <1>6 DEF Meaning, Var
<1>8. CASE alpha
  <2>1. reader = AllUnderscore(Len(names)) /\ Len(names) \in Nat
    BY <1>1, <1>2, <1>8 DEF NameInv, Renamed
  <2>2. x # Underscore
    <3>1. At \in DOMAIN hir
      BY <1>2 DEF NameInv, Shapes
    <3> QED
      BY <1>1, <1>4, <3>1 DEF Renamable
  <2>3. ~(n < c)
    BY <1>2, <1>3, <1>4, <1>6, SmallIndexIsBound
  <2>4. FreeIndex(x, n) = n - c
    BY <1>4, <1>6, <1>8, <2>3 DEF FreeIndex, SaturatingSub
  <2>5. /\ Candidates(reader, x, n - c) = {}
        /\ count_named(reader, x) = 0
    BY <2>1, <2>2, NothingElseNamed
  <2>6. Meaning(reader, Var(x, n - c)) = Missing(x, n - c)
    BY <1>4, <1>6, <2>5 DEF Meaning, Var
  <2> QED
    BY <1>5, <1>7, <2>4, <2>6
<1>9. CASE ~alpha
  <2>1. reader = names
    BY <1>1, <1>9 DEF NameInv, Plainly
  <2>2. FreeIndex(x, n) = n
    BY <1>9 DEF FreeIndex
  <2> QED
    BY <1>2, <1>3, <1>5, <2>1, <2>2
<1> QED
  BY <1>8, <1>9

(* Alpha normalization keeps what every variable means, and the saturating  *)
(* subtraction never saturates, in expressions without `let` and without a  *)
(* free `_`.                                                                *)
THEOREM AlphaIsMeaningPreserving == Spec => AlphaKeepsMeaning
<1>1. NameInv /\ [Next]_vars => [Renamable => KeepsMeaning]_vars
  <2> SUFFICES ASSUME NameInv, Next, Renamable,
                      Printing("Bound") \/ Printing("Missing"),
                      Len(printed') = At
               PROVE  Meaning(reader, printed'[At])
                        = Meaning(scopes[At], source[At])
    BY DEF KeepsMeaning
  <2>1. /\ phase = "print" /\ At <= Len(hir)
        /\ hir[At].tag \in {"Bound", "Missing"}
    BY DEF Printing
  <2>2. printed' # printed /\ Len(printed) \in Nat /\ Len(hir) \in Nat
    BY DEF At, NameInv, Shapes
  <2>3. PrintBound \/ PrintMissing
    <3>1. ~PrintOpening /\ ~PrintClosing /\ ~Finish
      BY <2>1, <2>2 DEF PrintOpening, PrintClosing, Printing, Finish
    <3>2. ~Leave /\ ~StartPrinting /\ ~Done
      BY <2>1, <2>2 DEF Leave, StartPrinting, Traverse, Done, vars
    <3>3. /\ \A b \in Binders, x \in Labels : ~Enter(b, x)
          /\ \A x \in Labels, n \in Indices : ~UseVar(x, n)
      BY <2>1 DEF Enter, UseVar, Traverse
    <3> QED
      BY <3>1, <3>2, <3>3 DEF Next
  <2> QED
    BY <2>3, BoundKeepsMeaning, MissingKeepsMeaning
<1> QED
  BY <1>1, NameInvariant, PTL DEF Spec, AlphaKeepsMeaning
=============================================================================
