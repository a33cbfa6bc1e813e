------------------------------- MODULE PathProofs -------------------------------
(***************************************************************************)
(* That chains of local imports open the files their authors mean          *)
(* (NeighboursAreOpened) and that their paths stay short (PathsAreShort),  *)
(* for every working and home directory, and for chains and paths of every *)
(* length.                                                                 *)
(*                                                                         *)
(* An induction over paths takes a least counterexample: a statement P of  *)
(* paths becomes the set of the paths with P, and lemma SequenceInduction is about*)
(* sets.                                                                   *)
(***************************************************************************)
EXTENDS ImportPaths, SequenceTheorems, FiniteSetTheorems, WellFoundedInduction, TLAPS

(* Induction by way of a least counterexample.                              *)
LEMMA Least ==
    ASSUME NEW T, T \subseteq Nat, T # {}
    PROVE  \E m \in T : \A k \in T : ~(k < m)
  <1>1. PICK m \in T : \A k \in T : ~(<<k, m>> \in OpToRel(<, Nat))
    BY WFMin, NatLessThanWellFounded
  <1>2. QED
    BY <1>1 DEF OpToRel

(* A set that has the empty sequence and is closed under Append has all.    *)
LEMMA SequenceInduction ==
    ASSUME NEW A, NEW T, <<>> \in T,
           \A s \in Seq(A), c \in A : s \in T => Append(s, c) \in T
    PROVE  \A s \in Seq(A) : s \in T
  <1> SUFFICES ASSUME NEW t \in Seq(A), t \notin T
               PROVE  FALSE
    OBVIOUS
  <1> DEFINE L == {Len(s) : s \in Seq(A) \ T}
  <1>1. L \subseteq Nat /\ L # {}
    BY LenProperties
  <1>2. PICK m \in L : \A k \in L : ~(k < m)
    BY <1>1, Least
  <1>3. PICK s \in Seq(A) \ T : m = Len(s)
    BY <1>2
  <1>4. PICK f \in Seq(A), c \in A : s = Append(f, c)
    BY <1>3, SequenceEmptyOrAppend
  <1>5. f \notin T /\ Len(f) \in L /\ Len(f) \in Nat /\ Len(s) = Len(f) + 1
    BY <1>3, <1>4, AppendProperties, LenProperties
  <1>6. QED
    BY <1>2, <1>3, <1>5

(* A recursive function on the positions of a sequence.                     *)
Runs(f, n, start, step) ==
    f = [i \in 0..n |-> IF i = 0 THEN start ELSE step[<<i, f[i - 1]>>]]

(* There is such a function.  Its steps are a function too, which the lemmas*)
(* are given as a value.                                                    *)
LEMMA RunExists ==
    ASSUME NEW S, NEW start \in S, NEW n \in Nat, NEW step \in [(1..n) \X S -> S]
    PROVE  \E f \in [0..n -> S] : Runs(f, n, start, step)
  <1> DEFINE T == {k \in 0..n : ~ \E f \in [0..k -> S] : Runs(f, k, start, step)}
  <1> SUFFICES ASSUME T # {}
               PROVE  FALSE
    OBVIOUS
  <1>0. T \subseteq Nat
    OBVIOUS
  <1>1. PICK m \in T : \A k \in T : ~(k < m)
    BY ONLY <1>0, T # {}, Least
  <1>2. m # 0
    <2>1. [i \in 0..0 |-> start] \in [0..0 -> S]
      OBVIOUS
    <2>2. Runs([i \in 0..0 |-> start], 0, start, step)
      BY DEF Runs
    <2>3. QED
      BY <2>1, <2>2
  <1>3. m - 1 \in 0..n /\ m - 1 < m /\ m \in 1..n
    BY <1>1, <1>2
  <1>4. PICK f \in [0..(m - 1) -> S] : Runs(f, m - 1, start, step)
    BY <1>1, <1>3
  <1> DEFINE g == [i \in 0..m |-> IF i = m THEN step[<<m, f[m - 1]>>] ELSE f[i]]
  <1>5. step[<<m, f[m - 1]>>] \in S
    BY <1>3
  <1>6. g \in [0..m -> S]
    BY <1>3, <1>5
  <1>7. \A i \in 0..m : g[i] = IF i = 0 THEN start ELSE step[<<i, g[i - 1]>>]
    <2> SUFFICES ASSUME NEW i \in 0..m
                 PROVE  g[i] = IF i = 0 THEN start ELSE step[<<i, g[i - 1]>>]
      OBVIOUS
    <2>1. CASE i = m
      BY <1>3, <2>1
    <2>2. CASE i # m
      <3>1. i \in 0..(m - 1) /\ (i # 0 => i - 1 \in 0..(m - 1) /\ i - 1 # m)
        BY <1>3, <2>2
      <3>2. f[i] = IF i = 0 THEN start ELSE step[<<i, f[i - 1]>>]
        BY <1>4, <3>1 DEF Runs
      <3>3. g[i] = f[i] /\ (i # 0 => g[i - 1] = f[i - 1])
        BY <1>3, <2>2, <3>1
      <3>4. QED
        BY <3>2, <3>3
    <2>3. QED
      BY <2>1, <2>2
  <1>8. Runs(g, m, start, step)
    BY <1>6, <1>7 DEF Runs
  <1>9. QED
    BY <1>1, <1>6, <1>8

(* There is only one.                                                       *)
LEMMA RunUnique ==
    ASSUME NEW n \in Nat, NEW start, NEW step, NEW f, NEW g,
           Runs(f, n, start, step), Runs(g, n, start, step)
    PROVE  f = g
  <1> DEFINE T == {k \in 0..n : f[k] # g[k]}
  <1>1. f[0] = g[0]
    BY DEF Runs
  <1>2. T = {}
    <2> SUFFICES ASSUME T # {}
                 PROVE  FALSE
      OBVIOUS
    <2>1. T \subseteq Nat
      OBVIOUS
    <2>2. PICK m \in T : \A k \in T : ~(k < m)
      BY ONLY <2>1, T # {}, Least
    <2>3. m \in 1..n /\ m - 1 \in 0..n /\ m - 1 < m /\ f[m] # g[m]
      BY <1>1, <2>2
    <2>4. f[m - 1] = g[m - 1]
      BY <2>2, <2>3
    <2>5. f[m] = step[<<m, f[m - 1]>>] /\ g[m] = step[<<m, g[m - 1]>>]
      BY <2>3 DEF Runs
    <2>6. QED
      BY <2>3, <2>4, <2>5
  <1>3. QED
    BY <1>2 DEF Runs

(* Whatever satisfies the equations of a recursive function is it.          *)
LEMMA RunTyped ==
    ASSUME NEW S, NEW start \in S, NEW n \in Nat, NEW step \in [(1..n) \X S -> S],
           NEW at, at = [i \in 0..n |-> at[i]], at[0] = start,
           \A i \in 1..n : at[i - 1] \in S => at[i] = step[<<i, at[i - 1]>>]
    PROVE  at \in [0..n -> S] /\ Runs(at, n, start, step)
  <1> DEFINE T == {k \in 0..n : at[k] \notin S}
  <1>1. T = {}
    <2> SUFFICES ASSUME T # {}
                 PROVE  FALSE
      OBVIOUS
    <2>1. T \subseteq Nat
      OBVIOUS
    <2>2. PICK m \in T : \A k \in T : ~(k < m)
      BY ONLY <2>1, T # {}, Least
    <2>3. m \in 1..n /\ m - 1 \in 0..n /\ m - 1 < m /\ at[m] \notin S
      BY <2>2
    <2>4. at[m - 1] \in S
      BY <2>2, <2>3
    <2>5. QED
      BY <2>3, <2>4
  <1>2. \A i \in 0..n : at[i] \in S /\ (i # 0 => i \in 1..n /\ at[i - 1] \in S)
    <2>1. \A i \in 0..n : at[i] \in S
      BY <1>1
    <2>2. \A i \in 0..n : i # 0 => i \in 1..n /\ i - 1 \in 0..n
      OBVIOUS
    <2>3. QED
      BY ONLY <2>1, <2>2
  <1>3. at \in [0..n -> S]
    BY <1>2
  <1>4. \A i \in 0..n : at[i] = IF i = 0 THEN start ELSE step[<<i, at[i - 1]>>]
    BY <1>2
  <1>5. QED
    BY <1>3, <1>4 DEF Runs

Typed(f, n, S, start, step) == f \in [0..n -> S] /\ Runs(f, n, start, step)
Agree(longer, step, n, S) ==
    \A i \in 1..n, x \in S : longer[<<i, x>>] = step[<<i, x>>]

(* One more position.                                                       *)
LEMMA RunGrows ==
    ASSUME NEW S, NEW n \in Nat, NEW start, NEW step, NEW longer,
           NEW f, Typed(f, n, S, start, step),
           NEW g, Typed(g, n + 1, S, start, longer),
           Agree(longer, step, n, S)
    PROVE  f[n] \in S /\ g[n + 1] = longer[<<n + 1, f[n]>>]
  <1>0. /\ f \in [0..n -> S] /\ Runs(f, n, start, step)
        /\ g \in [0..(n + 1) -> S] /\ Runs(g, n + 1, start, longer)
        /\ \A i \in 1..n, x \in S : longer[<<i, x>>] = step[<<i, x>>]
    BY DEF Typed, Agree
  <1> DEFINE h == [i \in 0..n |-> g[i]]
  <1>1. \A i \in 0..n : h[i] = g[i] /\ (i # 0 => /\ i \in 1..n /\ h[i - 1] = g[i - 1]
                                                 /\ g[i - 1] \in S)
    BY <1>0
  <1>2. \A i \in 0..n : h[i] = IF i = 0 THEN start ELSE step[<<i, h[i - 1]>>]
    <2> SUFFICES ASSUME NEW i \in 0..n
                 PROVE  h[i] = IF i = 0 THEN start ELSE step[<<i, h[i - 1]>>]
      OBVIOUS
    <2>1. g[i] = IF i = 0 THEN start ELSE longer[<<i, g[i - 1]>>]
      BY <1>0 DEF Runs
    <2> HIDE DEF h
    <2>2. QED
      BY <1>0, <1>1, <2>1
  <1>3. h = f
    <2>1. Runs(h, n, start, step)
      BY <1>2 DEF Runs
    <2> HIDE DEF h
    <2>2. QED
      BY <1>0, <2>1, RunUnique
  <1>4. g[n] = f[n] /\ n + 1 \in 0..(n + 1) /\ n + 1 # 0 /\ (n + 1) - 1 = n
    BY <1>1, <1>3
  <1>5. QED
    BY <1>0, <1>4 DEF Runs

-----------------------------------------------------------------------------
(* Positions, and what a component does to one.                             *)
Pos == [dir : Seq(Components), over : BOOLEAN]
Walker(path) == [x \in (1..Len(path)) \X Pos |-> Enter(x[2], path[x[1]])]

(* A component leads from a position to a position.                         *)
LEMMA EnterTyped ==
    ASSUME NEW pos \in Pos, NEW c \in Components
    PROVE  Enter(pos, c) \in Pos
  <1>1. pos.dir \in Seq(Components) /\ Append(pos.dir, c) \in Seq(Components)
    BY AppendProperties DEF Pos
  <1>2. pos.dir # <<>> => Front(pos.dir) \in Seq(Components)
    <2> SUFFICES ASSUME pos.dir # <<>>
                 PROVE  Front(pos.dir) \in Seq(Components)
      OBVIOUS
    <2>1. Len(pos.dir) \in Nat /\ \A i \in 1..(Len(pos.dir) - 1) : pos.dir[i] \in Components
      BY <1>1, LenProperties, ElementOfSeq
    <2>2. QED
      BY <2>1, SubSeqProperties DEF Front
  <1>3. QED
    BY <1>1, <1>2 DEF Pos, Enter

Start(dir) == [dir |-> dir, over |-> FALSE]
Walks(at, dir, path) ==
    at = [i \in 0..Len(path) |->
            IF i = 0 THEN [dir |-> dir, over |-> FALSE] ELSE Enter(at[i - 1], path[i])]

(* Walk is the end of such a function.                                      *)
LEMMA WalkRuns ==
    ASSUME NEW dir \in Seq(Components), NEW path \in Seq(Components)
    PROVE  \E at \in [0..Len(path) -> Pos] :
              Runs(at, Len(path), Start(dir), Walker(path)) /\ Walk(dir, path) = at[Len(path)]
  <1> DEFINE n == Len(path)
  <1>1. n \in Nat /\ \A i \in 1..n : path[i] \in Components
    BY LenProperties, ElementOfSeq
  <1>2. Start(dir) \in Pos /\ Walker(path) \in [(1..n) \X Pos -> Pos]
    <2>1. \A x \in (1..n) \X Pos : x[1] \in 1..n /\ x[2] \in Pos
      OBVIOUS
    <2>2. \A x \in (1..n) \X Pos : Enter(x[2], path[x[1]]) \in Pos
      BY <1>1, <2>1, EnterTyped
    <2>3. Start(dir) \in Pos
      BY DEF Start, Pos
    <2>4. PICK D : D = (1..n) \X Pos
      OBVIOUS
    <2>5. Walker(path) \in [D -> Pos]
      <3>1. Walker(path) = [x \in D |-> Enter(x[2], path[x[1]])]
        BY <2>4 DEF Walker
      <3>2. \A x \in D : Enter(x[2], path[x[1]]) \in Pos
        BY <2>2, <2>4
      <3>3. QED
        BY ONLY <3>1, <3>2
    <2>6. QED
      BY <2>3, <2>4, <2>5
  <1> HIDE DEF n
  <1>3. PICK f \in [0..n -> Pos] : Runs(f, n, Start(dir), Walker(path))
    BY <1>1, <1>2, RunExists
  <1>4. \A i \in 1..n, pos \in Pos : Walker(path)[<<i, pos>>] = Enter(pos, path[i])
    BY DEF Walker, n
  <1>5. Walks(f, dir, path)
    <2>1. \A i \in 0..n : i # 0 => i \in 1..n /\ f[i - 1] \in Pos
      BY <1>1, <1>3
    <2>2. \A i \in 0..n : i # 0 =>
             Walker(path)[<<i, f[i - 1]>>] = Enter(f[i - 1], path[i])
      BY <1>4, <2>1
    <2>3. QED
      BY <1>3, <2>2 DEF Walks, Runs, Start, n
  <1>6. PICK at : Walks(at, dir, path) /\ Walk(dir, path) = at[n]
    BY <1>5 DEF Walk, Walks, n
  <1>7. /\ at[0] = Start(dir) /\ at = [i \in 0..n |-> at[i]]
        /\ \A i \in 1..n : at[i] = Enter(at[i - 1], path[i])
    <2>1. 0 \in 0..n /\ \A i \in 1..n : i \in 0..n /\ i # 0
      BY <1>1
    <2>2. QED
      BY <1>6, <2>1 DEF Walks, Start, n
  <1>8. at \in [0..n -> Pos] /\ Runs(at, n, Start(dir), Walker(path))
    <2>1. \A i \in 1..n : at[i - 1] \in Pos =>
                at[i] = Walker(path)[<<i, at[i - 1]>>]
      BY <1>4, <1>7
    <2>2. QED
      BY ONLY <1>1, <1>2, <1>7, <2>1, RunTyped
  <1>9. QED
    BY <1>6, <1>8 DEF n

(* One component after another.                                             *)
LEMMA WalkSteps ==
    ASSUME NEW dir \in Seq(Components)
    PROVE  /\ Walk(dir, <<>>) = Start(dir)
           /\ \A path \in Seq(Components) : Walk(dir, path) \in Pos
           /\ \A path \in Seq(Components), c \in Components :
                 Walk(dir, Append(path, c)) = Enter(Walk(dir, path), c)
  <1>1. \A path \in Seq(Components) : Walk(dir, path) \in Pos
    <2> SUFFICES ASSUME NEW path \in Seq(Components)
                 PROVE  Walk(dir, path) \in Pos
      OBVIOUS
    <2>1. Len(path) \in 0..Len(path)
      BY LenProperties
    <2>2. QED
      BY <2>1, WalkRuns
  <1>2. Walk(dir, <<>>) = Start(dir)
    <2>1. <<>> \in Seq(Components) /\ Len(<<>>) = 0
      BY EmptySeq
    <2>2. PICK at \in [0..Len(<<>>) -> Pos] :
             /\ Runs(at, Len(<<>>), Start(dir), Walker(<<>>))
             /\ Walk(dir, <<>>) = at[Len(<<>>)]
      BY <2>1, WalkRuns
    <2>3. QED
      BY <2>1, <2>2 DEF Runs
  <1>3. ASSUME NEW path \in Seq(Components), NEW c \in Components
        PROVE  Walk(dir, Append(path, c)) = Enter(Walk(dir, path), c)
    <2>1. PICK n, p : n = Len(path) /\ p = Append(path, c)
      OBVIOUS
    <2>2. /\ n \in Nat /\ p \in Seq(Components) /\ Len(p) = n + 1
          /\ p[n + 1] = c /\ \A i \in 1..n : p[i] = path[i]
      BY <2>1, LenProperties, AppendProperties
    <2>3. PICK at \in [0..Len(p) -> Pos] :
             Runs(at, Len(p), Start(dir), Walker(p)) /\ Walk(dir, p) = at[Len(p)]
      BY <2>2, WalkRuns
    <2>4. PICK f \in [0..n -> Pos] :
             Runs(f, n, Start(dir), Walker(path)) /\ Walk(dir, path) = f[n]
      BY <2>1, WalkRuns
    <2>5. /\ \A i \in 1..(n + 1), pos \in Pos : Walker(p)[<<i, pos>>] = Enter(pos, p[i])
          /\ \A i \in 1..n, pos \in Pos : Walker(path)[<<i, pos>>] = Enter(pos, path[i])
      BY <2>1, <2>2 DEF Walker
    <2>6. f[n] \in Pos /\ at[n + 1] = Walker(p)[<<n + 1, f[n]>>]
      <3>1. \A i \in 1..n, pos \in Pos :
               Walker(p)[<<i, pos>>] = Walker(path)[<<i, pos>>]
        <4>1. \A i \in 1..n : i \in 1..(n + 1) /\ p[i] = path[i]
          BY <2>2
        <4>2. QED
          BY ONLY <2>5, <4>1
      <3>2. /\ Typed(f, n, Pos, Start(dir), Walker(path)) /\ n \in Nat
            /\ Typed(at, n + 1, Pos, Start(dir), Walker(p)) /\ Agree(Walker(p), Walker(path), n, Pos)
        BY <2>2, <2>3, <2>4, <3>1 DEF Typed, Agree
      <3>3. PICK start, step, longer, A, F, G :
               start = Start(dir) /\ step = Walker(path) /\ longer = Walker(p) /\ A = Pos
               /\ F = f /\ G = at
        OBVIOUS
      <3>4. /\ Typed(F, n, A, start, step) /\ Typed(G, n + 1, A, start, longer)
            /\ Agree(longer, step, n, A) /\ n \in Nat
        BY <3>2, <3>3
      <3>5. F[n] \in A /\ G[n + 1] = longer[<<n + 1, F[n]>>]
        BY ONLY <3>4, RunGrows
      <3>6. QED
        BY <3>3, <3>5
    <2>7. n + 1 \in 1..(n + 1)
      BY <2>2
    <2>8. Walker(p)[<<n + 1, f[n]>>] = Enter(f[n], c)
      BY <2>2, <2>5, <2>6, <2>7
    <2>9. QED
      BY <2>1, <2>2, <2>3, <2>4, <2>6, <2>8
  <1>4. QED
    BY <1>1, <1>2, <1>3

-----------------------------------------------------------------------------
(* The same for canonicalize.                                               *)
Paths == Seq(Components)
Pusher(path) == [x \in (1..Len(path)) \X Paths |-> Pushed(x[2], path[x[1]])]
Pushes(out, path) ==
    out = [i \in 0..Len(path) |-> IF i = 0 THEN <<>> ELSE Pushed(out[i - 1], path[i])]

(* A sequence is what is in front of its last element, and that element.    *)
LEMMA FrontLast ==
    ASSUME NEW A, NEW s \in Seq(A), s # <<>>
    PROVE  /\ Front(s) \in Seq(A) /\ Last(s) \in A /\ s = Append(Front(s), Last(s))
           /\ Len(s) = Len(Front(s)) + 1
           /\ \A i \in 1..Len(Front(s)) : Front(s)[i] = s[i]
  <1>1. Len(s) \in Nat \ {0} /\ \A i \in 1..Len(s) : s[i] \in A
    BY EmptySeq, LenProperties, ElementOfSeq
  <1>2. PICK f \in Seq(A), c \in A : s = Append(f, c)
    BY SequenceEmptyOrAppend
  <1>3. Len(s) = Len(f) + 1 /\ s[Len(s)] = c /\ \A i \in 1..Len(f) : s[i] = f[i]
    BY <1>2, AppendProperties, LenProperties
  <1>4. PICK n : n = Len(s) - 1
    OBVIOUS
  <1>5. n \in Nat /\ Len(f) = n /\ \A i \in 1..n : s[i] \in A
    BY <1>1, <1>3, <1>4, LenProperties
  <1>6. /\ SubSeq(s, 1, n) \in Seq(A) /\ Len(SubSeq(s, 1, n)) = n
        /\ \A i \in 1..n : SubSeq(s, 1, n)[i] = s[i]
    <2>1. /\ SubSeq(s, 1, n) \in Seq(A)
          /\ Len(SubSeq(s, 1, n)) = IF 1 <= n THEN n - 1 + 1 ELSE 0
          /\ \A i \in 1..(n - 1 + 1) : SubSeq(s, 1, n)[i] = s[1 + i - 1]
      BY <1>5, SubSeqProperties
    <2>2. QED
      BY <1>5, <2>1
  <1>7. SubSeq(s, 1, n) = f
    BY <1>3, <1>5, <1>6, SeqEqual
  <1>8. QED
    BY <1>1, <1>2, <1>3, <1>4, <1>7 DEF Front, Last

(* A step of canonicalize makes a path of a path.                           *)
LEMMA PushedTyped ==
    ASSUME NEW out \in Paths, NEW c \in Components
    PROVE  Pushed(out, c) \in Paths
  <1>1. Append(out, c) \in Paths /\ (out # <<>> => Front(out) \in Paths)
    BY AppendProperties, FrontLast DEF Paths
  <1>2. QED
    BY <1>1 DEF Pushed

(* canonicalize is the end of such a function.                              *)
LEMMA CanonicalRuns ==
    ASSUME NEW path \in Paths
    PROVE  \E out \in [0..Len(path) -> Paths] :
              Runs(out, Len(path), <<>>, Pusher(path)) /\ canonicalize(path) = out[Len(path)]
  <1> DEFINE n == Len(path)
  <1>1. n \in Nat /\ (\A i \in 1..n : path[i] \in Components) /\ <<>> \in Paths
    BY LenProperties, ElementOfSeq, EmptySeq DEF Paths
  <1>2. Pusher(path) \in [(1..n) \X Paths -> Paths]
    <2>1. \A x \in (1..n) \X Paths : x[1] \in 1..n /\ x[2] \in Paths
      OBVIOUS
    <2>2. \A x \in (1..n) \X Paths : Pushed(x[2], path[x[1]]) \in Paths
      BY <1>1, <2>1, PushedTyped
    <2>3. PICK D : D = (1..n) \X Paths
      OBVIOUS
    <2>4. Pusher(path) = [x \in D |-> Pushed(x[2], path[x[1]])]
      BY <2>3 DEF Pusher
    <2>5. \A x \in D : Pushed(x[2], path[x[1]]) \in Paths
      BY <2>2, <2>3
    <2>6. Pusher(path) \in [D -> Paths]
      BY ONLY <2>4, <2>5
    <2>7. QED
      BY <2>3, <2>6
  <1> HIDE DEF n
  <1>3. PICK f \in [0..n -> Paths] : Runs(f, n, <<>>, Pusher(path))
    BY <1>1, <1>2, RunExists
  <1>4. \A i \in 1..n, s \in Paths : Pusher(path)[<<i, s>>] = Pushed(s, path[i])
    BY DEF Pusher, n
  <1>5. Pushes(f, path)
    <2>1. \A i \in 0..n : i # 0 => i \in 1..n /\ f[i - 1] \in Paths
      BY <1>1, <1>3
    <2>2. \A i \in 0..n : i # 0 =>
             Pusher(path)[<<i, f[i - 1]>>] = Pushed(f[i - 1], path[i])
      BY <1>4, <2>1
    <2>3. QED
      BY <1>3, <2>2 DEF Pushes, Runs, n
  <1>6. PICK out : Pushes(out, path) /\ canonicalize(path) = out[n]
    BY <1>5 DEF canonicalize, Pushes, n
  <1>7. /\ out[0] = <<>> /\ out = [i \in 0..n |-> out[i]]
        /\ \A i \in 1..n : out[i] = Pushed(out[i - 1], path[i])
    BY <1>1, <1>6 DEF Pushes, n
  <1>8. out \in [0..n -> Paths] /\ Runs(out, n, <<>>, Pusher(path))
    BY <1>1, <1>2, <1>4, <1>7, RunTyped
  <1>9. QED
    BY <1>6, <1>8 DEF n

(* One component after another, from no component.                          *)
LEMMA CanonicalSteps ==
    /\ canonicalize(<<>>) = <<>>
    /\ \A path \in Paths : canonicalize(path) \in Paths
    /\ \A path \in Paths, c \in Components :
          canonicalize(Append(path, c)) = Pushed(canonicalize(path), c)
  <1>1. \A path \in Paths : canonicalize(path) \in Paths
    <2> SUFFICES ASSUME NEW path \in Paths
                 PROVE  canonicalize(path) \in Paths
      OBVIOUS
    <2>1. Len(path) \in 0..Len(path)
      BY LenProperties DEF Paths
    <2>2. QED
      BY <2>1, CanonicalRuns
  <1>2. canonicalize(<<>>) = <<>>
    <2>1. <<>> \in Paths /\ Len(<<>>) = 0
      BY EmptySeq DEF Paths
    <2>2. PICK out \in [0..Len(<<>>) -> Paths] :
             /\ Runs(out, Len(<<>>), <<>>, Pusher(<<>>))
             /\ canonicalize(<<>>) = out[Len(<<>>)]
      BY <2>1, CanonicalRuns
    <2>3. QED
      BY <2>1, <2>2 DEF Runs
  <1>3. ASSUME NEW path \in Paths, NEW c \in Components
        PROVE  canonicalize(Append(path, c)) = Pushed(canonicalize(path), c)
    <2>1. PICK n, p : n = Len(path) /\ p = Append(path, c)
      OBVIOUS
    <2>2. /\ n \in Nat /\ p \in Paths /\ Len(p) = n + 1
          /\ p[n + 1] = c /\ \A i \in 1..n : p[i] = path[i]
      BY <2>1, LenProperties, AppendProperties DEF Paths
    <2>3. PICK out \in [0..Len(p) -> Paths] :
             Runs(out, Len(p), <<>>, Pusher(p)) /\ canonicalize(p) = out[Len(p)]
      BY <2>2, CanonicalRuns
    <2>4. PICK f \in [0..n -> Paths] :
             Runs(f, n, <<>>, Pusher(path)) /\ canonicalize(path) = f[n]
      BY <2>1, CanonicalRuns
    <2>5. /\ \A i \in 1..(n + 1), s \in Paths : Pusher(p)[<<i, s>>] = Pushed(s, p[i])
          /\ \A i \in 1..n, s \in Paths : Pusher(path)[<<i, s>>] = Pushed(s, path[i])
      BY <2>1, <2>2 DEF Pusher
    <2>6. f[n] \in Paths /\ out[n + 1] = Pusher(p)[<<n + 1, f[n]>>]
      <3>1. \A i \in 1..n, s \in Paths :
               Pusher(p)[<<i, s>>] = Pusher(path)[<<i, s>>]
        <4>1. \A i \in 1..n : i \in 1..(n + 1) /\ p[i] = path[i]
          BY <2>2
        <4>2. QED
          BY ONLY <2>5, <4>1
      <3>2. /\ Typed(f, n, Paths, <<>>, Pusher(path)) /\ n \in Nat
            /\ Typed(out, n + 1, Paths, <<>>, Pusher(p)) /\ Agree(Pusher(p), Pusher(path), n, Paths)
        BY <2>2, <2>3, <2>4, <3>1 DEF Typed, Agree
      <3>3. PICK start, step, longer, A, F, G :
               start = <<>> /\ step = Pusher(path) /\ longer = Pusher(p) /\ A = Paths
               /\ F = f /\ G = out
        OBVIOUS
      <3>4. /\ Typed(F, n, A, start, step) /\ Typed(G, n + 1, A, start, longer)
            /\ Agree(longer, step, n, A) /\ n \in Nat
        BY <3>2, <3>3
      <3>5. F[n] \in A /\ G[n + 1] = longer[<<n + 1, F[n]>>]
        BY ONLY <3>4, RunGrows, Z3
      <3>6. QED
        BY <3>3, <3>5
    <2>7. n + 1 \in 1..(n + 1)
      BY <2>2
    <2>8. QED
      BY <2>1, <2>2, <2>3, <2>4, <2>5, <2>6, <2>7
  <1>4. QED
    BY <1>1, <1>2, <1>3

-----------------------------------------------------------------------------
(* What one component does to the two parts of a position.                  *)
LEMMA EnterParts ==
    ASSUME NEW pos \in Pos, NEW c \in Components
    PROVE  /\ c = "." => Enter(pos, c).dir = pos.dir
           /\ c = ".." /\ pos.dir = <<>> => Enter(pos, c).dir = <<>>
           /\ c = ".." /\ pos.dir # <<>> => Enter(pos, c).dir = Front(pos.dir)
           /\ c \notin {".", ".."} => Enter(pos, c).dir = Append(pos.dir, c)
           /\ Enter(pos, c).over <=> pos.over \/ (c = ".." /\ pos.dir = <<>>)
  BY DEF Enter, Pos

(* A position is its directory and whether the root was climbed over.       *)
LEMMA PosEqual ==
    ASSUME NEW p \in Pos, NEW q \in Pos, p.dir = q.dir, p.over <=> q.over
    PROVE  p = q
  BY DEF Pos

(* What is appended can be taken off again.                                 *)
LEMMA FrontOfAppend ==
    ASSUME NEW A, NEW s \in Seq(A), NEW c \in A
    PROVE  /\ Append(s, c) \in Seq(A) /\ Append(s, c) # <<>>
           /\ Front(Append(s, c)) = s /\ Last(Append(s, c)) = c
  <1>1. PICK t : t = Append(s, c)
    OBVIOUS
  <1>2. t \in Seq(A) /\ t # <<>> /\ Len(t) = Len(s) + 1 /\ t[Len(s) + 1] = c
    BY <1>1, AppendProperties
  <1>3. /\ Front(t) \in Seq(A) /\ Last(t) \in A /\ t = Append(Front(t), Last(t))
    BY <1>2, FrontLast
  <1>4. Front(t) = s /\ Last(t) = c
    BY <1>1, <1>3, AppendInjective
  <1>5. QED
    BY <1>1, <1>2, <1>4

(* A name and `..` behind it lead back.                                     *)
LEMMA ThereAndBack ==
    ASSUME NEW pos \in Pos, NEW c \in Components \ {".", ".."}
    PROVE  Enter(Enter(pos, c), "..") = pos
  <1>1. pos.dir \in Seq(Components) /\ ".." \in Components
    BY DEF Pos, Components
  <1>2. PICK q : q = Enter(pos, c)
    OBVIOUS
  <1>3. q \in Pos /\ q.dir = Append(pos.dir, c) /\ (q.over <=> pos.over)
    BY <1>2, EnterTyped, EnterParts
  <1>4. q.dir # <<>> /\ Front(q.dir) = pos.dir
    BY <1>1, <1>3, FrontOfAppend
  <1>5. Enter(q, "..") \in Pos /\ Enter(q, "..").dir = pos.dir
        /\ (Enter(q, "..").over <=> pos.over)
    BY <1>1, <1>3, <1>4, EnterTyped, EnterParts
  <1>6. QED
    BY <1>2, <1>5, PosEqual

(* A canonical path climbs first and then goes down.                        *)
Shaped(q) ==
    \A i \in 1..Len(q) :
        q[i] # "." /\ (q[i] = ".." => \A j \in 1..i : q[j] = "..")

(* canonicalize keeps the meaning of a path, wherever it is followed from,  *)
(* uses no other components, and leaves none that climbs behind a name.     *)
LEMMA CanonicalPath ==
    ASSUME NEW A, A \subseteq Components, NEW path \in Seq(A), NEW dir \in Paths
    PROVE  /\ canonicalize(path) \in Seq(A) /\ Shaped(canonicalize(path))
           /\ Walk(dir, canonicalize(path)) = Walk(dir, path)
  <1> DEFINE T == {p \in Seq(A) : /\ canonicalize(p) \in Seq(A)
                                  /\ Shaped(canonicalize(p))
                                  /\ Walk(dir, canonicalize(p)) = Walk(dir, p)}
  <1>1. Seq(A) \subseteq Paths
    BY SeqMonotonic DEF Paths
  <1>2. <<>> \in T
    <2>1. <<>> \in Seq(A) /\ canonicalize(<<>>) = <<>>
      BY EmptySeq, CanonicalSteps
    <2>2. Shaped(<<>>)
      BY EmptySeq DEF Shaped
    <2>3. QED
      BY <2>1, <2>2
  <1>3. ASSUME NEW p \in Seq(A), NEW c \in A, p \in T
        PROVE  Append(p, c) \in T
    <2>1. PICK q, pos : q = canonicalize(p) /\ pos = Walk(dir, p)
      OBVIOUS
    <2>2. /\ q \in Seq(A) /\ Shaped(q) /\ Walk(dir, q) = pos /\ q \in Paths /\ p \in Paths
          /\ c \in Components /\ pos \in Pos /\ dir \in Seq(Components)
      BY <1>1, <1>3, <2>1, WalkSteps DEF Paths
    <2>3. /\ canonicalize(Append(p, c)) = Pushed(q, c) /\ Append(p, c) \in Seq(A)
          /\ Walk(dir, Append(p, c)) = Enter(pos, c)
      BY <2>1, <2>2, CanonicalSteps, WalkSteps, AppendProperties DEF Paths
    <2>4. CASE c = "."
      <3>1. Pushed(q, c) = q
        BY <2>4 DEF Pushed
      <3>2. Enter(pos, c) = pos
        BY <2>4 DEF Enter
      <3>3. QED
        BY <2>2, <2>3, <3>1, <3>2
    <2>5. CASE c = ".." /\ q # <<>> /\ Last(q) # ".."
      <3>1. PICK f, l : f = Front(q) /\ l = Last(q)
        OBVIOUS
      <3>2. /\ f \in Seq(A) /\ l \in A /\ q = Append(f, l) /\ Len(q) = Len(f) + 1
            /\ Len(f) \in Nat /\ q[Len(q)] = l
            /\ \A i \in 1..Len(f) : f[i] = q[i]
        BY <2>2, <2>5, <3>1, FrontLast, LenProperties DEF Last
      <3>3. Pushed(q, c) = f
        BY <2>5, <3>1 DEF Pushed
      <3>4. l \in Components \ {".", ".."}
        <4>1. Len(q) \in 1..Len(q)
          BY <3>2
        <4>2. QED
          BY <2>2, <2>5, <3>1, <3>2, <4>1 DEF Shaped
      <3>5. Shaped(f)
        <4>1. \A i \in 1..Len(f) : i \in 1..Len(q) /\ \A j \in 1..i : j \in 1..Len(f)
          BY <3>2
        <4>2. QED
          BY <2>2, <3>2, <4>1 DEF Shaped
      <3>6. Walk(dir, f) \in Pos /\ pos = Enter(Walk(dir, f), l)
        BY <1>1, <2>2, <3>2, WalkSteps DEF Paths
      <3>7. Enter(pos, c) = Walk(dir, f)
        BY <2>5, <3>4, <3>6, ThereAndBack
      <3>8. QED
        BY <2>3, <3>2, <3>3, <3>5, <3>7
    <2>6. CASE c # "." /\ ~(c = ".." /\ q # <<>> /\ Last(q) # "..")
      <3>1. PICK r : r = Append(q, c)
        OBVIOUS
      <3>2. Pushed(q, c) = r
        BY <2>6, <3>1 DEF Pushed
      <3>3. /\ r \in Seq(A) /\ Len(r) = Len(q) + 1 /\ Len(q) \in Nat
            /\ r[Len(q) + 1] = c /\ \A i \in 1..Len(q) : r[i] = q[i]
        BY <2>2, <3>1, AppendProperties, LenProperties
      <3>4. Walk(dir, r) = Enter(pos, c)
        BY <2>2, <3>1, WalkSteps DEF Paths
      <3>5. c = ".." => \A j \in 1..Len(q) : q[j] = ".."
        <4>1. q # <<>> => Len(q) \in 1..Len(q)
          BY <2>2, <3>3, EmptySeq
        <4>2. CASE q = <<>>
          BY <4>2, EmptySeq
        <4>3. CASE q # <<>>
          BY <2>2, <2>6, <4>1, <4>3 DEF Shaped, Last
        <4>4. QED
          BY <4>2, <4>3
      <3>6. Shaped(r)
        <4> SUFFICES ASSUME NEW i \in 1..Len(r)
                     PROVE  r[i] # "." /\ (r[i] = ".." => \A j \in 1..i : r[j] = "..")
          BY DEF Shaped
        <4>1. CASE i = Len(q) + 1
          <5>1. \A j \in 1..i : j \in 1..Len(q) \/ j = i
            BY <3>3, <4>1
          <5>2. QED
            BY <2>6, <3>3, <3>5, <4>1, <5>1
        <4>2. CASE i # Len(q) + 1
          <5>1. i \in 1..Len(q) /\ \A j \in 1..i : j \in 1..Len(q)
            BY <3>3, <4>2
          <5>2. QED
            BY <2>2, <3>3, <5>1 DEF Shaped
        <4>3. QED
          BY <4>1, <4>2
      <3>7. QED
        BY <2>3, <3>2, <3>3, <3>4, <3>6
    <2>7. QED
      BY <2>4, <2>5, <2>6
  <1>4. path \in T
    <2> HIDE DEF T
    <2>1. QED
      BY <1>2, <1>3, SequenceInduction
  <1>5. QED
    BY <1>4

(* Following one path after another.                                        *)
LEMMA WalkConcat ==
    ASSUME NEW dir \in Paths, NEW s \in Paths, NEW t \in Paths
    PROVE  /\ s \o t \in Paths
           /\ Walk(dir, s \o t).dir = Walk(Walk(dir, s).dir, t).dir
           /\ Walk(dir, s \o t).over <=>
                 Walk(dir, s).over \/ Walk(Walk(dir, s).dir, t).over
  <1>1. PICK w : w = Walk(dir, s)
    OBVIOUS
  <1>2. w \in Pos /\ w.dir \in Paths
    BY <1>1, WalkSteps DEF Paths, Pos
  <1> DEFINE T == {u \in Paths : /\ Walk(dir, s \o u).dir = Walk(w.dir, u).dir
                                 /\ Walk(dir, s \o u).over
                                       <=> w.over \/ Walk(w.dir, u).over}
  <1>3. <<>> \in T
    <2>1. <<>> \in Paths /\ s \o <<>> = s
      BY EmptySeq, ConcatEmptySeq DEF Paths
    <2>2. Walk(w.dir, <<>>).dir = w.dir /\ ~Walk(w.dir, <<>>).over
      BY <1>2, WalkSteps DEF Start, Paths
    <2>3. /\ Walk(dir, s \o <<>>).dir = Walk(w.dir, <<>>).dir
          /\ Walk(dir, s \o <<>>).over <=> w.over \/ Walk(w.dir, <<>>).over
      BY <1>1, <2>1, <2>2
    <2>4. QED
      BY <2>1, <2>3
  <1>4. ASSUME NEW u \in Paths, NEW c \in Components, u \in T
        PROVE  Append(u, c) \in T
    <2>1. PICK x, y : x = Walk(dir, s \o u) /\ y = Walk(w.dir, u)
      OBVIOUS
    <2>2. /\ s \o Append(u, c) = Append(s \o u, c) /\ s \o u \in Paths
          /\ Append(u, c) \in Paths
      <3>1. /\ Append(u, c) = u \o <<c>> /\ <<c>> \in Paths /\ s \o u \in Paths
            /\ Append(u, c) \in Paths
        BY AppendIsConcat, ConcatProperties, AppendProperties DEF Paths
      <3>2. (s \o u) \o <<c>> = s \o (u \o <<c>>)
        BY <3>1, ConcatAssociative DEF Paths
      <3>3. Append(s \o u, c) = (s \o u) \o <<c>>
        BY <3>1, AppendIsConcat DEF Paths
      <3>4. QED
        BY <3>1, <3>2, <3>3
    <2>3. x \in Pos /\ Walk(dir, s \o Append(u, c)) = Enter(x, c)
      <3>1. PICK v : v = s \o u
        OBVIOUS
      <3>2. v \in Paths /\ x = Walk(dir, v) /\ s \o Append(u, c) = Append(v, c)
        BY <2>1, <2>2, <3>1
      <3>3. QED
        BY <3>2, WalkSteps DEF Paths
    <2>4. y \in Pos /\ Walk(w.dir, Append(u, c)) = Enter(y, c)
      <3>1. PICK d : d = w.dir
        OBVIOUS
      <3>2. d \in Paths /\ y = Walk(d, u)
        BY <1>2, <2>1, <3>1
      <3>3. QED
        BY <3>1, <3>2, WalkSteps DEF Paths
    <2>5. x.dir = y.dir /\ (x.over <=> w.over \/ y.over)
      BY <1>4, <2>1
    <2>6. /\ Enter(x, c).dir = Enter(y, c).dir
          /\ Enter(x, c).over <=> w.over \/ Enter(y, c).over
      BY <2>3, <2>4, <2>5, EnterParts
    <2>7. QED
      BY <2>2, <2>3, <2>4, <2>6
  <1>5. t \in T
    <2>1. \A u \in Seq(Components) : u \in T
      <3> HIDE DEF T
      <3>1. QED
        BY <1>3, <1>4, SequenceInduction DEF Paths
    <2>2. QED
      BY <2>1 DEF Paths
  <1>6. QED
    BY <1>1, <1>5, ConcatProperties DEF Paths

(* What a file or directory can be called.                                  *)
Proper == Components \ {"/", ".", ".."}

(* Names only lead down.                                                    *)
LEMMA NamesLeadDown ==
    ASSUME NEW dir \in Paths, NEW s \in Seq(Proper)
    PROVE  s \in Paths /\ Walk(dir, s) = Start(dir \o s)
  <1> DEFINE T == {u \in Seq(Proper) : Walk(dir, u) = Start(dir \o u)}
  <1>1. Seq(Proper) \subseteq Paths
    BY SeqMonotonic DEF Paths, Proper
  <1>2. <<>> \in T
    BY EmptySeq, ConcatEmptySeq, WalkSteps DEF Paths
  <1>3. ASSUME NEW u \in Seq(Proper), NEW c \in Proper, u \in T
        PROVE  Append(u, c) \in T
    <2>1. /\ c \in Components /\ c \notin {".", ".."} /\ u \in Paths /\ dir \o u \in Paths
          /\ Append(u, c) \in Seq(Proper)
      BY <1>1, ConcatProperties, AppendProperties DEF Paths, Proper
    <2>2. dir \o Append(u, c) = Append(dir \o u, c)
      <3>1. Append(u, c) = u \o <<c>> /\ <<c>> \in Paths
        BY <2>1, AppendIsConcat DEF Paths
      <3>2. (dir \o u) \o <<c>> = dir \o (u \o <<c>>)
        BY <2>1, <3>1, ConcatAssociative DEF Paths
      <3>3. Append(dir \o u, c) = (dir \o u) \o <<c>>
        BY <2>1, AppendIsConcat DEF Paths
      <3>4. QED
        BY <3>1, <3>2, <3>3
    <2>3. Walk(dir, Append(u, c)) = Enter(Start(dir \o u), c)
      BY <1>3, <2>1, WalkSteps DEF Paths
    <2>4. Enter(Start(dir \o u), c) = Start(Append(dir \o u, c))
      BY <2>1 DEF Enter, Start
    <2>5. QED
      BY <2>1, <2>2, <2>3, <2>4
  <1>4. s \in T
    <2> HIDE DEF T
    <2>1. QED
      BY <1>2, <1>3, SequenceInduction
  <1>5. QED
    BY <1>1, <1>4

(* A path from the root that does not climb over it: canonicalize leaves    *)
(* the root in front, and what is behind it is where the path leads.        *)
LEMMA RootPath ==
    ASSUME NEW path \in Seq(Components \ {"/"}), ~Walk(<<>>, path).over
    PROVE  /\ Walk(<<>>, path).dir \in Seq(Proper)
           /\ canonicalize(<<"/">> \o path) = <<"/">> \o Walk(<<>>, path).dir
  <1> DEFINE A == Components \ {"/"}
             T == {p \in Seq(A) : ~Walk(<<>>, p).over =>
                     /\ Walk(<<>>, p).dir \in Seq(Proper)
                     /\ canonicalize(<<"/">> \o p) = <<"/">> \o Walk(<<>>, p).dir}
  <1>1. /\ Seq(A) \subseteq Paths /\ Seq(Proper) \subseteq Paths /\ <<>> \in Paths
        /\ <<"/">> \in Paths /\ "/" \in Components
    <2>1. A \subseteq Components /\ Proper \subseteq Components /\ "/" \in Components
      BY DEF Components, Proper
    <2>2. <<"/">> \in Paths
      BY <2>1 DEF Paths
    <2>3. QED
      BY <2>1, <2>2, SeqMonotonic, EmptySeq DEF Paths
  <1>2. <<>> \in T
    <2>1. <<>> \in Seq(A) /\ <<>> \in Seq(Proper) /\ <<"/">> \o <<>> = <<"/">>
      <3>1. PICK r : r = <<"/">>
        OBVIOUS
      <3>2. r \o <<>> = r
        BY <1>1, <3>1, ConcatEmptySeq DEF Paths
      <3>3. QED
        BY <3>1, <3>2, EmptySeq
    <2>2. Walk(<<>>, <<>>).dir = <<>>
      <3>1. PICK o : o = <<>>
        OBVIOUS
      <3>2. Walk(o, <<>>) = Start(o)
        BY <1>1, <3>1, WalkSteps DEF Paths
      <3>3. QED
        BY <3>1, <3>2 DEF Start
    <2>3. canonicalize(<<"/">>) = <<"/">>
      <3>1. <<"/">> = Append(<<>>, "/")
        BY <1>1
      <3>2. canonicalize(Append(<<>>, "/")) = Pushed(<<>>, "/")
        BY <1>1, CanonicalSteps
      <3>3. Pushed(<<>>, "/") = Append(<<>>, "/")
        BY DEF Pushed
      <3>4. QED
        BY <3>1, <3>2, <3>3
    <2>4. QED
      BY <2>1, <2>2, <2>3
  <1>3. ASSUME NEW p \in Seq(A), NEW c \in A, p \in T
        PROVE  Append(p, c) \in T
    <2> SUFFICES ASSUME ~Walk(<<>>, Append(p, c)).over
                 PROVE  /\ Walk(<<>>, Append(p, c)).dir \in Seq(Proper)
                        /\ canonicalize(<<"/">> \o Append(p, c))
                              = <<"/">> \o Walk(<<>>, Append(p, c)).dir
      BY AppendProperties
    <2>1. PICK w, d : w = Walk(<<>>, p) /\ d = w.dir
      OBVIOUS
    <2>2. w \in Pos /\ c \in Components /\ p \in Paths /\ <<"/">> \o p \in Paths
          /\ c # "/"
      BY <1>1, <2>1, WalkSteps, ConcatProperties DEF Paths
    <2>3. Walk(<<>>, Append(p, c)) = Enter(w, c)
      BY <1>1, <2>1, <2>2, WalkSteps DEF Paths
    <2>4. ~w.over /\ ~(c = ".." /\ d = <<>>)
      BY <2>1, <2>2, <2>3, EnterParts
    <2>5. d \in Seq(Proper) /\ canonicalize(<<"/">> \o p) = <<"/">> \o d
      BY <1>3, <2>1, <2>4
    <2>6. <<"/">> \o Append(p, c) = Append(<<"/">> \o p, c)
      <3>1. Append(p, c) = p \o <<c>> /\ <<c>> \in Paths
        BY <2>2, AppendIsConcat DEF Paths
      <3>2. (<<"/">> \o p) \o <<c>> = <<"/">> \o (p \o <<c>>)
        BY <1>1, <2>2, <3>1, ConcatAssociative DEF Paths
      <3>3. Append(<<"/">> \o p, c) = (<<"/">> \o p) \o <<c>>
        BY <2>2, AppendIsConcat DEF Paths
      <3>4. QED
        BY <3>1, <3>2, <3>3
    <2>7. canonicalize(<<"/">> \o Append(p, c)) = Pushed(<<"/">> \o d, c)
      BY <2>2, <2>5, <2>6, CanonicalSteps
    <2>8. \A e \in Seq(Proper), x \in Components :
             /\ <<"/">> \o Append(e, x) = Append(<<"/">> \o e, x)
             /\ <<"/">> \o e \in Paths /\ e \in Paths
      <3> SUFFICES ASSUME NEW e \in Seq(Proper), NEW x \in Components
                   PROVE  /\ <<"/">> \o Append(e, x) = Append(<<"/">> \o e, x)
                          /\ <<"/">> \o e \in Paths /\ e \in Paths
        OBVIOUS
      <3>1. e \in Paths /\ <<"/">> \o e \in Paths /\ <<x>> \in Paths
        BY <1>1, ConcatProperties DEF Paths
      <3>2. Append(e, x) = e \o <<x>> /\ Append(<<"/">> \o e, x) = (<<"/">> \o e) \o <<x>>
        BY <3>1, AppendIsConcat DEF Paths
      <3>3. (<<"/">> \o e) \o <<x>> = <<"/">> \o (e \o <<x>>)
        BY <1>1, <3>1, ConcatAssociative DEF Paths
      <3>4. QED
        BY <3>1, <3>2, <3>3
    <2>9. CASE c = "."
      <3>1. Enter(w, c).dir = d /\ Pushed(<<"/">> \o d, c) = <<"/">> \o d
        BY <2>1, <2>9 DEF Enter, Pushed
      <3>2. QED
        BY <2>3, <2>5, <2>7, <3>1
    <2>10. CASE c = ".."
      <3>1. d # <<>> /\ Enter(w, c).dir = Front(d)
        BY <2>1, <2>2, <2>4, <2>10, EnterParts
      <3>2. PICK f, l : f = Front(d) /\ l = Last(d)
        OBVIOUS
      <3>3. f \in Seq(Proper) /\ l \in Proper /\ d = Append(f, l)
        BY <2>5, <3>1, <3>2, FrontLast
      <3>4. l \in Components /\ l # ".." /\ f \in Paths
        BY <1>1, <3>3 DEF Proper
      <3>5. <<"/">> \o d = Append(<<"/">> \o f, l) /\ <<"/">> \o f \in Paths
        BY <2>8, <3>3, <3>4
      <3>6. /\ <<"/">> \o d # <<>> /\ Front(<<"/">> \o d) = <<"/">> \o f
            /\ Last(<<"/">> \o d) = l
        <4>1. PICK e, x : e = <<"/">> \o f /\ x = <<"/">> \o d
          OBVIOUS
        <4>2. e \in Seq(Components) /\ x = Append(e, l)
          BY <3>5, <4>1 DEF Paths
        <4>3. x # <<>> /\ Front(x) = e /\ Last(x) = l
          BY <3>4, <4>2, FrontOfAppend
        <4>4. QED
          BY <4>1, <4>3
      <3>7. Pushed(<<"/">> \o d, c) = <<"/">> \o f
        BY <2>10, <3>4, <3>6 DEF Pushed
      <3>8. QED
        BY <2>3, <2>7, <3>1, <3>2, <3>3, <3>7
    <2>11. CASE c \notin {".", ".."}
      <3>1. Enter(w, c).dir = Append(d, c) /\ c \in Proper
        BY <2>1, <2>2, <2>11, EnterParts DEF Proper
      <3>2. Append(d, c) \in Seq(Proper)
        BY <2>5, <3>1, AppendProperties
      <3>3. Pushed(<<"/">> \o d, c) = Append(<<"/">> \o d, c)
        BY <2>11 DEF Pushed
      <3>4. QED
        BY <2>2, <2>3, <2>5, <2>7, <2>8, <3>1, <3>2, <3>3
    <2>12. QED
      BY <2>9, <2>10, <2>11
  <1>4. path \in T
    <2> HIDE DEF T
    <2>1. QED
      BY <1>2, <1>3, SequenceInduction
  <1>5. QED
    BY <1>4

(* A path of `..` alone leads to a directory on the way to `dir`.           *)
LEMMA ClimbsToPrefix ==
    ASSUME NEW dir \in Paths, NEW s \in Seq({".."})
    PROVE  s \in Paths /\ IsPrefix(Walk(dir, s).dir, dir)
  <1> DEFINE T == {u \in Seq({".."}) : IsPrefix(Walk(dir, u).dir, dir)}
  <1>1. Seq({".."}) \subseteq Paths
    <2>1. {".."} \subseteq Components
      BY DEF Components
    <2>2. QED
      BY <2>1, SeqMonotonic DEF Paths
  <1>2. <<>> \in T
    <2>1. Walk(dir, <<>>).dir = dir /\ <<>> \in Seq({".."})
      BY WalkSteps, EmptySeq DEF Start, Paths
    <2>2. Len(dir) \in Nat
      BY LenProperties DEF Paths
    <2>3. QED
      BY <2>1, <2>2 DEF IsPrefix
  <1>3. ASSUME NEW u \in Seq({".."}), NEW c \in {".."}, u \in T
        PROVE  Append(u, c) \in T
    <2>1. PICK w, d : w = Walk(dir, u) /\ d = w.dir
      OBVIOUS
    <2>2. /\ u \in Paths /\ c = ".." /\ c \in Components /\ w \in Pos /\ d \in Paths
          /\ Append(u, c) \in Seq({".."})
      BY <1>1, <2>1, WalkSteps, AppendProperties DEF Paths, Pos, Components
    <2>3. Walk(dir, Append(u, c)) = Enter(w, c)
      BY <2>1, <2>2, WalkSteps DEF Paths
    <2>4. Len(d) <= Len(dir) /\ SubSeq(d, 1, Len(d)) = SubSeq(dir, 1, Len(d))
      <3>1. IsPrefix(d, dir)
        BY <1>3, <2>1
      <3>2. QED
        BY <3>1 DEF IsPrefix
    <2>5. CASE d = <<>>
      <3>1. Enter(w, c).dir = d
        BY <2>1, <2>2, <2>5, EnterParts
      <3>2. QED
        BY <1>3, <2>1, <2>2, <2>3, <3>1
    <2>6. CASE d # <<>>
      <3>1. PICK f : f = Front(d)
        OBVIOUS
      <3>2. f \in Paths /\ Len(d) = Len(f) + 1 /\ Len(f) \in Nat /\ Len(dir) \in Nat
            /\ \A i \in 1..Len(f) : f[i] = d[i]
        BY <2>2, <2>6, <3>1, FrontLast, LenProperties DEF Paths
      <3>3. Enter(w, c).dir = f
        BY <2>1, <2>2, <2>6, <3>1, EnterParts
      <3>4. \A i \in 1..Len(f) : d[i] = dir[i]
        <4>1. /\ \A i \in 1..Len(d) : d[i] \in Components
              /\ \A i \in 1..Len(d) : dir[i] \in Components
          BY <2>2, <2>4, <3>2, ElementOfSeq DEF Paths
        <4>2. /\ \A i \in 1..Len(d) : SubSeq(d, 1, Len(d))[i] = d[i]
              /\ \A i \in 1..Len(d) : SubSeq(dir, 1, Len(d))[i] = dir[i]
          BY <3>2, <4>1
        <4>3. QED
          BY <2>4, <3>2, <4>2
      <3>5. SubSeq(f, 1, Len(f)) = SubSeq(dir, 1, Len(f))
        BY <3>2, <3>4
      <3>6. QED
        BY <2>2, <2>3, <2>4, <3>2, <3>3, <3>5 DEF IsPrefix
    <2>7. QED
      BY <2>5, <2>6
  <1>4. s \in T
    <2> HIDE DEF T
    <2>1. QED
      BY <1>2, <1>3, SequenceInduction
  <1>5. QED
    BY <1>1, <1>4

-----------------------------------------------------------------------------
(* How long a canonical path is that does not climb over the root.          *)
LEMMA UpsAppend ==
    ASSUME NEW s \in Paths, NEW c \in Components
    PROVE  /\ IsFiniteSet(Ups(s)) /\ Cardinality(Ups(s)) \in Nat
           /\ Ups(s) \subseteq 1..Len(s)
           /\ c = ".." => Cardinality(Ups(Append(s, c))) = Cardinality(Ups(s)) + 1
           /\ c # ".." => Ups(Append(s, c)) = Ups(s)
  <1>1. PICK t : t = Append(s, c)
    OBVIOUS
  <1>2. /\ Len(s) \in Nat /\ DOMAIN s = 1..Len(s) /\ DOMAIN t = 1..(Len(s) + 1)
        /\ t[Len(s) + 1] = c /\ \A i \in 1..Len(s) : t[i] = s[i]
    BY <1>1, AppendProperties, LenProperties DEF Paths
  <1>3. Ups(s) \subseteq 1..Len(s)
    BY <1>2 DEF Ups
  <1>4. IsFiniteSet(Ups(s)) /\ Cardinality(Ups(s)) \in Nat
    <2>1. PICK S : S = 1..Len(s)
      OBVIOUS
    <2>2. IsFiniteSet(S) /\ Ups(s) \in SUBSET S
      BY <1>2, <1>3, <2>1, FS_Interval
    <2>3. IsFiniteSet(Ups(s))
      BY <2>2, FS_Subset
    <2>4. QED
      BY <2>3, FS_CardinalityType
  <1>5. CASE c = ".."
    <2>1. Ups(t) = Ups(s) \cup {Len(s) + 1} /\ Len(s) + 1 \notin Ups(s)
      BY <1>2, <1>3, <1>5 DEF Ups
    <2>2. QED
      BY <1>1, <1>3, <1>4, <1>5, <2>1, FS_AddElement
  <1>6. CASE c # ".."
    <2>1. Ups(t) = Ups(s)
      BY <1>2, <1>6 DEF Ups
    <2>2. QED
      BY <1>1, <1>3, <1>4, <1>6, <2>1
  <1>7. QED
    BY <1>5, <1>6

(* The components that climb are no more than the directory is deep, and the*)
(* others are names on the way down to the file.                            *)
LEMMA ShortPath ==
    ASSUME NEW dir \in Paths, NEW path \in Paths, Shaped(path), ~Walk(dir, path).over
    PROVE  /\ Cardinality(Ups(path)) \in Nat /\ Cardinality(Ups(path)) <= Len(dir)
           /\ Len(path) <= Cardinality(Ups(path)) + Len(Walk(dir, path).dir)
  <1> DEFINE U(p) == Cardinality(Ups(p))
             T == {p \in Paths : Shaped(p) /\ ~Walk(dir, p).over =>
                     /\ U(p) <= Len(dir)
                     /\ Len(Walk(dir, p).dir) = Len(dir) + Len(p) - U(p) - U(p)}
  <1>1. /\ <<>> \in Paths /\ Len(<<>>) = 0 /\ Len(dir) \in Nat
        /\ \A p \in Paths : U(p) \in Nat /\ Len(p) \in Nat /\ Ups(p) \subseteq 1..Len(p)
    <2>1. ".." \in Components
      BY DEF Components
    <2>2. QED
      BY <2>1, EmptySeq, LenProperties, UpsAppend DEF Paths
  <1>2. <<>> \in T
    <2>1. Ups(<<>>) = {}
      BY <1>1
    <2>2. U(<<>>) = 0
      BY <2>1, FS_EmptySet
    <2>3. Walk(dir, <<>>).dir = dir
      BY WalkSteps DEF Start, Paths
    <2>4. QED
      BY <1>1, <2>2, <2>3
  <1>3. ASSUME NEW p \in Paths, NEW c \in Components, p \in T
        PROVE  Append(p, c) \in T
    <2>1. PICK r, w, d : r = Append(p, c) /\ w = Walk(dir, p) /\ d = w.dir
      OBVIOUS
    <2>2. /\ r \in Paths /\ w \in Pos /\ d \in Paths /\ Walk(dir, r) = Enter(w, c)
          /\ Len(r) = Len(p) + 1 /\ r[Len(p) + 1] = c
          /\ \A i \in 1..Len(p) : r[i] = p[i]
      <3>1. /\ r \in Paths /\ Len(r) = Len(p) + 1 /\ r[Len(p) + 1] = c
            /\ \A i \in 1..Len(p) : r[i] = p[i]
        BY <2>1, AppendProperties DEF Paths
      <3>2. w \in Pos /\ Walk(dir, r) = Enter(w, c)
        BY <2>1, WalkSteps DEF Paths
      <3>3. d \in Paths
        BY <2>1, <3>2 DEF Paths, Pos
      <3>4. QED
        BY <3>1, <3>2, <3>3
    <2> SUFFICES ASSUME Shaped(r), ~Walk(dir, r).over
                 PROVE  /\ U(r) <= Len(dir)
                        /\ Len(Walk(dir, r).dir) = Len(dir) + Len(r) - U(r) - U(r)
      BY <2>1, <2>2
    <2>3. Shaped(p) /\ c # "."
      <3>1. Len(p) + 1 \in 1..Len(r)
        BY <1>1, <2>2
      <3>2. \A i \in 1..Len(p) : i \in 1..Len(r) /\ \A j \in 1..i : j \in 1..Len(p)
        BY <1>1, <2>2
      <3>3. QED
        BY <2>2, <3>1, <3>2 DEF Shaped
    <2>4. ~w.over /\ ~(c = ".." /\ d = <<>>)
      BY <2>1, <2>2, EnterParts
    <2>5. U(p) <= Len(dir) /\ Len(d) = Len(dir) + Len(p) - U(p) - U(p)
      BY <1>3, <2>1, <2>3, <2>4
    <2>6. CASE c = ".."
      <3>1. U(p) = Len(p)
        <4>1. Len(p) + 1 \in 1..Len(r) /\ \A i \in 1..Len(p) : i \in 1..(Len(p) + 1)
          BY <1>1, <2>2
        <4>2. \A i \in 1..Len(p) : p[i] = ".."
          BY <2>2, <2>6, <4>1 DEF Shaped
        <4>3. Ups(p) = 1..Len(p)
          BY <4>2, LenProperties DEF Ups, Paths
        <4>4. PICK n : n = Len(p)
          OBVIOUS
        <4>5. n \in Nat /\ Cardinality(1..n) = IF 1 > n THEN 0 ELSE n - 1 + 1
          <5>1. 1 \in Int /\ n \in Int /\ n \in Nat
            BY <1>1, <4>4
          <5>2. QED
            BY ONLY <5>1, FS_Interval
        <4>6. Ups(p) = 1..n
          BY <4>3, <4>4
        <4>7. Cardinality(Ups(p)) = Cardinality(1..n)
          BY <4>6
        <4>8. Cardinality(1..n) = n
          BY <4>5
        <4>9. QED
          BY <4>4, <4>7, <4>8
      <3>2. Walk(dir, r).dir = Front(d) /\ d # <<>>
        BY <2>1, <2>2, <2>4, <2>6, EnterParts
      <3>3. Len(d) = Len(Front(d)) + 1 /\ Len(Front(d)) \in Nat
        BY <2>2, <3>2, FrontLast, LenProperties DEF Paths
      <3>4. U(r) = U(p) + 1
        BY <2>1, <2>6, UpsAppend
      <3>5. QED
        BY <1>1, <2>2, <2>5, <3>1, <3>2, <3>3, <3>4
    <2>7. CASE c # ".."
      <3>1. Walk(dir, r).dir = Append(d, c) /\ Len(Append(d, c)) = Len(d) + 1
        BY <2>1, <2>2, <2>3, <2>7, EnterParts, AppendProperties DEF Paths
      <3>2. U(r) = U(p)
        BY <2>1, <2>7, UpsAppend
      <3>3. QED
        BY <1>1, <2>2, <2>5, <3>1, <3>2
    <2>8. QED
      BY <2>6, <2>7
  <1>4. path \in T
    <2>1. \A p \in Seq(Components) : p \in T
      <3> HIDE DEF T
      <3>1. QED
        BY <1>2, <1>3, SequenceInduction DEF Paths
    <2>2. QED
      BY <2>1 DEF Paths
  <1>5. QED
    BY <1>1, <1>4

-----------------------------------------------------------------------------
(* Locations: relative to the working directory, and from the root.         *)
Tame == Components \ {"/"}
CwdLocation(loc, m, over) ==
    /\ loc \in Seq(Tame) /\ loc # <<>> /\ Head(loc) # "~"
    /\ Walk(Cwd, loc).dir = m /\ (Walk(Cwd, loc).over <=> over)
    /\ Last(loc) \in Proper \/ ~IsFile(m)
Chained(loc, m, over) ==
    \E c \in Seq(Tame) :
        /\ loc = <<".">> \o c /\ Shaped(c)
        /\ Walk(Cwd, c).dir = m /\ (Walk(Cwd, c).over <=> over)
RootLocation(loc, m) ==
    /\ loc \in Paths /\ loc # <<>> /\ Head(loc) = "/" /\ Tail(loc) \in Seq(Tame)
    /\ Walk(<<>>, Tail(loc)).dir = m /\ ~Walk(<<>>, Tail(loc)).over
    /\ Last(loc) \in Proper \/ ~IsFile(m)

(* Names are components of every kind, and the two given directories consist*)
(* of names.                                                                *)
LEMMA Sets ==
    /\ Names \subseteq Proper /\ Proper \subseteq Tame /\ Tame \subseteq Components
    /\ {".", "..", "~"} \subseteq Tame /\ "/" \in Components
    /\ Seq(Names) \subseteq Seq(Proper) /\ Seq(Proper) \subseteq Seq(Tame)
    /\ Seq(Tame) \subseteq Paths
    /\ Cwd \in Seq(Proper) /\ Home \in Seq(Proper) /\ Cwd \in Paths /\ Home \in Paths
    /\ <<>> \in Paths /\ <<>> \in Seq(Tame) /\ <<>> \in Seq(Proper)
  <1>1. /\ Names \subseteq Proper /\ Proper \subseteq Tame /\ Tame \subseteq Components
        /\ {".", "..", "~"} \subseteq Tame /\ "/" \in Components
    BY PathsAssumption DEF Proper, Tame, Components
  <1>2. /\ Seq(Names) \subseteq Seq(Proper) /\ Seq(Proper) \subseteq Seq(Tame)
        /\ Seq(Tame) \subseteq Paths
    BY <1>1, SeqMonotonic DEF Paths
  <1>3. Cwd \in Seq(Proper) /\ Home \in Seq(Proper)
    BY <1>2, PathsAssumption
  <1>4. <<>> \in Paths /\ <<>> \in Seq(Tame) /\ <<>> \in Seq(Proper)
    BY EmptySeq DEF Paths
  <1>5. QED
    BY <1>1, <1>2, <1>3, <1>4

(* The last name of a path is the name of the file it leads to.             *)
LEMMA LastName ==
    ASSUME NEW dir \in Paths, NEW loc \in Paths, loc # <<>>, Last(loc) \in Proper
    PROVE  /\ Front(loc) \in Paths /\ Walk(dir, Front(loc)).dir \in Paths
           /\ Front(Walk(dir, loc).dir) = Walk(dir, Front(loc)).dir
           /\ Walk(dir, loc).over <=> Walk(dir, Front(loc)).over
  <1>1. PICK f, l : f = Front(loc) /\ l = Last(loc)
    OBVIOUS
  <1>2. /\ f \in Seq(Components) /\ l \in Components /\ loc = Append(f, l)
        /\ l \notin {".", ".."}
    BY <1>1, FrontLast DEF Paths, Proper
  <1>3. PICK w : w = Walk(dir, f)
    OBVIOUS
  <1>4. w \in Pos /\ Walk(dir, loc) = Enter(w, l) /\ w.dir \in Seq(Components)
    BY <1>2, <1>3, WalkSteps DEF Paths, Pos
  <1>5. Enter(w, l).dir = Append(w.dir, l) /\ (Enter(w, l).over <=> w.over)
    BY <1>2, <1>4, EnterParts
  <1>6. Front(Append(w.dir, l)) = w.dir
    BY <1>2, <1>4, FrontOfAppend
  <1>7. QED
    BY <1>1, <1>2, <1>3, <1>4, <1>5, <1>6 DEF Paths

(* A canonical path that does not end in a name leads to a directory.       *)
LEMMA CanonicalEnd ==
    ASSUME NEW dir \in {<<>>, Cwd}, NEW c \in Seq(Tame), Shaped(c)
    PROVE  (c # <<>> /\ Last(c) \in Proper) \/ ~IsFile(Walk(dir, c).dir)
  <1> SUFFICES ASSUME ~(c # <<>> /\ Last(c) \in Proper)
               PROVE  IsPrefix(Walk(dir, c).dir, Cwd)
    BY DEF IsFile
  <1>1. Len(c) \in Nat /\ \A i \in 1..Len(c) : c[i] \in Tame
    BY LenProperties, ElementOfSeq
  <1>2. c \in Seq({".."})
    <2>1. CASE c = <<>>
      BY <2>1, EmptySeq
    <2>2. CASE c # <<>>
      <3>1. Len(c) \in 1..Len(c)
        BY <1>1, <2>2, EmptySeq
      <3>2. c[Len(c)] = ".."
        BY <1>1, <2>2, <3>1 DEF Shaped, Last, Proper, Tame
      <3>3. \A i \in 1..Len(c) : c[i] = ".."
        BY <3>1, <3>2 DEF Shaped
      <3>4. c = [i \in 1..Len(c) |-> c[i]]
        BY LenProperties
      <3>5. QED
        BY <1>1, <3>3, <3>4
    <2>3. QED
      BY <2>1, <2>2
  <1>3. PICK d, m : d = dir /\ m = Walk(dir, c).dir
    OBVIOUS
  <1>4. d \in Paths /\ Cwd \in Paths /\ <<>> \in Paths /\ c \in Paths
    BY <1>3, Sets
  <1>5. IsPrefix(m, d) /\ m \in Paths
    BY <1>2, <1>3, <1>4, ClimbsToPrefix, WalkSteps DEF Paths, Pos
  <1>6. CASE d = <<>>
    <2>1. Len(m) \in Nat /\ Len(m) <= 0 /\ Len(Cwd) \in Nat
      BY <1>4, <1>5, <1>6, LenProperties, EmptySeq DEF IsPrefix, Paths
    <2>2. Len(m) = 0 /\ Len(m) <= Len(Cwd)
      BY <2>1
    <2>3. SubSeq(m, 1, Len(m)) = SubSeq(Cwd, 1, Len(m))
      BY <2>2, SubSeqEmpty
    <2>4. QED
      BY <1>3, <2>2, <2>3 DEF IsPrefix
  <1>7. CASE d = Cwd
    BY <1>3, <1>5, <1>7
  <1>8. QED
    BY <1>3, <1>6, <1>7

-----------------------------------------------------------------------------
(* Collected.                                                               *)
LEMMA CollectedPlain ==
    ASSUME NEW path \in Seq(Tame)
    PROVE  Collected(path) = path
  BY LenProperties, ElementOfSeq DEF Collected, Tame

(* Collecting starts over at the last component that is the root.           *)
LEMMA CollectedFrom ==
    ASSUME NEW path \in Paths, NEW k \in 1..Len(path), path[k] = "/",
           \A j \in 1..Len(path) : path[j] = "/" => j <= k
    PROVE  Collected(path) = SubSeq(path, k, Len(path))
  <1> DEFINE roots == {i \in DOMAIN path : path[i] = "/"}
  <1>1. Len(path) \in Nat /\ DOMAIN path = 1..Len(path)
    BY LenProperties DEF Paths
  <1>2. k \in roots /\ \A j \in roots : j <= k
    BY <1>1
  <1>3. \A i \in roots : (\A j \in roots : j <= i) => i = k
    BY <1>1, <1>2
  <1> HIDE DEF roots
  <1>4. (CHOOSE i \in roots : \A j \in roots : j <= i) = k
    BY <1>2, <1>3
  <1>5. QED
    BY <1>2, <1>4 DEF Collected, roots

(* A root in front stays, and takes away the `.` that chain_local puts before*)
(* it.                                                                      *)
LEMMA CollectedRoot ==
    ASSUME NEW d \in Seq(Tame)
    PROVE  /\ <<"/">> \o d \in Paths /\ <<"/">> \o d # <<>>
           /\ Head(<<"/">> \o d) = "/" /\ Tail(<<"/">> \o d) = d
           /\ d # <<>> => Last(<<"/">> \o d) = Last(d)
           /\ Collected(<<"/">> \o d) = <<"/">> \o d
           /\ Collected(<<".">> \o (<<"/">> \o d)) = <<"/">> \o d
  <1>1. PICK n, x, y : n = Len(d) /\ x = <<"/">> \o d /\ y = <<".">> \o x
    OBVIOUS
  <1>2. /\ n \in Nat /\ d \in Seq(Components) /\ <<"/">> \in Seq(Components)
        /\ <<".">> \in Seq(Components) /\ \A i \in 1..n : d[i] \in Tame
    <2>1. d \in Seq(Components) /\ "/" \in Components /\ "." \in Components
      BY Sets DEF Paths
    <2>2. QED
      BY <1>1, <2>1, LenProperties, ElementOfSeq
  <1>3. /\ x \in Seq(Components) /\ Len(x) = n + 1 /\ x[1] = "/"
        /\ \A i \in 2..(n + 1) : x[i] = d[i - 1]
    BY <1>1, <1>2, ConcatProperties
  <1>4. /\ y \in Seq(Components) /\ Len(y) = n + 2 /\ y[1] = "."
        /\ \A i \in 2..(n + 2) : y[i] = x[i - 1]
    BY <1>1, <1>2, <1>3, ConcatProperties
  <1>5. \A i \in 2..(n + 1) : x[i] # "/"
    <2>1. \A i \in 2..(n + 1) : i - 1 \in 1..n
      BY <1>2
    <2>2. QED
      BY <1>2, <1>3, <2>1 DEF Tame
  <1>6. x # <<>> /\ Head(x) = "/"
    BY <1>2, <1>3, EmptySeq
  <1>7. Tail(x) = d
    <2>1. /\ Tail(x) \in Seq(Components) /\ Len(Tail(x)) = n
          /\ \A i \in 1..n : Tail(x)[i] = x[i + 1]
      BY <1>2, <1>3, <1>6, HeadTailProperties
    <2>2. \A i \in 1..n : i + 1 \in 2..(n + 1) /\ (i + 1) - 1 = i
      BY <1>2
    <2>3. \A i \in 1..n : Tail(x)[i] = d[i]
      BY <1>3, <2>1, <2>2
    <2>4. QED
      BY <1>1, <1>2, <2>1, <2>3, SeqEqual
  <1>8. d # <<>> => Last(x) = Last(d)
    <2> SUFFICES ASSUME d # <<>> PROVE Last(x) = Last(d)
      OBVIOUS
    <2>1. n + 1 \in 2..(n + 1) /\ (n + 1) - 1 = n
      BY <1>1, <1>2, EmptySeq
    <2>2. QED
      BY <1>1, <1>3, <2>1 DEF Last
  <1>9. Collected(x) = x
    <2>1. 1 \in 1..Len(x) /\ \A j \in 1..Len(x) : x[j] = "/" => j <= 1
      BY <1>2, <1>3, <1>5
    <2>2. Collected(x) = SubSeq(x, 1, Len(x))
      BY <1>3, <2>1, CollectedFrom DEF Paths
    <2>3. QED
      BY <1>3, <2>2, SubSeqFull
  <1>10. Collected(y) = x
    <2>1. /\ 2 \in 1..Len(y) /\ y[2] = "/"
          /\ \A j \in 1..Len(y) : y[j] = "/" => j <= 2
      <3>1. \A j \in 3..(n + 2) : j - 1 \in 2..(n + 1) /\ j \in 2..(n + 2)
        BY <1>2
      <3>2. \A j \in 3..(n + 2) : y[j] # "/"
        BY <1>4, <1>5, <3>1
      <3>3. 2 \in 2..(n + 2) /\ \A j \in 1..(n + 2) : j <= 2 \/ j \in 3..(n + 2)
        BY <1>2
      <3>4. QED
        BY <1>2, <1>3, <1>4, <3>2, <3>3
    <2>2. Collected(y) = SubSeq(y, 2, Len(y))
      BY <1>4, <2>1, CollectedFrom DEF Paths
    <2>3. /\ SubSeq(y, 2, Len(y)) \in Seq(Components) /\ Len(SubSeq(y, 2, Len(y))) = n + 1
          /\ \A i \in 1..(n + 1) : SubSeq(y, 2, Len(y))[i] = y[i + 1]
      <3>1. 2 \in Int /\ Len(y) \in Int /\ \A i \in 2..Len(y) : y[i] \in Components
        BY <1>2, <1>4, ElementOfSeq
      <3>2. PICK m, k : m = 2 /\ k = Len(y)
        OBVIOUS
      <3>3. /\ SubSeq(y, m, k) \in Seq(Components)
            /\ Len(SubSeq(y, m, k)) = IF m <= k THEN k - m + 1 ELSE 0
            /\ \A i \in 1..(k - m + 1) : SubSeq(y, m, k)[i] = y[m + i - 1]
        BY <3>1, <3>2, SubSeqProperties
      <3>4. k - m + 1 = n + 1 /\ m <= k /\ \A i \in 1..(n + 1) : m + i - 1 = i + 1
        BY <1>2, <1>4, <3>2
      <3>5. QED
        BY <3>2, <3>3, <3>4
    <2>4. \A i \in 1..(n + 1) : SubSeq(y, 2, Len(y))[i] = x[i]
      <3>1. \A i \in 1..(n + 1) : i + 1 \in 2..(n + 2) /\ (i + 1) - 1 = i
        BY <1>2
      <3>2. QED
        BY <1>4, <2>3, <3>1
    <2>5. SubSeq(y, 2, Len(y)) = x
      BY <1>2, <1>3, <2>3, <2>4, SeqEqual
    <2>6. QED
      BY <2>2, <2>5
  <1>11. QED
    BY <1>1, <1>3, <1>6, <1>7, <1>8, <1>9, <1>10 DEF Paths

(* Collecting leaves a path.                                                *)
LEMMA CollectedPath ==
    ASSUME NEW path \in Paths, path # <<>>
    PROVE  Collected(path) \in Paths /\ Collected(path) # <<>>
  <1> DEFINE roots == {i \in 1..Len(path) : path[i] = "/"}
             back  == {Len(path) - i : i \in roots}
  <1>1. /\ Len(path) \in Nat \ {0} /\ DOMAIN path = 1..Len(path)
        /\ \A i \in 1..Len(path) : path[i] \in Components
    BY EmptySeq, LenProperties, ElementOfSeq DEF Paths
  <1>2. CASE roots = {}
    BY <1>1, <1>2 DEF Collected
  <1>3. CASE roots # {}
    <2>1. back \subseteq Nat /\ back # {}
      BY <1>1, <1>3
    <2>2. PICK m \in back : \A k \in back : ~(k < m)
      BY ONLY <2>1, Least
    <2>3. PICK k \in roots : m = Len(path) - k
      BY <2>2
    <2>4. \A j \in roots : j <= k
      <3> SUFFICES ASSUME NEW j \in roots PROVE j <= k
        OBVIOUS
      <3>1. Len(path) - j \in back
        OBVIOUS
      <3>2. ~(Len(path) - j < Len(path) - k)
        BY <2>2, <2>3, <3>1
      <3>3. QED
        BY <1>1, <3>2
    <2>5. PICK n, a : n = Len(path) /\ a = k
      OBVIOUS
    <2>6. Collected(path) = SubSeq(path, a, n)
      BY <2>3, <2>4, <2>5, CollectedFrom
    <2>7. a \in Int /\ n \in Int /\ 1 <= a /\ a <= n
          /\ \A i \in a..n : path[i] \in Components
      BY <1>1, <2>3, <2>5
    <2>8. /\ SubSeq(path, a, n) \in Seq(Components)
          /\ Len(SubSeq(path, a, n)) = IF a <= n THEN n - a + 1 ELSE 0
      BY <2>7, SubSeqProperties
    <2>9. QED
      BY <2>6, <2>7, <2>8, EmptySeq DEF Paths
  <1>4. QED
    BY <1>2, <1>3

-----------------------------------------------------------------------------
(* What chain_local puts together.                                          *)
Steps(import) ==
    IF import.prefix = "Parent" THEN <<"..">> \o import.path ELSE import.path

(* An import has components that are no root.                               *)
LEMMA ImportParts ==
    ASSUME NEW import \in Imports
    PROVE  /\ import.prefix \in FilePrefix /\ import.path \in Seq(Tame)
           /\ Steps(import) \in Seq(Tame)
  <1>1. import.prefix \in FilePrefix /\ import.path \in Seq(Names \cup {".", ".."})
    BY PathsAssumption
  <1>2. Names \cup {".", ".."} \subseteq Tame
    BY Sets
  <1>3. import.path \in Seq(Tame)
    BY <1>1, <1>2, SeqMonotonic
  <1>4. <<"..">> \in Seq(Tame)
    BY Sets
  <1>5. <<"..">> \o import.path \in Seq(Tame)
    BY <1>3, <1>4, ConcatProperties
  <1>6. QED
    BY <1>1, <1>3, <1>5 DEF Steps

(* What chain_local starts from is a path.                                  *)
LEMMA DirectoryTyped ==
    ASSUME NEW loc \in Paths
    PROVE  Directory(loc) \in Paths
  <1>1. loc # <<>> => Front(loc) \in Paths
    BY FrontLast DEF Paths
  <1>2. <<"/">> \in Paths /\ Cwd \in Paths
    BY Sets DEF Paths
  <1>3. <<"/">> \o Cwd \in Paths
    BY <1>2, ConcatProperties DEF Paths
  <1>4. QED
    BY <1>1, <1>3 DEF Directory, NoPath

(* A relative import: the same steps, appended to the importer's directory  *)
(* and followed from the one meant.                                         *)
LEMMA RelativeChain ==
    ASSUME NEW import \in Imports, import.prefix \in {"Here", "Parent"},
           NEW loc \in Paths
    PROVE  /\ chain_local(loc, import.prefix, import.path)
                 = Collected(<<".">> \o canonicalize(Directory(loc) \o Steps(import)))
           /\ Meaning(import) = Walk(Front(meant), Steps(import))
  <1>1. PICK d, p : d = Directory(loc) /\ p = import.path
    OBVIOUS
  <1>2. /\ d \in Seq(Components) /\ p \in Seq(Components) /\ ".." \in Components
        /\ <<"..">> \in Seq(Components)
    <2>1. ".." \in Components
      BY DEF Components
    <2>2. p \in Paths
      BY <1>1, ImportParts, Sets
    <2>3. QED
      BY <1>1, <2>1, <2>2, DirectoryTyped DEF Paths
  <1>3. Append(d, "..") = d \o <<"..">>
    BY <1>2, AppendIsConcat
  <1>4. (d \o <<"..">>) \o p = d \o (<<"..">> \o p)
    BY <1>2, ConcatAssociative
  <1>5. Meaning(import) = Walk(Front(meant), Steps(import))
    BY DEF Meaning, Steps
  <1>6. CASE import.prefix = "Here"
    BY <1>1, <1>5, <1>6 DEF chain_local, Steps
  <1>7. CASE import.prefix = "Parent"
    BY <1>1, <1>3, <1>4, <1>5, <1>7 DEF chain_local, Steps
  <1>8. QED
    BY <1>6, <1>7

(* An absolute import or one from home forgets where it stands.             *)
LEMMA AnchoredChain ==
    ASSUME NEW import \in Imports, import.prefix \in {"Absolute", "Home"}, NEW loc
    PROVE  chain_local(loc, import.prefix, import.path)
              = Collected(<<IF import.prefix = "Home" THEN "~" ELSE "/">>
                             \o canonicalize(import.path))
  <1>1. <<>> \o import.path = import.path
    BY ImportParts, ConcatEmptySeq
  <1>2. CASE import.prefix = "Absolute"
    BY <1>1, <1>2 DEF chain_local
  <1>3. CASE import.prefix = "Home"
    BY <1>1, <1>3 DEF chain_local
  <1>4. QED
    BY <1>2, <1>3

(* Whatever is imported, the location it leads to has a path.               *)
LEMMA ChainTyped ==
    ASSUME NEW import \in Imports, NEW loc \in Paths
    PROVE  /\ chain_local(loc, import.prefix, import.path) \in Paths
           /\ chain_local(loc, import.prefix, import.path) # NoPath
  <1>1. \A c \in Components, p \in Paths :
           <<c>> \o canonicalize(p) \in Paths /\ <<c>> \o canonicalize(p) # <<>>
    <2> SUFFICES ASSUME NEW c \in Components, NEW p \in Paths
                 PROVE  <<c>> \o canonicalize(p) \in Paths
                        /\ <<c>> \o canonicalize(p) # <<>>
      OBVIOUS
    <2>1. PICK q : q = canonicalize(p)
      OBVIOUS
    <2>2. q \in Seq(Components) /\ <<c>> \in Seq(Components) /\ Len(<<c>>) = 1
      BY <2>1, CanonicalSteps DEF Paths
    <2>3. /\ <<c>> \o q \in Seq(Components) /\ Len(<<c>> \o q) = 1 + Len(q)
          /\ Len(q) \in Nat
      BY <2>2, ConcatProperties, LenProperties
    <2>4. QED
      BY <2>1, <2>3, EmptySeq DEF Paths
  <1>2. /\ Directory(loc) \o Steps(import) \in Paths /\ import.path \in Paths
        /\ {".", "/", "~"} \subseteq Components
    <2>1. Directory(loc) \in Paths /\ Steps(import) \in Paths /\ import.path \in Paths
      BY DirectoryTyped, ImportParts, Sets
    <2>2. QED
      BY <2>1, ConcatProperties DEF Paths, Components
  <1>3. CASE import.prefix \in {"Here", "Parent"}
    <2>1. PICK r : r = <<".">> \o canonicalize(Directory(loc) \o Steps(import))
      OBVIOUS
    <2>2. r \in Paths /\ r # <<>>
      BY <1>1, <1>2, <2>1
    <2>3. Collected(r) \in Paths /\ Collected(r) # <<>>
      BY <2>2, CollectedPath
    <2>4. QED
      BY <1>3, <2>1, <2>3, RelativeChain DEF NoPath
  <1>4. CASE import.prefix \in {"Absolute", "Home"}
    <2>1. PICK r : r = <<IF import.prefix = "Home" THEN "~" ELSE "/">>
                          \o canonicalize(import.path)
      OBVIOUS
    <2>2. r \in Paths /\ r # <<>>
      BY <1>1, <1>2, <2>1
    <2>3. Collected(r) \in Paths /\ Collected(r) # <<>>
      BY <2>2, CollectedPath
    <2>4. QED
      BY <1>4, <2>1, <2>3, AnchoredChain DEF NoPath
  <1>5. QED
    BY <1>3, <1>4, ImportParts DEF FilePrefix

-----------------------------------------------------------------------------
(* What each kind of import does to a location.                             *)

(* A `.` in front changes nothing but the length.                           *)
LEMMA DotPath ==
    ASSUME NEW c \in Seq(Tame), NEW dir \in Paths
    PROVE  /\ <<".">> \o c \in Seq(Tame) /\ <<".">> \o c # <<>>
           /\ Head(<<".">> \o c) = "." /\ Len(<<".">> \o c) = 1 + Len(c)
           /\ c # <<>> => Last(<<".">> \o c) = Last(c)
           /\ Walk(dir, <<".">> \o c).dir = Walk(dir, c).dir
           /\ Walk(dir, <<".">> \o c).over <=> Walk(dir, c).over
  <1>1. PICK s, d : s = <<".">> /\ d = s \o c
    OBVIOUS
  <1>2. s \in Seq(Tame) /\ Len(s) = 1 /\ s[1] = "." /\ s \in Paths /\ c \in Paths
    BY <1>1, Sets DEF Paths
  <1>3. /\ d \in Seq(Tame) /\ Len(d) = 1 + Len(c) /\ Len(c) \in Nat /\ d[1] = "."
        /\ \A i \in 2..Len(d) : d[i] = c[i - 1]
    BY <1>1, <1>2, ConcatProperties, LenProperties
  <1>4. d # <<>> /\ Head(d) = "."
    BY <1>3, EmptySeq
  <1>5. c # <<>> => Last(d) = Last(c)
    <2> SUFFICES ASSUME c # <<>> PROVE Last(d) = Last(c)
      OBVIOUS
    <2>1. Len(d) \in 2..Len(d) /\ Len(d) - 1 = Len(c)
      BY <1>3, EmptySeq
    <2>2. QED
      BY <1>3, <2>1 DEF Last
  <1>6. Walk(dir, s).dir = dir /\ ~Walk(dir, s).over
    <2>1. s = Append(<<>>, ".") /\ "." \in Components /\ <<>> \in Paths
      BY <1>1, Sets
    <2>2. Walk(dir, s) = Enter(Start(dir), ".")
      BY <2>1, WalkSteps DEF Paths
    <2>3. QED
      BY <2>2 DEF Enter, Start
  <1>7. Walk(dir, d).dir = Walk(dir, c).dir /\ (Walk(dir, d).over <=> Walk(dir, c).over)
    BY <1>1, <1>2, <1>6, WalkConcat
  <1>8. QED
    BY <1>1, <1>3, <1>4, <1>5, <1>7

(* Joining keeps both halves free of the root.                              *)
LEMMA TameConcat ==
    ASSUME NEW s \in Seq(Tame), NEW t \in Seq(Tame)
    PROVE  s \o t \in Seq(Tame)
  BY ConcatProperties

(* From one location relative to the working directory to the next.         *)
LEMMA CwdStep ==
    ASSUME NEW loc, NEW m, NEW over, CwdLocation(loc, m, over), IsFile(m),
           NEW steps \in Seq(Tame), NEW w, w = Walk(Front(m), steps),
           NEW to, to = Collected(<<".">> \o canonicalize(Front(loc) \o steps))
    PROVE  /\ CwdLocation(to, w.dir, over \/ w.over)
           /\ Chained(to, w.dir, over \/ w.over)
  <1>1. PICK f, g : f = Front(loc) /\ g = Walk(Cwd, f)
    OBVIOUS
  <1>2. /\ loc \in Seq(Tame) /\ loc \in Paths /\ loc # <<>> /\ Last(loc) \in Proper
        /\ Cwd \in Paths /\ steps \in Paths
    BY Sets DEF CwdLocation
  <1>3. f \in Seq(Tame) /\ f \in Paths
    BY <1>1, <1>2, FrontLast, Sets
  <1>4. g.dir \in Paths /\ Front(m) = g.dir /\ (over <=> g.over)
    BY <1>1, <1>2, LastName DEF CwdLocation
  <1>5. PICK p, c : p = f \o steps /\ c = canonicalize(p)
    OBVIOUS
  <1>6. p \in Seq(Tame) /\ Walk(Cwd, p).dir = w.dir /\ (Walk(Cwd, p).over <=> over \/ w.over)
    <2>1. p \in Seq(Tame)
      BY <1>3, <1>5, TameConcat
    <2>2. w = Walk(g.dir, steps)
      BY <1>4
    <2>3. QED
      BY <1>1, <1>2, <1>3, <1>4, <1>5, <2>1, <2>2, WalkConcat
  <1>7. c \in Seq(Tame) /\ Shaped(c) /\ Walk(Cwd, c) = Walk(Cwd, p)
    <2>1. Tame \subseteq Components
      BY Sets
    <2>2. QED
      BY <1>2, <1>5, <1>6, <2>1, CanonicalPath
  <1>8. (c # <<>> /\ Last(c) \in Proper) \/ ~IsFile(Walk(Cwd, c).dir)
    BY <1>7, CanonicalEnd
  <1>9. PICK d : d = <<".">> \o c
    OBVIOUS
  <1>10. /\ d \in Seq(Tame) /\ d # <<>> /\ Head(d) = "." /\ (c # <<>> => Last(d) = Last(c))
         /\ Walk(Cwd, d).dir = Walk(Cwd, c).dir
         /\ (Walk(Cwd, d).over <=> Walk(Cwd, c).over)
    BY <1>2, <1>7, <1>9, DotPath
  <1>11. to = d
    BY <1>1, <1>5, <1>9, <1>10, CollectedPlain
  <1>12. CwdLocation(d, w.dir, over \/ w.over)
    BY <1>6, <1>7, <1>8, <1>10 DEF CwdLocation
  <1>13. Chained(d, w.dir, over \/ w.over)
    BY <1>6, <1>7, <1>9 DEF Chained
  <1>14. QED
    BY <1>11, <1>12, <1>13

(* The root and names behind it.                                            *)
LEMMA RootNames ==
    ASSUME NEW d \in Seq(Proper)
    PROVE  RootLocation(<<"/">> \o d, d)
  <1>1. PICK x : x = <<"/">> \o d
    OBVIOUS
  <1>2. /\ x \in Paths /\ x # <<>> /\ Head(x) = "/" /\ Tail(x) = d
        /\ d # <<>> => Last(x) = Last(d)
    BY <1>1, Sets, CollectedRoot
  <1>3. d \in Seq(Tame) /\ d \in Seq(Components)
    BY Sets DEF Paths
  <1>4. Walk(<<>>, d).dir = d /\ ~Walk(<<>>, d).over
    <2>1. PICK o : o = <<>>
      OBVIOUS
    <2>2. Walk(o, d) = Start(o \o d) /\ o \o d = d
      BY <1>3, <2>1, Sets, NamesLeadDown, ConcatEmptySeq
    <2>3. QED
      BY <2>1, <2>2 DEF Start
  <1>5. d # <<>> => Last(d) \in Proper
    BY FrontLast
  <1>6. d = <<>> => ~IsFile(d)
    <2> SUFFICES ASSUME d = <<>> PROVE IsPrefix(d, Cwd)
      BY DEF IsFile
    <2>1. Len(d) = 0 /\ Len(Cwd) \in Nat
      BY EmptySeq, LenProperties, PathsAssumption
    <2>2. SubSeq(d, 1, Len(d)) = SubSeq(Cwd, 1, Len(d))
      BY <2>1, SubSeqEmpty
    <2>3. QED
      BY <2>1, <2>2 DEF IsPrefix
  <1>7. RootLocation(x, d)
    BY <1>2, <1>3, <1>4, <1>5, <1>6 DEF RootLocation
  <1>8. QED
    BY <1>1, <1>7

(* From a directory below the root to a location below the root.            *)
LEMMA RootStep ==
    ASSUME NEW f \in Seq(Tame), ~Walk(<<>>, f).over, NEW steps \in Seq(Tame),
           NEW w, w = Walk(Walk(<<>>, f).dir, steps), ~w.over,
           NEW to, to = Collected(<<".">> \o canonicalize((<<"/">> \o f) \o steps))
    PROVE  RootLocation(to, w.dir)
  <1>1. PICK o, p, d : o = <<>> /\ p = f \o steps /\ d = Walk(o, p).dir
    OBVIOUS
  <1>2. o \in Paths /\ f \in Paths /\ steps \in Paths /\ p \in Seq(Tame)
    BY <1>1, Sets, TameConcat
  <1>3. d = w.dir /\ ~Walk(o, p).over
    BY <1>1, <1>2, WalkConcat
  <1>4. d \in Seq(Proper) /\ canonicalize(<<"/">> \o p) = <<"/">> \o d
    BY <1>1, <1>2, <1>3, RootPath DEF Tame
  <1>5. (<<"/">> \o f) \o steps = <<"/">> \o p
    <2>1. <<"/">> \in Paths
      BY Sets DEF Paths
    <2>2. QED
      BY <1>1, <1>2, <2>1, ConcatAssociative DEF Paths
  <1>6. to = <<"/">> \o d
    <2>1. d \in Seq(Tame)
      BY <1>4, Sets
    <2>2. Collected(<<".">> \o (<<"/">> \o d)) = <<"/">> \o d
      BY <2>1, CollectedRoot
    <2>3. QED
      BY <1>4, <1>5, <2>2
  <1>7. RootLocation(<<"/">> \o d, d)
    BY <1>4, RootNames
  <1>8. QED
    BY <1>3, <1>6, <1>7

(* A path given from the root.                                              *)
LEMMA AbsoluteStep ==
    ASSUME NEW path \in Seq(Tame), NEW w, w = Walk(<<>>, path), ~w.over,
           NEW to, to = Collected(<<"/">> \o canonicalize(path))
    PROVE  RootLocation(to, w.dir)
  <1>1. PICK o, c, x : o = <<>> /\ c = canonicalize(path) /\ x = <<"/">> \o c
    OBVIOUS
  <1>2. c \in Seq(Tame) /\ Shaped(c) /\ Walk(o, c) = w
    <2>1. o \in Paths /\ Tame \subseteq Components
      BY <1>1, Sets
    <2>2. QED
      BY <1>1, <2>1, CanonicalPath
  <1>3. (c # <<>> /\ Last(c) \in Proper) \/ ~IsFile(Walk(o, c).dir)
    BY <1>1, <1>2, CanonicalEnd
  <1>4. /\ x \in Paths /\ x # <<>> /\ Head(x) = "/" /\ Tail(x) = c
        /\ (c # <<>> => Last(x) = Last(c)) /\ Collected(x) = x
    BY <1>1, <1>2, CollectedRoot
  <1>5. RootLocation(x, w.dir)
    BY <1>1, <1>2, <1>3, <1>4 DEF RootLocation
  <1>6. QED
    BY <1>1, <1>4, <1>5

(* A path given from the home directory.                                    *)
LEMMA HomeStep ==
    ASSUME NEW path \in Seq(Tame),
           NEW to, to = Collected(<<"~">> \o canonicalize(path))
    PROVE  Opened(to) = Walk(Home, path).dir
  <1>1. PICK h, c, x : h = <<"~">> /\ c = canonicalize(path) /\ x = h \o c
    OBVIOUS
  <1>2. c \in Seq(Tame) /\ Walk(Home, c) = Walk(Home, path)
    <2>1. Home \in Paths /\ Tame \subseteq Components
      BY Sets
    <2>2. QED
      BY <1>1, <2>1, CanonicalPath
  <1>3. h \in Seq(Tame) /\ Len(h) = 1 /\ h[1] = "~"
    BY <1>1, Sets
  <1>4. /\ x \in Seq(Tame) /\ Len(x) = 1 + Len(c) /\ Len(c) \in Nat /\ x[1] = "~"
        /\ \A i \in 2..Len(x) : x[i] = c[i - 1]
    BY <1>1, <1>2, <1>3, ConcatProperties, LenProperties
  <1>5. x # <<>> /\ Head(x) = "~"
    BY <1>4, EmptySeq
  <1>6. Tail(x) = c
    <2>1. /\ Tail(x) \in Seq(Tame) /\ Len(Tail(x)) = Len(c)
          /\ \A i \in 1..Len(c) : Tail(x)[i] = x[i + 1]
      BY <1>4, <1>5, HeadTailProperties
    <2>2. \A i \in 1..Len(c) : i + 1 \in 2..Len(x) /\ (i + 1) - 1 = i
      BY <1>4
    <2>3. \A i \in 1..Len(c) : Tail(x)[i] = c[i]
      BY <1>4, <2>1, <2>2
    <2>4. QED
      BY <1>2, <2>1, <2>3, SeqEqual
  <1>7. to = x
    BY <1>1, <1>4, CollectedPlain
  <1>8. QED
    BY <1>2, <1>5, <1>6, <1>7 DEF Opened, Reached

-----------------------------------------------------------------------------
(* The inductive invariant: what the location says about the file meant, by *)
(* the anchor of the chain.                                                 *)
PathInv ==
    /\ here \in Paths /\ anchor \in {"cwd", "root", "home"} /\ hops \in Nat
    /\ here = NoPath => meant = Unnamed /\ anchor = "root" /\ ~overRoot
    /\ here # NoPath /\ anchor = "cwd" =>
          /\ CwdLocation(here, meant, overRoot)
          /\ hops > 0 => Chained(here, meant, overRoot)
    /\ here # NoPath /\ anchor = "root" /\ ~overRoot => RootLocation(here, meant)
    /\ here # NoPath /\ anchor = "home" /\ ~followed => Opened(here) = meant

(* The paths a chain may begin with, and the text of no file.               *)
LEMMA PathInvInit ==
    ASSUME Init
    PROVE  PathInv
  <1>1. CASE here \in Starts /\ meant = Opened(here) /\ anchor = AnchorOf(here)
             /\ (overRoot <=> Reached(here).over)
    <2>1. /\ here \in Seq(Components) /\ here # <<>> /\ Last(here) \in Names
          /\ \A i \in 2..Len(here) : here[i] # "/"
      BY <1>1, PathsAssumption, StartsAssumption
    <2>2. /\ here \in Paths /\ Last(here) \in Proper /\ Len(here) \in Nat \ {0}
          /\ Head(here) = here[1]
          /\ \A i \in 1..Len(here) : here[i] \in Components
      BY <2>1, Sets, EmptySeq, LenProperties, ElementOfSeq DEF Paths
    <2>3. CASE Head(here) = "~"
      <3>1. anchor = "home"
        BY <1>1, <2>3 DEF AnchorOf
      <3>2. QED
        BY <1>1, <2>1, <2>2, <3>1 DEF PathInv, Init, NoPath
    <2>4. CASE Head(here) = "/"
      <3>1. anchor = "root"
        BY <1>1, <2>4 DEF AnchorOf
      <3>2. Reached(here) = Walk(<<>>, Tail(here))
        BY <2>4 DEF Reached
      <3>3. Tail(here) \in Seq(Tame)
        <4>1. PICK t, n : t = Tail(here) /\ n = Len(here)
          OBVIOUS
        <4>2. /\ t \in Seq(Components) /\ Len(t) = n - 1
              /\ \A i \in 1..(n - 1) : t[i] = here[i + 1]
          BY <2>1, <4>1, HeadTailProperties
        <4>3. \A i \in 1..(n - 1) : i + 1 \in 2..n
          BY <2>2, <4>1
        <4>4. \A i \in 1..(n - 1) : t[i] \in Tame
          BY <2>1, <4>1, <4>2, <4>3, ElementOfSeq DEF Tame
        <4>5. t = [i \in 1..(n - 1) |-> t[i]] /\ n - 1 \in Nat
          BY <2>2, <4>1, <4>2, LenProperties
        <4>6. t \in [1..(n - 1) -> Tame]
          BY <4>4, <4>5
        <4>7. QED
          BY <4>1, <4>5, <4>6, SeqDef
      <3>4. ~overRoot => RootLocation(here, meant)
        BY <1>1, <2>1, <2>2, <2>4, <3>2, <3>3 DEF RootLocation, Opened
      <3>5. QED
        BY <2>1, <2>2, <3>1, <3>4 DEF PathInv, Init, NoPath
    <2>5. CASE Head(here) \notin {"~", "/"}
      <3>1. anchor = "cwd"
        BY <1>1, <2>5 DEF AnchorOf
      <3>2. Reached(here) = Walk(Cwd, here)
        BY <2>5 DEF Reached
      <3>3. here \in Seq(Tame)
        <4>1. \A i \in 1..Len(here) : i = 1 \/ i \in 2..Len(here)
          BY <2>2
        <4>2. \A i \in 1..Len(here) : here[i] \in Tame
          BY <2>1, <2>2, <2>5, <4>1 DEF Tame
        <4>3. here = [i \in 1..Len(here) |-> here[i]]
          BY <2>1, LenProperties
        <4>4. here \in [1..Len(here) -> Tame]
          BY <4>2, <4>3
        <4>5. QED
          BY <2>2, <4>4, SeqDef
      <3>4. CwdLocation(here, meant, overRoot)
        BY <1>1, <2>1, <2>2, <2>5, <3>2, <3>3 DEF CwdLocation, Opened
      <3>5. QED
        BY <2>1, <2>2, <3>1, <3>4 DEF PathInv, Init, NoPath
    <2>6. QED
      BY <2>3, <2>4, <2>5
  <1>2. CASE here = NoPath /\ meant = Unnamed /\ anchor = "root" /\ ~overRoot
    BY <1>2, Sets DEF PathInv, Init, NoPath
  <1>3. QED
    BY <1>1, <1>2 DEF Init

(* The directory that imports in a text without a file start from.          *)
LEMMA UnnamedParts == Front(Unnamed) = Cwd
  <1>1. PICK A : A = Names \cup {""}
    OBVIOUS
  <1>2. Cwd \in Seq(A) /\ "" \in A
    BY <1>1, PathsAssumption, SeqMonotonic
  <1>3. QED
    BY <1>2, FrontOfAppend DEF Unnamed

(* Following an import keeps the invariant: the importer is a file, so that *)
(* its last component is its name, and is not popped by a `..`.             *)
LEMMA PathInvFollow ==
    ASSUME PathInv, NEW import \in Imports, Follow(import)
    PROVE  PathInv'
  <1> DEFINE steps == Steps(import)
             relative == import.prefix \in {"Here", "Parent"}
  <1>1. /\ here' \in Paths /\ here' # NoPath
        /\ hops \in Nat /\ hops' \in Nat
        /\ steps \in Seq(Tame) /\ import.path \in Seq(Tame)
        /\ here' = chain_local(here, import.prefix, import.path)
        /\ meant' = Meaning(import).dir
    BY ChainTyped, ImportParts DEF PathInv, Follow
  <1>2. CASE relative
    <2>1. /\ anchor' = anchor /\ followed'
          /\ (overRoot' <=> overRoot \/ Meaning(import).over)
      BY <1>2 DEF Follow
    <2>2. PICK w, to : w = Meaning(import) /\ to = here'
      OBVIOUS
    <2>3. /\ w = Walk(Front(meant), steps)
          /\ to = Collected(<<".">> \o canonicalize(Directory(here) \o steps))
      BY <1>1, <1>2, <2>2, RelativeChain DEF PathInv
    <2>4. here # NoPath => IsFile(meant) /\ Directory(here) = Front(here)
      BY DEF Follow, Directory
    <2>5. anchor = "cwd" =>
             /\ CwdLocation(to, w.dir, overRoot \/ w.over)
             /\ Chained(to, w.dir, overRoot \/ w.over)
      <3> SUFFICES ASSUME anchor = "cwd"
                   PROVE  /\ CwdLocation(to, w.dir, overRoot \/ w.over)
                          /\ Chained(to, w.dir, overRoot \/ w.over)
        OBVIOUS
      <3>1. here # NoPath /\ CwdLocation(here, meant, overRoot) /\ IsFile(meant)
        BY <2>4 DEF PathInv
      <3>2. QED
        BY <1>1, <2>3, <2>4, <3>1, CwdStep
    <2>6. anchor = "root" /\ ~overRoot /\ ~w.over => RootLocation(to, w.dir)
      <3> SUFFICES ASSUME anchor = "root", ~overRoot, ~w.over
                   PROVE  RootLocation(to, w.dir)
        OBVIOUS
      <3>1. CASE here = NoPath
        <4>1. Front(meant) = Cwd /\ Directory(here) = <<"/">> \o Cwd
          BY <3>1, UnnamedParts DEF PathInv, Directory
        <4>2. PICK o : o = <<>>
          OBVIOUS
        <4>3. Walk(o, Cwd).dir = Cwd /\ ~Walk(o, Cwd).over /\ Cwd \in Seq(Tame)
          <5>1. Cwd \in Seq(Proper) /\ Cwd \in Seq(Tame) /\ o \in Paths
            BY <4>2, Sets
          <5>2. Walk(o, Cwd) = Start(o \o Cwd) /\ o \o Cwd = Cwd
            BY <4>2, <5>1, NamesLeadDown, ConcatEmptySeq
          <5>3. QED
            BY <5>1, <5>2 DEF Start
        <4>4. QED
          BY <1>1, <2>3, <4>1, <4>2, <4>3, RootStep
      <3>2. CASE here # NoPath
        <4>1. RootLocation(here, meant) /\ IsFile(meant) /\ Directory(here) = Front(here)
          BY <2>4, <3>2 DEF PathInv
        <4>2. PICK o, t : o = <<>> /\ t = Tail(here)
          OBVIOUS
        <4>3. /\ here \in Seq(Components) /\ here # <<>> /\ Head(here) = "/"
              /\ t \in Seq(Tame) /\ t \in Paths /\ o \in Paths /\ Last(here) \in Proper
              /\ Walk(o, t).dir = meant /\ ~Walk(o, t).over
          BY <4>1, <4>2, Sets DEF RootLocation, Paths
        <4>4. here = <<"/">> \o t
          BY <4>2, <4>3, HeadTailProperties
        <4>5. t # <<>> /\ Last(t) \in Proper
          <5>1. t # <<>>
            <6> SUFFICES ASSUME t = <<>> PROVE FALSE
              OBVIOUS
            <6>0. Len(t) = 0 /\ Len(here) \in Nat /\ Len(t) = Len(here) - 1
              BY <4>2, <4>3, EmptySeq, LenProperties, HeadTailProperties
            <6>1. Len(here) = 1 /\ here[1] = "/"
              BY <4>3, <6>0
            <6>2. Last(here) = "/"
              BY <4>3, <6>1 DEF Last
            <6>3. QED
              BY <4>3, <6>2 DEF Proper
          <5>2. QED
            BY <4>3, <4>4, <5>1, CollectedRoot
        <4>6. PICK f, l : f = Front(t) /\ l = Last(t)
          OBVIOUS
        <4>7. f \in Seq(Tame) /\ f \in Paths /\ l \in Components /\ t = Append(f, l)
          BY <4>3, <4>5, <4>6, FrontLast, Sets DEF Proper
        <4>8. Front(meant) = Walk(o, f).dir /\ ~Walk(o, f).over
          BY <4>3, <4>5, <4>6, LastName
        <4>9. Front(here) = <<"/">> \o f
          <5>1. PICK r, x : r = <<"/">> /\ x = <<"/">> \o f
            OBVIOUS
          <5>2. r \in Seq(Components) /\ f \in Seq(Components) /\ l \in Components
            BY <4>7, <5>1, Sets DEF Paths
          <5>3. here = Append(x, l) /\ x \in Seq(Components)
            <6>1. /\ x \in Seq(Components) /\ <<l>> \in Seq(Components)
                  /\ r \o (f \o <<l>>) = (r \o f) \o <<l>>
              BY <5>1, <5>2, ConcatProperties, ConcatAssociative
            <6>2. Append(f, l) = f \o <<l>> /\ Append(x, l) = x \o <<l>>
              BY <5>2, <6>1, AppendIsConcat
            <6>3. QED
              BY <4>4, <4>7, <5>1, <6>1, <6>2
          <5>4. QED
            BY <5>1, <5>2, <5>3, FrontOfAppend
        <4>10. QED
          BY <1>1, <2>3, <4>1, <4>2, <4>7, <4>8, <4>9, RootStep
      <3>3. QED
        BY <3>1, <3>2
    <2>7. anchor' \in {"cwd", "root", "home"}
      BY <2>1 DEF PathInv
    <2>8. QED
      BY <1>1, <2>1, <2>2, <2>5, <2>6, <2>7 DEF PathInv, CwdLocation, Chained
  <1>3. CASE import.prefix = "Absolute"
    <2>1. anchor' = "root" /\ ~followed' /\ (overRoot' <=> Meaning(import).over)
      BY <1>3 DEF Follow
    <2>2. PICK w, to : w = Meaning(import) /\ to = here'
      OBVIOUS
    <2>3. /\ w = Walk(<<>>, import.path)
          /\ to = Collected(<<"/">> \o canonicalize(import.path))
      BY <1>1, <1>3, <2>2, AnchoredChain DEF Meaning
    <2>4. ~w.over => RootLocation(to, w.dir)
      BY <1>1, <2>3, AbsoluteStep
    <2>5. QED
      BY <1>1, <2>1, <2>2, <2>4 DEF PathInv
  <1>4. CASE import.prefix = "Home"
    <2>1. anchor' = "home"
      BY <1>4 DEF Follow
    <2>2. PICK to : to = here'
      OBVIOUS
    <2>3. /\ meant' = Walk(Home, import.path).dir
          /\ to = Collected(<<"~">> \o canonicalize(import.path))
      BY <1>1, <1>4, <2>2, AnchoredChain DEF Meaning
    <2>4. Opened(to) = meant'
      BY <1>1, <2>3, HomeStep
    <2>5. Opened(here)' = Opened(to)
      BY <2>2 DEF Opened, Reached
    <2>6. QED
      BY <1>1, <2>1, <2>4, <2>5 DEF PathInv
  <1>5. QED
    BY <1>2, <1>3, <1>4, ImportParts DEF FilePrefix

(* So does every step.                                                      *)
LEMMA PathInvNext ==
    ASSUME PathInv, [Next]_vars
    PROVE  PathInv'
  <1>1. CASE FollowEnv
    <2>1. /\ here' = NoPath /\ meant' = Unnamed /\ anchor' = "root" /\ ~overRoot'
          /\ hops' \in Nat
      BY <1>1 DEF FollowEnv, PathInv
    <2>2. Unnamed' = Unnamed /\ NoPath \in Paths
      BY Sets DEF Unnamed, NoPath
    <2>3. QED
      BY <2>1, <2>2 DEF PathInv
  <1>2. CASE \E import \in Imports : Follow(import)
    BY <1>2, PathInvFollow
  <1>3. CASE UNCHANGED vars
    BY <1>3 DEF PathInv, vars, CwdLocation, Chained, RootLocation, Opened, Reached, Unnamed
  <1>4. QED
    BY <1>1, <1>2, <1>3 DEF Next

(* Along every chain of imports, the location and the file meant are related*)
(* as PathInv says.                                                         *)
THEOREM PathInvAlways == Spec => []PathInv
  <1>1. Init => PathInv
    BY PathInvInit
  <1>2. PathInv /\ [Next]_vars => PathInv'
    BY PathInvNext
  <1>3. QED
    BY <1>1, <1>2, PTL DEF Spec

(* A chain of imports opens the file that is meant, but for the two         *)
(* exceptions: a relative import behind `~`, and a climb over the root.     *)
THEOREM NeighboursAreOpened == Spec => []NeighbourIsOpened
  <1>1. PathInv => NeighbourIsOpened
    <2> SUFFICES ASSUME PathInv, here # NoPath,
                        ~(anchor = "home" /\ followed), ~(anchor = "root" /\ overRoot)
                 PROVE  Opened(here) = meant
      BY DEF NeighbourIsOpened
    <2>1. CASE anchor = "cwd"
      <3>1. CwdLocation(here, meant, overRoot)
        BY <2>1 DEF PathInv
      <3>2. here \in Seq(Tame) /\ here # <<>> /\ Head(here) # "~"
        BY <3>1 DEF CwdLocation
      <3>3. Head(here) \in Tame
        BY <3>2, HeadTailProperties
      <3>4. Reached(here) = Walk(Cwd, here)
        BY <3>2, <3>3 DEF Reached, Tame
      <3>5. QED
        BY <3>1, <3>4 DEF CwdLocation, Opened
    <2>2. CASE anchor = "root"
      <3>1. RootLocation(here, meant)
        BY <2>2 DEF PathInv
      <3>2. Reached(here) = Walk(<<>>, Tail(here))
        BY <3>1 DEF Reached, RootLocation
      <3>3. QED
        BY <3>1, <3>2 DEF RootLocation, Opened
    <2>3. CASE anchor = "home"
      BY <2>3 DEF PathInv
    <2>4. QED
      BY <2>1, <2>2, <2>3 DEF PathInv
  <1>2. QED
    BY <1>1, PathInvAlways, PTL

(* The dot in front is no `..`.                                             *)
LEMMA DottedUps ==
    ASSUME NEW c \in Paths
    PROVE  Cardinality(Ups(<<".">> \o c)) = Cardinality(Ups(c))
  <1> DEFINE T == {s \in Paths : Cardinality(Ups(<<".">> \o s)) = Cardinality(Ups(s))}
  <1>1. PICK r : r = <<".">>
    OBVIOUS
  <1>2. r \in Seq(Components) /\ <<>> \in Paths
    BY <1>1, Sets
  <1>3. <<>> \in T
    <2>1. r \o <<>> = r
      BY <1>2, ConcatEmptySeq
    <2>2. Ups(r) = {} /\ Ups(<<>>) = {}
      BY <1>1, EmptySeq DEF Ups
    <2>3. QED
      BY <1>1, <1>2, <2>1, <2>2
  <1>4. ASSUME NEW s \in Paths, NEW x \in Components, s \in T
        PROVE  Append(s, x) \in T
    <2>1. PICK t : t = r \o s
      OBVIOUS
    <2>2. t \in Paths /\ Append(s, x) \in Paths
      BY <1>2, <2>1, ConcatProperties, AppendProperties DEF Paths
    <2>3. r \o Append(s, x) = Append(t, x)
      <3>1. <<x>> \in Seq(Components) /\ s \in Seq(Components) /\ t \in Seq(Components)
        BY <2>2 DEF Paths
      <3>2. Append(s, x) = s \o <<x>> /\ Append(t, x) = t \o <<x>>
        BY <3>1, AppendIsConcat
      <3>3. (r \o s) \o <<x>> = r \o (s \o <<x>>)
        BY <1>2, <3>1, ConcatAssociative
      <3>4. QED
        BY <2>1, <3>2, <3>3
    <2>4. Cardinality(Ups(t)) = Cardinality(Ups(s))
      BY <1>1, <1>4, <2>1
    <2>5. Cardinality(Ups(Append(t, x))) = Cardinality(Ups(Append(s, x)))
      <3>1. CASE x = ".."
        BY <2>2, <2>4, <3>1, UpsAppend
      <3>2. CASE x # ".."
        BY <2>2, <2>4, <3>2, UpsAppend
      <3>3. QED
        BY <3>1, <3>2
    <2>6. QED
      BY <1>1, <2>2, <2>3, <2>5
  <1>5. c \in T
    <2>1. \A s \in Seq(Components) : s \in T
      <3> HIDE DEF T
      <3>1. QED
        BY <1>3, <1>4, <1>2, SequenceInduction DEF Paths
    <2>2. QED
      BY <2>1 DEF Paths
  <1>6. QED
    BY <1>5

(* The paths of a chain that stays below the root are bounded by the depth  *)
(* of the working directory and of the file that is meant.                  *)
THEOREM PathsAreShort == Spec => []PathsStayShort
  <1>1. PathInv => PathsStayShort
    <2> SUFFICES ASSUME PathInv, anchor = "cwd", ~overRoot, hops > 0
                 PROVE  /\ Len(here) <= 1 + Cardinality(Ups(here)) + Len(meant)
                        /\ Cardinality(Ups(here)) <= Len(Cwd)
      BY DEF PathsStayShort
    <2>1. Chained(here, meant, overRoot)
      BY DEF PathInv
    <2>2. PICK c \in Seq(Tame) :
             /\ here = <<".">> \o c /\ Shaped(c)
             /\ Walk(Cwd, c).dir = meant /\ ~Walk(Cwd, c).over
      BY <2>1 DEF Chained
    <2>3. c \in Paths /\ Cwd \in Paths
      BY Sets
    <2>4. /\ Cardinality(Ups(c)) \in Nat /\ Cardinality(Ups(c)) <= Len(Cwd)
          /\ Len(c) <= Cardinality(Ups(c)) + Len(meant)
      BY <2>2, <2>3, ShortPath
    <2>5. Len(here) = 1 + Len(c)
      BY <2>2, <2>3, DotPath
    <2>6. Cardinality(Ups(here)) = Cardinality(Ups(c))
      BY <2>2, <2>3, DottedUps
    <2>7. Len(c) \in Nat /\ Len(meant) \in Nat
      BY <2>2, <2>3, LenProperties, WalkSteps DEF Paths, Pos
    <2>8. QED
      BY <2>4, <2>5, <2>6, <2>7
  <1>2. QED
    BY <1>1, PathInvAlways, PTL
=============================================================================
