-------------------------------- MODULE NameEnv --------------------------------
(***************************************************************************)
(* Names and positions: the environment of binders (NameEnv of             *)
(* semantics/resolve/env.rs) and the two traversals that push and pop it,  *)
(* traverse_accumulate, which turns the variables of an expression into    *)
(* positions, and hir_to_expr, which turns them back into names or,        *)
(* alpha-normalizing, into `_`.                                            *)
(*                                                                         *)
(* An expression is the sequence of tokens its traversal meets: a binder   *)
(* whose body starts, the end of such a body, a variable.  Both traversals *)
(* meet them in one order, that of visit_ref.  Everything else in an       *)
(* expression leaves the environment alone.                                *)
(***************************************************************************)
EXTENDS Integers, Sequences, FiniteSets

CONSTANTS
    Labels,     \* names of variables
    Underscore, \* the name `_`
    Indices,    \* the indices variables are written with, as 1 in x@1
    MaxNodes    \* bound: binders and variables of an expression

ASSUME NameAssumption ==
    /\ Underscore \in Labels
    /\ Indices \subseteq Nat /\ MaxNodes \in Nat

Binders == {"Lam", "Pi", "Let"}
Var(x, n) == [tag |-> "Var", name |-> x, idx |-> n]
Opening(b, x) == [tag |-> "Open", binder |-> b, name |-> x]
Closing == [tag |-> "Close"]
Bound(i) == [tag |-> "Bound", pos |-> i]
Missing(x, n) == [tag |-> "Missing", name |-> x, idx |-> n]

-----------------------------------------------------------------------------
(* NameEnv.  Positions count binders from the innermost, which is the last  *)
(* of `names`.                                                              *)

Positions(names) == 0..(Len(names) - 1)
NameAt(names, i) == names[Len(names) - i]
Named(names, x) == {i \in Positions(names) : NameAt(names, i) = x}
Inside(names, x, i) == {j \in Named(names, x) : j < i}

count_named(names, x) == Cardinality(Named(names, x))

(* unlabel_var: the binder of that name with `n` others of it inside.       *)
Candidates(names, x, n) ==
    {i \in Named(names, x) : Cardinality(Inside(names, x, i)) = n}
unlabel_var(names, x, n) == CHOOSE i \in Candidates(names, x, n) : TRUE

(* label_var.  Mutant: the binder itself is counted.                        *)
label_var_from_one(names, i) ==
    Var(NameAt(names, i), Cardinality(Inside(names, NameAt(names, i), i + 1)))
label_var(names, i) ==
    Var(NameAt(names, i), Cardinality(Inside(names, NameAt(names, i), i)))

Removed(names) == SubSeq(names, 1, Len(names) - 1)

-----------------------------------------------------------------------------
VARIABLES
    phase,      \* resolve, print, done
    alpha,      \* ToExprOptions::alpha of the second traversal
    source,     \* the expression traversed so far
    hir,        \* what traverse_accumulate made of it
    printed,    \* what hir_to_expr made of that
    names,      \* NameEnv::names of the traversal under way
    bodies,     \* how many binders' bodies the traversal is in
    scopes,     \* names at each token of source; for the properties only
    reader      \* the names in scope at the end of printed; likewise

vars == <<phase, alpha, source, hir, printed, names, bodies, scopes, reader>>

Room == Cardinality({k \in DOMAIN source : source[k].tag # "Close"}) < MaxNodes

Traverse(token, resolved) ==
    /\ phase = "resolve"
    /\ source' = Append(source, token)
    /\ hir' = Append(hir, resolved)
    /\ scopes' = Append(scopes, names)
    /\ UNCHANGED <<phase, alpha, printed, reader>>

Enter(b, x) ==
    /\ Room
    /\ Traverse(Opening(b, x), Opening(b, x))
    /\ names' = Append(names, x) /\ bodies' = bodies + 1

(* Mutant: the name of a finished body is not removed.                      *)
LeaveWithoutRemove ==
    /\ bodies > 0
    /\ Traverse(Closing, Closing)
    /\ bodies' = bodies - 1
    /\ UNCHANGED names
Leave ==
    /\ bodies > 0
    /\ Traverse(Closing, Closing)
    /\ names' = Removed(names) /\ bodies' = bodies - 1

Resolve(x, n) ==
    IF Candidates(names, x, n) = {} THEN Missing(x, n)
                                    ELSE Bound(unlabel_var(names, x, n))
UseVar(x, n) ==
    /\ Room
    /\ Traverse(Var(x, n), Resolve(x, n))
    /\ UNCHANGED <<names, bodies>>

(* The second traversal starts with an environment of its own.              *)
StartPrinting ==
    /\ phase = "resolve" /\ bodies = 0
    /\ phase' = "print" /\ names' = <<>>
    /\ UNCHANGED <<alpha, source, hir, printed, bodies, scopes, reader>>

-----------------------------------------------------------------------------
At == Len(printed) + 1
Printing(tag) == phase = "print" /\ At <= Len(hir) /\ hir[At].tag = tag
PrintToken(token) ==
    /\ printed' = Append(printed, token)
    /\ UNCHANGED <<phase, alpha, source, hir, bodies, scopes>>

(* The binder goes into the environment under its own name, whichever name  *)
(* is printed: alpha-normalization renames those of functions and function  *)
(* types.                                                                   *)
PrintedName(b, x) == IF alpha /\ b \in {"Lam", "Pi"} THEN Underscore ELSE x
PrintOpening ==
    /\ Printing("Open")
    /\ LET x == PrintedName(hir[At].binder, hir[At].name) IN
           /\ PrintToken(Opening(hir[At].binder, x))
           /\ reader' = Append(reader, x)
    /\ names' = Append(names, hir[At].name)

PrintClosing ==
    /\ Printing("Close")
    /\ PrintToken(Closing)
    /\ names' = Removed(names) /\ reader' = Removed(reader)

PrintBound ==
    /\ Printing("Bound")
    /\ PrintToken(IF alpha THEN Var(Underscore, hir[At].pos)
                      ELSE label_var(names, hir[At].pos))
    /\ UNCHANGED <<names, reader>>

(* The binders a free variable counted past no longer share its name.       *)
(* Mutant: its index is left alone.                                         *)
FreeIndexUnchanged(x, n) == n
SaturatingSub(m, n) == IF m >= n THEN m - n ELSE 0
FreeIndex(x, n) == IF alpha THEN SaturatingSub(n, count_named(names, x)) ELSE n
PrintMissing ==
    /\ Printing("Missing")
    /\ PrintToken(Var(hir[At].name, FreeIndex(hir[At].name, hir[At].idx)))
    /\ UNCHANGED <<names, reader>>

Finish ==
    /\ phase = "print" /\ At > Len(hir)
    /\ phase' = "done"
    /\ UNCHANGED <<alpha, source, hir, printed, names, bodies, scopes, reader>>

Done == phase = "done" /\ UNCHANGED vars

-----------------------------------------------------------------------------
Init ==
    /\ phase = "resolve" /\ alpha \in BOOLEAN
    /\ source = <<>> /\ hir = <<>> /\ printed = <<>>
    /\ names = <<>> /\ bodies = 0 /\ scopes = <<>> /\ reader = <<>>

Next ==
    \/ \E b \in Binders, x \in Labels : Enter(b, x)
    \/ Leave
    \/ \E x \in Labels, n \in Indices : UseVar(x, n)
    \/ StartPrinting
    \/ PrintOpening \/ PrintClosing \/ PrintBound \/ PrintMissing
    \/ Finish \/ Done

Spec == Init /\ [][Next]_vars

-----------------------------------------------------------------------------
(* What a variable means where it stands: a binder, or a variable of the    *)
(* surroundings with what is left of its index.                             *)
Meaning(scope, v) ==
    IF Candidates(scope, v.name, v.idx) = {}
    THEN Missing(v.name, v.idx - count_named(scope, v.name))
    ELSE Bound(unlabel_var(scope, v.name, v.idx))

(* Types, and that a position is the position of a binder in scope where it *)
(* stands, so that label_var never indexes past the environment.            *)
TokenOK(k) ==
    \/ hir[k] = Closing
    \/ \E b \in Binders, x \in Labels : hir[k] = Opening(b, x)
    \/ \E i \in Positions(scopes[k]) : hir[k] = Bound(i)
    \/ \E x \in Labels, n \in Indices : hir[k] = Missing(x, n)
TypeOK ==
    /\ phase \in {"resolve", "print", "done"} /\ alpha \in BOOLEAN
    /\ names \in Seq(Labels) /\ reader \in Seq(Labels) /\ bodies \in Nat
    /\ scopes \in Seq(Seq(Labels))
    /\ Len(hir) = Len(source) /\ Len(scopes) = Len(source)
    /\ \A k \in DOMAIN hir : TokenOK(k)
    /\ Len(printed) <= Len(hir)

(* The second traversal has, at each token, the binders in scope that the   *)
(* first had: the pushes and pops of the two agree (traverse_accumulate,    *)
(* hir_to_expr).                                                            *)
ScopesAgree ==
    phase = "print" /\ At <= Len(hir) => names = scopes[At]

(* Resolving an expression and converting it back gives the expression, a   *)
(* variable with the name and index it was written with (hir_to_expr        *)
(* without alpha).                                                          *)
NamesComeBack == ~alpha => printed = SubSeq(source, 1, Len(printed))

(* Alpha normalization changes what no variable means: a bound one keeps    *)
(* its binder, a free one stays free with the right index (hir_to_expr with *)
(* alpha), for expressions without `let` and without a free `_`.            *)
Renamable ==
    \A k \in DOMAIN hir :
        /\ hir[k].tag = "Open" => hir[k].binder # "Let"
        /\ hir[k].tag = "Missing" => hir[k].name # Underscore
KeepsMeaning ==
    Printing("Bound") \/ Printing("Missing") =>
        (Len(printed') = At =>
            Meaning(reader, printed'[At]) = Meaning(scopes[At], source[At]))
AlphaKeepsMeaning == [][Renamable => KeepsMeaning]_vars
=============================================================================
