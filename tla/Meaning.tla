------------------------------- MODULE Meaning -------------------------------
(***************************************************************************)
(* What a phase of a program must not change.  The meaning of an           *)
(* expression is defined here for the part of the language whose values    *)
(* are numbers, truth values, texts, lists, optionals and records of them: *)
(* the sets, sequences and functions of TLA+, without any of the           *)
(* normalizer's shortcuts.                                                 *)
(***************************************************************************)
EXTENDS Phases

(***************************************************************************)
(* Programs and their inputs.                                              *)
(***************************************************************************)
RECURSIVE BodyOf(_)
BodyOf(h) == IF h.k = "Lam" THEN BodyOf(h.sub[2]) ELSE h
RECURSIVE Arity(_)
Arity(h) == IF h.k = "Lam" THEN 1 + Arity(h.sub[2]) ELSE 0
Inputs == {[i \in DOMAIN input |-> Eval(<<>>, input[i])] : input \in program.inputs}
Result(f, input) == FoldLeft(app, Eval(<<>>, f), input)

(***************************************************************************)
(* Meaning.                                                                *)
(***************************************************************************)
RECURSIVE MeaningOf(_, _), Denoted(_), IsSimple(_)

OperatorMeaning(o, x, y) ==
    CASE o = "BoolAnd" -> x /\ y
      [] o = "BoolOr" -> x \/ y
      [] o = "BoolEQ" -> x = y
      [] o = "BoolNE" -> x # y
      [] o = "NaturalPlus" -> x + y
      [] o = "NaturalTimes" -> x * y
      [] o \in {"TextAppend", "ListAppend"} -> x \o y
      [] o = "RightBiasedRecordMerge" -> y @@ x
BuiltinMeaning(b, args) ==
    CASE b = "Natural/isZero" -> args[1] = 0
      [] b = "Natural/even" -> \E n \in 0 .. args[1] : args[1] = n + n
      [] b = "Natural/odd" -> ~ \E n \in 0 .. args[1] : args[1] = n + n
      [] b = "Natural/subtract" -> IF args[1] < args[2] THEN args[2] - args[1] ELSE 0
      [] b = "Natural/toInteger" -> args[1]
      [] b = "Integer/negate" -> -args[1]
      [] b = "Integer/clamp" -> IF args[1] \in Nat THEN args[1] ELSE 0
      [] b = "List/length" -> Len(args[2])
      [] b = "List/reverse" ->
            [i \in DOMAIN args[2] |-> args[2][Len(args[2]) + 1 - i]]
      [] b = "List/head" -> IF args[2] = <<>> THEN <<>> ELSE <<args[2][1]>>
      [] b = "List/last" -> IF args[2] = <<>> THEN <<>> ELSE <<args[2][Len(args[2])]>>
      [] b = "List/indexed" ->
            [i \in DOMAIN args[2] |-> [index |-> i - 1, value |-> args[2][i]]]
(* A builtin with its arguments, types included.                            *)
RECURSIVE Called(_)
Called(h) == IF h.k = "App" THEN Called(h.sub[1]) ELSE h
RECURSIVE Passed(_)
Passed(h) == IF h.k = "App" THEN Append(Passed(h.sub[1]), h.sub[2]) ELSE <<>>
ArityOf ==
    [b \in {"Natural/isZero", "Natural/even", "Natural/odd", "Natural/toInteger",
            "Integer/negate", "Integer/clamp"} |-> 1]
    @@ [b \in {"Natural/subtract", "List/length", "List/reverse", "List/head",
               "List/last", "List/indexed"} |-> 2]

Simple == {"Var", "Bool", "Natural", "BoolIf", "TextLit", "SomeLit", "EmptyListLit",
           "NEListLit", "RecordLit", "Field", "Projection"}
IsSimple(h) ==
    \/ h.k \in Simple /\ \A i \in DOMAIN h.sub : h.k = "EmptyListLit" \/ IsSimple(h.sub[i])
    \/ /\ h.k = "BinOp"
       /\ h.lab[1] \notin {"RecursiveRecordMerge", "RecursiveRecordTypeMerge", "Equivalence"}
       /\ IsSimple(h.sub[1]) /\ IsSimple(h.sub[2])
    \/ /\ h.k = "App" /\ Called(h).k = "Builtin" /\ Called(h).lab[1] \in DOMAIN ArityOf
       /\ Len(Passed(h)) = ArityOf[Called(h).lab[1]]
       /\ IsSimple(Last(Passed(h)))
       /\ Called(h).lab[1] = "Natural/subtract" => IsSimple(Passed(h)[1])
(* A list is an optional with no or one element, a record a function.       *)
MeaningOf(env, h) ==
    LET m == [i \in DOMAIN h.sub |-> MeaningOf(env, h.sub[i])] IN
    CASE h.k = "Var" -> env[Len(env) - h.n]
      [] h.k = "Bool" -> h.lab[1] = "True"
      [] h.k = "Natural" -> h.n
      [] h.k = "BoolIf" -> IF m[1] THEN m[2] ELSE m[3]
      [] h.k = "TextLit" ->
            FoldLeft(LAMBDA t, i : t \o m[i] \o h.lab[i + 1], h.lab[1],
                     [i \in DOMAIN h.sub |-> i])
      [] h.k \in {"SomeLit", "NEListLit"} -> m
      [] h.k = "EmptyListLit" -> <<>>
      [] h.k = "RecordLit" ->
            [l \in Labels(h) |-> m[CHOOSE i \in DOMAIN h.lab : h.lab[i] = l]]
      [] h.k = "Field" -> m[1][h.lab[1]]
      [] h.k = "Projection" -> [l \in Labels(h) |-> m[1][l]]
      [] h.k = "BinOp" -> OperatorMeaning(h.lab[1], m[1], m[2])
      [] h.k = "App" ->
            LET args == Passed(h) IN
            BuiltinMeaning(Called(h).lab[1],
                [i \in DOMAIN args |-> IF IsSimple(args[i]) THEN MeaningOf(env, args[i]) ELSE 0])
(* What a value stands for.                                                 *)
Denoted(v) ==
    LET d == [i \in DOMAIN v.sub |-> Denoted(v.sub[i])] IN
    CASE v.k = "Bool" -> v.lab[1] = "True"
      [] v.k \in {"Natural", "Integer"} -> v.n
      [] v.k = "TextLit" /\ IsPlain(v) -> as_text(v)
      [] v.k \in {"SomeLit", "NEListLit"} -> d
      [] v.k \in {"EmptyListLit", "EmptyOptionalLit"} -> <<>>
      [] v.k = "UnionConstructor" -> v.lab
      [] v.k = "UnionLit" -> <<v.lab[1], d[1]>>
      [] v.k = "RecordLit" -> [l \in Labels(v) |-> d[CHOOSE i \in DOMAIN v.lab : v.lab[i] = l]]

(***************************************************************************)
(* Values of closed programs.                                              *)
(***************************************************************************)
(* An operation that was left, or a builtin that has all its arguments.     *)
FullArity ==
    ArityOf @@ [b \in {"Natural/show", "Integer/show", "Natural/build"} |-> 1]
            @@ [b \in {"List/build"} |-> 2] @@ [b \in {"Text/replace"} |-> 3]
            @@ [b \in {"Natural/fold"} |-> 4] @@ [b \in {"List/fold"} |-> 5]
IsStuck(v) ==
    \/ v.k \in {"App", "BinOp", "BoolIf", "Merge", "ToMap", "Field", "Projection",
                "ProjectionByExpr", "With", "NzVar", "Fresh", "Panic"}
    \/ /\ v.k = "AppliedBuiltin" /\ v.lab[1] \in DOMAIN FullArity
       /\ Len(v.sub) = FullArity[v.lab[1]]
RECURSIVE AnyStuck(_)
(* Closures are not looked into.                                            *)
AnyStuck(v) ==
    \/ IsStuck(v)
    \/ ~IsClosure(v) /\ \E i \in DOMAIN v.sub : AnyStuck(v.sub[i])
RECURSIVE Mentions(_, _)
Mentions(h, ks) == h.k \in ks \/ \E i \in DOMAIN h.sub : Mentions(h.sub[i], ks)
RECURSIVE Uses(_, _)
Uses(h, part) == h = part \/ \E i \in DOMAIN h.sub : Uses(h.sub[i], part)
(* Texts with their chunks joined.                                          *)
RECURSIVE Squashed(_)
Squashed(v) ==
    IF IsClosure(v) THEN v
    ELSE LET parts == [i \in DOMAIN v.sub |-> Squashed(v.sub[i])]
         IN  [v EXCEPT !.sub = IF v.k = "TextLit" THEN squash_textlit(parts) ELSE parts]

(***************************************************************************)
(* Properties.                                                             *)
(***************************************************************************)

(* Neither checking an expression, well typed or not, nor normalizing one   *)
(* that is reaches a panic: the unwraps and unreachables of typecheck.rs,   *)
(* tir.rs and normalize.rs hold, and no variable of a comparison escapes    *)
(* into a type or a normal form (NzVar::idx).                               *)
CheckerNeverPanics ==
    /\ type.res # "panic"
    /\ stage = "normalized" => ~Mentions(normal, {"Panic", "Fresh"})

(* A program that is refused or not depends only on what it does: once it   *)
(* is well typed its closed results are values, and no operation is left    *)
(* that the checker should have refused (a missing handler or field, a      *)
(* condition that is not a Bool).                                           *)
WellTypedDoesNotGetStuck ==
    stage = "normalized" => \A input \in Inputs : ~AnyStuck(Result(expr, input))

(* Normalizing a program and then applying it, as an importing program      *)
(* does, gives what applying the program itself gives: no shortcut for an   *)
(* operand that is not known yet disagrees with the operation on any value  *)
(* that it may turn out to have.  Texts are compared by their content: two  *)
(* values of one text differ where Text/replace made one of them.           *)
NormalFormsMeanTheSame ==
    stage = "normalized" =>
        \A input \in Inputs :
            Same(Squashed(Result(expr, input)), Squashed(Result(normal, input)))

(* The results of programs over numbers, truth values, texts, lists,        *)
(* optionals and records are the ones their meaning demands.                *)
ResultsAreTheirMeaning ==
    stage = "normalized" /\ IsSimple(BodyOf(expr)) =>
        \A input \in {i \in Inputs : Len(i) = Arity(expr)} :
            Denoted(Result(normal, input))
                = MeaningOf([i \in DOMAIN input |-> Denoted(input[i])], BodyOf(expr))

(* A program that is read from a cache file, one with the digest it is      *)
(* filed under, is the program that was normalized: it is well typed, with  *)
(* its type (a cached import has the type that is found for its normal      *)
(* form), and a normal form that cannot be normalized further, up to the    *)
(* names of binders.  Text/replace is left out: it leaves texts that are    *)
(* normalized further when they are read back.  Nothing is said of files    *)
(* without the digest, which those of this code are when a binder has a     *)
(* name (CacheFilesVerify).                                                 *)
CachedFormIsTheSame ==
    ~Uses(program.function, Builtin("Text/replace")) => \A f \in fetched :
        /\ stage \in {"typed", "normalized"} => Same(type.val, f.type.val)
        /\ stage = "normalized" => alpha(normal) = alpha(f.normal)
        /\ stage # "refused"

(* assert accepts two expressions only if their normal forms are equal up   *)
(* to the names of binders, and refuses two that can be compared only if    *)
(* they are not, unless Text/replace is used: this makes the empty text in  *)
(* a form of its own, which is not equal to a literal's (TextLit::from_text *)
(* and the equality of nir.rs).                                             *)
AssertionsDecideEquality ==
    LET a == BodyOf(expr) IN
    a.k = "Assert" /\ a.sub[1].k = "BinOp" /\ a = expr =>
        LET Nf(i) == alpha(to_hir(Eval(<<>>, a.sub[1].sub[i]), 0)) IN
        /\ stage \in {"typed", "normalized"} => Nf(1) = Nf(2)
        /\ stage = "refused" /\ IsTyped(typecheck(a.sub[1]))
           /\ ~Uses(a, Builtin("Text/replace"))
           => Nf(1) # Nf(2)

(* An annotation with the type that an expression has is accepted           *)
(* (typecheck_with, "additionally checks that the expression's type matches *)
(* the provided type").                                                     *)
TypesMatchThemselves ==
    stage = "typed" =>
        IsTyped(typecheck(Annot(expr, to_hir(type.val, 0))))
=============================================================================
