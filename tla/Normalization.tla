---------------------------- MODULE Normalization ----------------------------
(***************************************************************************)
(* Evaluation of resolved expressions (dhall/src/semantics/nze/,           *)
(* operations/normalization.rs, builtins.rs).                              *)
(*                                                                         *)
(* A resolved expression (Hir) is an expression of Syntax in which every   *)
(* variable is Var("_", n): n binders lie between it and its own.  A value *)
(* (Nir) is a node too, in weak head normal form; values are computed at   *)
(* once instead of on demand.  A text is a string, a text value a list of  *)
(* chunks.  Doubles, and imports other than resolved ones, are left out.   *)
(***************************************************************************)
EXTENDS Syntax, TLC

CONSTANTS
    LabelOrder,     \* the labels, in their order
    Loaded          \* the closed expressions that imports resolved to

ImportedExpr(i) == Numbered("Import", <<>>, i)
ImportAlternative(selected, x, y) ==
    E("ImportAlternative", <<IF selected THEN "left" ELSE "right">>, <<x, y>>)

(***************************************************************************)
(* Values.                                                                 *)
(***************************************************************************)
Bound(level) == Numbered("NzVar", <<>>, level)
Fresh(id) == Numbered("Fresh", <<>>, id)
AppliedBuiltin(b, args) == E("AppliedBuiltin", <<b>>, args)
ListType(t) == E("ListType", <<>>, <<t>>)
OptionalType(t) == E("OptionalType", <<>>, <<t>>)
EmptyOptionalLit(t) == E("EmptyOptionalLit", <<>>, <<t>>)
UnionConstructor(l, u) == E("UnionConstructor", <<l>>, <<u>>)
UnionLit(l, v, u) == E("UnionLit", <<l>>, <<v, u>>)
Chars(s) == E("Chars", <<s>>, <<>>)
Text(chunks) == E("TextLit", <<>>, chunks)
from_text(s) == Text(<<Chars(s)>>)
(* What a computation that panics is worth.                                 *)
Panic == E("Panic", <<>>, <<>>)

(* The body of a closure waits for a value; a constant closure has none to  *)
(* wait for.                                                                *)
Closure(k, x, annot, env, body) ==
    [k |-> k, lab |-> <<x>>, n |-> 0, sub |-> <<annot>>,
     env |-> env, body |-> body, constant |-> FALSE]
ConstantClosure(k, x, annot, body) ==
    [Closure(k, x, annot, <<>>, body) EXCEPT !.constant = TRUE]
IsClosure(v) == v.k \in {"LamClosure", "PiClosure"}

(* Records, record types and unions, whose labels are in their order.       *)
Labels(r) == ToSet(r.lab)
Get(r, l) == r.sub[CHOOSE i \in DOMAIN r.lab : r.lab[i] = l]
Fields(k, ls, Value(_)) ==
    LET order == SelectSeq(LabelOrder, LAMBDA l : l \in ls)
    IN  E(k, order, [i \in DOMAIN order |-> Value(order[i])])
RecordWith(r, l, v) ==
    Fields(r.k, Labels(r) \cup {l}, LAMBDA m : IF m = l THEN v ELSE Get(r, m))
merge_maps(r1, r2, Both(_, _)) ==
    Fields(r1.k, Labels(r1) \cup Labels(r2),
           LAMBDA l : IF l \notin Labels(r1) THEN Get(r2, l)
                      ELSE IF l \notin Labels(r2) THEN Get(r1, l)
                      ELSE Both(Get(r1, l), Get(r2, l)))
IsRecord(v) == v.k = "RecordLit"
IsEmptyRecord(v) == IsRecord(v) /\ v.lab = <<>>
IsList(v) == v.k \in {"EmptyListLit", "NEListLit"}
(* EmptyListLit(t) is worth [] : List t.                                    *)
Elements(v) == IF v.k = "NEListLit" THEN v.sub ELSE <<>>

(* Text values.                                                             *)
Splice(chunks) ==
    FlattenSeq([i \in DOMAIN chunks |-> IF chunks[i].k = "TextLit"
                                        THEN chunks[i].sub ELSE <<chunks[i]>>])
AddChunk(chunks, c) ==
    IF c.k = "Chars" /\ chunks # <<>> /\ Last(chunks).k = "Chars"
    THEN Append(Front(chunks), Chars(Last(chunks).lab[1] \o c.lab[1]))
    ELSE Append(chunks, c)
squash_textlit(chunks) ==
    SelectSeq(FoldLeft(AddChunk, <<>>, Splice(chunks)),
              LAMBDA c : ~(c.k = "Chars" /\ c.lab = <<"">>))
(* The chunks of a literal with these texts around these values.            *)
Interpolation(texts, vs) ==
    FlattenSeq([i \in DOMAIN texts |->
                  <<Chars(texts[i])>> \o IF i \in DOMAIN vs THEN <<vs[i]>> ELSE <<>>])
(* The other way: a text before, between and after the values.              *)
AroundChunk(acc, c) ==
    IF c.k = "Chars"
    THEN [acc EXCEPT !.lab = Append(Front(@), Last(@) \o c.lab[1])]
    ELSE [acc EXCEPT !.lab = Append(@, ""), !.sub = Append(@, c)]
ToInterpolation(chunks) == FoldLeft(AroundChunk, TextLit(<<"">>, <<>>), chunks)
Single(chunks) == Len(chunks) = 1 /\ chunks[1].k # "Chars"
text_value(chunks) == IF Single(chunks) THEN chunks[1] ELSE Text(chunks)
IsPlain(v) ==
    v.k = "TextLit" /\ (v.sub = <<>> \/ (Len(v.sub) = 1 /\ v.sub[1].k = "Chars"))
as_text(v) == IF v.sub = <<>> THEN "" ELSE v.sub[1].lab[1]

RECURSIVE split(_, _, _)
(* The pieces of s between occurrences of the needle, from the left; the    *)
(* first i letters of s hold none.                                          *)
split(s, needle, i) ==
    CASE i + Len(needle) > Len(s) -> <<s>>
      [] /\ i + Len(needle) <= Len(s)
         /\ SubSeq(s, i + 1, i + Len(needle)) = needle ->
            <<SubSeq(s, 1, i)>> \o split(SubSeq(s, i + Len(needle) + 1, Len(s)), needle, 0)
      [] OTHER -> split(s, needle, i + 1)

(***************************************************************************)
(* Evaluation.  An environment holds the value of every variable in scope; *)
(* a variable that has none is worth its own level.                        *)
(***************************************************************************)
(* These call one another, in every order: one recursive operator has them  *)
(* all, by name, and each is defined below.                                 *)
RECURSIVE Compute(_, _, _)
Eval(env, h) == Compute("eval", env, h)
app(f, a) == Compute("app", f, a)
BuiltinClosure(b, args) == Compute("builtin", b, args)
Operation(e) == Compute("operation", e, <<>>)
(* Equality of values.  Binders have names but no part in it.               *)
Same(x, y) == Compute("same", x, y)
remove_binder(c) == Compute("remove_binder", c, <<>>)

Kept(env) == Append(env, Bound(Len(env)))
lookup_val(env, h) == env[Len(env) - h.n]

apply_closure(c, v) ==
    IF c.constant THEN c.body ELSE Eval(Append(c.env, v), c.body)
apply_any(f, a) ==
    CASE f.k = "LamClosure" -> apply_closure(f, a)
      [] f.k = "AppliedBuiltin" -> BuiltinClosure(f.lab[1], Append(f.sub, a))
      [] f.k = "UnionConstructor" -> UnionLit(f.lab[1], a, f.sub[1])
      [] OTHER -> App(f, a)
app3(f, a, b, c) == app(app(app(f, a), b), c)

RECURSIVE FreshIds(_)
(* A variable that neither value has met: the ids of NzVar::fresh come from *)
(* a counter.                                                               *)
FreshIds(v) ==
    (IF v.k = "Fresh" THEN {v.n} ELSE {})
    \cup UNION {FreshIds(v.sub[i]) : i \in DOMAIN v.sub}
    \cup CASE IsClosure(v) /\ v.constant -> FreshIds(v.body)
           [] IsClosure(v) /\ ~v.constant ->
                UNION {FreshIds(v.env[i]) : i \in DOMAIN v.env}
           [] OTHER -> {}
NewId(ids) == IF ids = {} THEN 0 ELSE 1 + CHOOSE i \in ids : \A j \in ids : j <= i

(* Mutant: the variable two closures are compared on is always the same.    *)
ComparisonVariableZero(c, d) == Fresh(0)
ComparisonVariable(c, d) == Fresh(NewId(FreshIds(c) \cup FreshIds(d)))
SameKind(x, y) ==
    /\ x.k = y.k
    /\ IF IsClosure(x)
       THEN /\ Same(x.sub[1], y.sub[1])
            /\ \A v \in {ComparisonVariable(x, y)} :
                  Same(apply_closure(x, v), apply_closure(y, v))
       ELSE /\ x.n = y.n /\ x.lab = y.lab /\ Len(x.sub) = Len(y.sub)
            /\ \A i \in DOMAIN x.sub : Same(x.sub[i], y.sub[i])
(* The body of a closure that does not use its variable, as a set.          *)
BodyWithoutBinder(c) ==
    LET id == NewId(FreshIds(c)) IN
    {body \in {apply_closure(c, Fresh(id))} :
        c.constant \/ Same(body, apply_closure(c, Fresh(id + 1)))}

(* Builtin expressions keep their kind as values when they name a type.     *)
normalize_one_layer(e) ==
    CASE e.k = "TextLit" -> text_value(squash_textlit(Interpolation(e.lab, e.sub)))
      [] e.k = "EmptyListLit" ->
            IF e.sub[1].k = "ListType" THEN EmptyListLit(e.sub[1].sub[1]) ELSE Panic
      [] e.k = "Annot" -> e.sub[1]
      [] e.k \in {"Const", "Bool", "Natural", "Integer", "SomeLit", "NEListLit",
                  "RecordLit", "RecordType", "UnionType", "NoPayload", "Assert"} -> e
      [] OTHER -> Operation(e)

normalize_hir(env, h) ==
    CASE h.k = "Var" -> lookup_val(env, h)
      [] h.k = "Import" -> Eval(env, Loaded[h.n])
      [] h.k = "ImportAlternative" ->
            Eval(env, IF h.lab = <<"left">> THEN h.sub[1] ELSE h.sub[2])
      [] h.k = "Lam" ->
            Closure("LamClosure", h.lab[1], Eval(env, h.sub[1]), env, h.sub[2])
      [] h.k = "Pi" ->
            Closure("PiClosure", h.lab[1], Eval(env, h.sub[1]), env, h.sub[2])
      [] h.k = "Let" ->
            Eval(Append(env, Eval(env, h.sub[Len(h.sub) - 1])), Last(h.sub))
      [] h.k = "Builtin" -> BuiltinClosure(h.lab[1], <<>>)
      [] OTHER ->
            normalize_one_layer([h EXCEPT !.sub = [i \in DOMAIN h.sub |-> Eval(env, h.sub[i])]])

(***************************************************************************)
(* Operators.                                                              *)
(***************************************************************************)
True == Bool("True")
False == Bool("False")
IsBool(x, b) == x.k = "Bool" /\ x.lab = <<b>>
IsNatural(x, n) == x.k = "Natural" /\ x.n = n

(* The literals that leave the other operand alone, those that decide       *)
(* whatever the other one is, and what equal operands make.                 *)
IsUnit(o, x) ==
    \/ o \in {"BoolAnd", "BoolEQ"} /\ IsBool(x, "True")
    \/ o \in {"BoolOr", "BoolNE"} /\ IsBool(x, "False")
    \/ o = "NaturalPlus" /\ IsNatural(x, 0)
    \/ o = "NaturalTimes" /\ IsNatural(x, 1)
    \/ o = "ListAppend" /\ x.k = "EmptyListLit"
    \/ o = "TextAppend" /\ x.k = "TextLit" /\ x.sub = <<>>
    \/ o \in {"RightBiasedRecordMerge", "RecursiveRecordMerge"} /\ IsEmptyRecord(x)
IsAbsorbing(o, x) ==
    \/ o = "BoolAnd" /\ IsBool(x, "False")
    \/ o = "BoolOr" /\ IsBool(x, "True")
    \/ o = "NaturalTimes" /\ IsNatural(x, 0)
(* Mutant: x != x is taken for x, as it is for the other Booleans.          *)
EqualOperandsAsOr(o, x) ==
    CASE o \in {"BoolAnd", "BoolOr", "BoolNE", "RightBiasedRecordMerge"} -> x
      [] o = "BoolEQ" -> True
EqualOperands(o, x) ==
    CASE o \in {"BoolAnd", "BoolOr", "RightBiasedRecordMerge"} -> x
      [] o = "BoolEQ" -> True
      [] o = "BoolNE" -> False
(* Both operands are literals, neither of them a unit or absorbing.         *)
Combined(o, x, y) ==
    CASE o = "NaturalPlus" -> Natural(x.n + y.n)
      [] o = "NaturalTimes" -> Natural(x.n * y.n)
      [] o = "ListAppend" -> NEListLit(x.sub \o y.sub)
      [] o = "RightBiasedRecordMerge" -> merge_maps(x, y, LAMBDA v, w : w)
      [] o \in {"RecursiveRecordMerge", "RecursiveRecordTypeMerge"} ->
            merge_maps(x, y, LAMBDA v, w : Operation(BinOp(o, v, w)))
LiteralOf == [NaturalPlus |-> "Natural", NaturalTimes |-> "Natural",
              ListAppend |-> "NEListLit", RightBiasedRecordMerge |-> "RecordLit",
              RecursiveRecordMerge |-> "RecordLit",
              RecursiveRecordTypeMerge |-> "RecordType"]
(* The chunks of an operand of ++.                                          *)
ChunksOf(x) == IF x.k = "TextLit" THEN x.sub ELSE <<x>>

normalize_binop(o, x, y) ==
    IF IsUnit(o, y) \/ IsUnit(o, x)
    THEN IF IsUnit(o, y) THEN x ELSE y
    ELSE CASE IsAbsorbing(o, x) -> x
           [] ~IsAbsorbing(o, x) /\ IsAbsorbing(o, y) -> y
           [] o = "TextAppend" -> Text(squash_textlit(ChunksOf(x) \o ChunksOf(y)))
           [] o = "Equivalence" -> E("Equivalence", <<>>, <<x, y>>)
           [] o \in DOMAIN LiteralOf /\ x.k = LiteralOf[o] /\ y.k = LiteralOf[o] ->
                 Combined(o, x, y)
           [] OTHER ->
                 IF /\ o \in {"BoolAnd", "BoolOr", "BoolEQ", "BoolNE",
                              "RightBiasedRecordMerge"}
                    /\ Same(x, y)
                 THEN EqualOperands(o, x)
                 ELSE BinOp(o, x, y)

(* A merge with a record literal is selected from without the other side    *)
(* where it decides.  Recursive merges need both sides of the field.        *)
RECURSIVE normalize_field(_, _)
OnlyField(r, l) == RecordLit(<<l>>, <<Get(r, l)>>)
(* Mutant: the left of a right-biased merge decides.                        *)
FieldOfMergeLeft(v, l) ==
    LET o == v.lab[1]
        x == v.sub[1]
        y == v.sub[2]
    IN  CASE IsRecord(x) /\ l \in Labels(x) -> Get(x, l)
          [] IsRecord(x) /\ l \notin Labels(x) -> normalize_field(y, l)
          [] ~IsRecord(x) /\ IsRecord(y) /\ l \in Labels(y) ->
                Field(BinOp(o, x, OnlyField(y, l)), l)
          [] ~IsRecord(x) /\ IsRecord(y) /\ l \notin Labels(y) -> normalize_field(x, l)
          [] OTHER -> Field(v, l)
FieldOfMerge(v, l) ==
    LET o == v.lab[1]
        x == v.sub[1]
        y == v.sub[2]
        right == o = "RightBiasedRecordMerge"
    IN  CASE IsRecord(x) /\ l \in Labels(x) -> Field(BinOp(o, OnlyField(x, l), y), l)
          [] IsRecord(x) /\ l \notin Labels(x) -> normalize_field(y, l)
          [] ~IsRecord(x) /\ IsRecord(y) /\ l \in Labels(y) ->
                IF right THEN Get(y, l) ELSE Field(BinOp(o, x, OnlyField(y, l)), l)
          [] ~IsRecord(x) /\ IsRecord(y) /\ l \notin Labels(y) -> normalize_field(x, l)
          [] OTHER -> Field(v, l)
normalize_field(v, l) ==
    CASE IsRecord(v) /\ l \in Labels(v) -> Get(v, l)
      [] v.k = "UnionType" -> UnionConstructor(l, v)
      [] v.k = "Projection" -> normalize_field(v.sub[1], l)
      [] v.k = "BinOp" /\ v.lab[1] \in {"RightBiasedRecordMerge", "RecursiveRecordMerge"} ->
            FieldOfMerge(v, l)
      [] OTHER -> Field(v, l)

InOrder(ls) == SelectSeq(LabelOrder, LAMBDA l : l \in ls)
ProjectedMerge(m, ls) ==
    LET right == Labels(m.sub[2]) IN
    Operation(BinOp("RightBiasedRecordMerge",
        Operation(Projection(m.sub[1], InOrder(ls \ right))),
        Operation(Projection(m.sub[2], InOrder(ls \cap right)))))
normalize_projection(v, ls) ==
    CASE ls = {} -> RecordLit(<<>>, <<>>)
      [] ls # {} /\ IsRecord(v) ->
            Fields("RecordLit", ls \cap Labels(v), LAMBDA l : Get(v, l))
      [] ls # {} /\ v.k = "Projection" ->
            Operation(Projection(v.sub[1], InOrder(ls)))
      [] /\ ls # {} /\ v.k = "BinOp" /\ v.lab[1] = "RightBiasedRecordMerge"
         /\ IsRecord(v.sub[2]) -> ProjectedMerge(v, ls)
      [] OTHER -> Projection(v, InOrder(ls))

(* The handler of a variant, and what it is applied to.                     *)
VariantOf(v) ==
    CASE v.k \in {"UnionConstructor", "UnionLit"} -> v.lab[1]
      [] v.k = "EmptyOptionalLit" -> "None"
      [] v.k = "SomeLit" -> "Some"
      [] OTHER -> "no variant"
normalize_merge(e) ==
    LET handlers == e.sub[1]
        scrut == e.sub[2]
        handler == Get(handlers, VariantOf(scrut))
    IN  CASE ~(IsRecord(handlers) /\ VariantOf(scrut) \in Labels(handlers)) -> e
          [] scrut.k \in {"UnionLit", "SomeLit"} -> app(handler, scrut.sub[1])
          [] OTHER -> handler

MapEntry(l, v) == RecordLit(<<"mapKey", "mapValue">>, <<from_text(l), v>>)
normalize_tomap(e) ==
    LET r == e.sub[1] IN
    CASE IsEmptyRecord(r) /\ Len(e.sub) = 2 /\ Last(e.sub).k = "ListType" ->
            EmptyListLit(e.sub[2].sub[1])
      [] IsRecord(r) /\ r.lab # <<>> ->
            NEListLit([i \in DOMAIN r.lab |-> MapEntry(r.lab[i], r.sub[i])])
      [] OTHER -> e

RECURSIVE normalize_with(_, _, _)
(* Records that are missing on the way are created.                         *)
normalize_with(r, path, v) ==
    CASE path = <<>> -> v
      [] path # <<>> /\ IsRecord(r) ->
            LET inner == IF path[1] \in Labels(r) THEN Get(r, path[1])
                         ELSE RecordLit(<<>>, <<>>)
            IN  RecordWith(r, path[1], normalize_with(inner, Tail(path), v))
      [] path # <<>> /\ ~IsRecord(r) -> With(r, path, v)

normalize_if(e) ==
    LET b == e.sub[1]
        x == e.sub[2]
        y == e.sub[3]
    IN  CASE IsBool(b, "True") -> x
          [] IsBool(b, "False") -> y
          [] b.k # "Bool" /\ IsBool(x, "True") /\ IsBool(y, "False") -> b
          [] b.k # "Bool" /\ Same(x, y) -> x
          [] OTHER -> e

normalize_operation(e) ==
    CASE e.k = "App" -> app(e.sub[1], e.sub[2])
      [] e.k = "BinOp" -> normalize_binop(e.lab[1], e.sub[1], e.sub[2])
      [] e.k = "BoolIf" -> normalize_if(e)
      [] e.k = "Merge" -> normalize_merge(e)
      [] e.k = "ToMap" -> normalize_tomap(e)
      [] e.k = "Field" -> normalize_field(e.sub[1], e.lab[1])
      [] e.k = "Projection" -> normalize_projection(e.sub[1], ToSet(e.lab))
      [] e.k = "ProjectionByExpr" ->
            IF e.sub[2].k = "RecordType"
            THEN normalize_projection(e.sub[1], Labels(e.sub[2])) ELSE e
      [] e.k = "With" -> normalize_with(e.sub[1], e.lab, e.sub[2])
      [] OTHER -> Panic

(***************************************************************************)
(* Builtins.  One that cannot be reduced yet keeps its arguments.          *)
(***************************************************************************)
ShowInteger(n) == IF n < 0 THEN ToString(n) ELSE "+" \o ToString(n)
(* Truncated subtraction, the first operand from the second.                *)
NaturalSubtract(a, b) ==
    CASE a.k = "Natural" /\ b.k = "Natural" ->
            Natural(IF b.n > a.n THEN b.n - a.n ELSE 0)
      [] IsNatural(a, 0) /\ b.k # "Natural" -> b
      [] IsNatural(b, 0) /\ a.k # "Natural" -> Natural(0)
      [] a.k # "Natural" /\ b.k # "Natural" /\ Same(a, b) -> Natural(0)
      [] OTHER -> AppliedBuiltin("Natural/subtract", <<a, b>>)
apply_numeric_builtin(b, n) ==
    CASE b = "Natural/isZero" -> IF n.n = 0 THEN True ELSE False
      [] b = "Natural/even" -> IF n.n % 2 = 0 THEN True ELSE False
      [] b = "Natural/odd" -> IF n.n % 2 = 0 THEN False ELSE True
      [] b = "Natural/toInteger" -> Integer(n.n)
      [] b = "Natural/show" -> from_text(ToString(n.n))
      [] b = "Integer/show" -> from_text(ShowInteger(n.n))
      [] b = "Integer/negate" -> Integer(-n.n)
      [] b = "Integer/clamp" -> Natural(IF n.n < 0 THEN 0 ELSE n.n)
NumericBuiltins ==
    [b \in {"Natural/isZero", "Natural/even", "Natural/odd",
            "Natural/toInteger", "Natural/show"} |-> "Natural"]
    @@ [b \in {"Integer/show", "Integer/negate", "Integer/clamp"} |-> "Integer"]

(* A replacement that is not known yet is left between the pieces.          *)
Between(by, parts) ==
    squash_textlit(FlattenSeq([i \in DOMAIN parts |->
        <<Chars(parts[i])>> \o IF i = Len(parts) THEN <<>> ELSE ChunksOf(by)]))
WholeText(text, plain) == IF plain THEN from_text(as_text(text)) ELSE text
Replaced(by, parts) == WholeText(Text(Between(by, parts)), IsPlain(by))
TextReplace(needle, by, text) ==
    CASE IsPlain(needle) /\ as_text(needle) = "" -> text
      [] /\ IsPlain(needle) /\ as_text(needle) # "" /\ IsPlain(text) ->
            Replaced(by, split(as_text(text), as_text(needle), 0))
      [] OTHER -> AppliedBuiltin("Text/replace", <<needle, by, text>>)

IndexedType(t) == RecordType(<<"index", "value">>, <<Builtin("Natural"), t>>)
(* Mutant: an empty list keeps its type when it is indexed.                 *)
NothingIndexedAsBefore(t) == EmptyListLit(t)
NothingIndexed(t) == EmptyListLit(IndexedType(t))
Indexed(i, v) == RecordLit(<<"index", "value">>, <<Natural(i - 1), v>>)
apply_list_builtin(b, t, l) ==
    LET xs == Elements(l) IN
    CASE b = "List/length" -> Natural(Len(xs))
      [] b = "List/head" -> IF xs = <<>> THEN EmptyOptionalLit(l.sub[1]) ELSE SomeLit(xs[1])
      [] b = "List/last" -> IF xs = <<>> THEN EmptyOptionalLit(l.sub[1]) ELSE SomeLit(Last(xs))
      [] b = "List/reverse" -> IF xs = <<>> THEN l ELSE NEListLit(Reverse(xs))
      [] b = "List/indexed" ->
            IF xs = <<>> THEN NothingIndexed(t)
            ELSE NEListLit([i \in DOMAIN xs |-> Indexed(i, xs[i])])
ListBuiltins == {"List/length", "List/head", "List/last", "List/reverse", "List/indexed"}

(* The closures that List/build and Natural/build hand to their argument.   *)
V(n) == Var("_", n)
ConsClosure ==
    Eval(<<>>, Lam("T", Const("Type"), Lam("a", V(0),
                 Lam("as", App(Builtin("List"), V(1)),
                     BinOp("ListAppend", NEListLit(<<V(1)>>), V(0))))))
SuccClosure == Eval(<<>>, Lam("x", Builtin("Natural"), BinOp("NaturalPlus", V(0), Natural(1))))
ListBuild(t, f) ==
    app3(f, ListType(t), app(ConsClosure, t), EmptyListLit(t))
NaturalBuild(f) == app3(f, Builtin("Natural"), SuccClosure, Natural(0))
ListFold(xs, cons, nil) ==
    FoldLeft(LAMBDA v, x : app(app(cons, x), v), nil, Reverse(xs))
NaturalFold(args) ==
    IF args[1].n = 0 THEN args[4]
    ELSE app(args[3],
             BuiltinClosure("Natural/fold",
                            <<Natural(args[1].n - 1), args[2], args[3], args[4]>>))

Types == {"Bool", "Natural", "Integer", "Double", "Text"}
apply_builtin(b, args) ==
    CASE b \in Types /\ args = <<>> -> Builtin(b)
      [] b = "List" /\ Len(args) = 1 -> ListType(args[1])
      [] b = "Optional" /\ Len(args) = 1 -> OptionalType(args[1])
      [] b = "None" /\ Len(args) = 1 -> EmptyOptionalLit(args[1])
      [] /\ b \in DOMAIN NumericBuiltins /\ Len(args) = 1
         /\ args[1].k = NumericBuiltins[b] -> apply_numeric_builtin(b, args[1])
      [] b = "Natural/subtract" /\ Len(args) = 2 -> NaturalSubtract(args[1], args[2])
      [] b = "Text/replace" /\ Len(args) = 3 -> TextReplace(args[1], args[2], args[3])
      [] b \in ListBuiltins /\ Len(args) = 2 /\ IsList(args[2]) ->
            apply_list_builtin(b, args[1], args[2])
      [] b = "List/build" /\ Len(args) = 2 -> ListBuild(args[1], args[2])
      [] b = "List/fold" /\ Len(args) = 5 /\ IsList(args[2]) ->
            ListFold(Elements(args[2]), args[4], args[5])
      [] b = "Natural/build" /\ Len(args) = 1 -> NaturalBuild(args[1])
      [] b = "Natural/fold" /\ Len(args) = 4 /\ args[1].k = "Natural" -> NaturalFold(args)
      [] OTHER -> AppliedBuiltin(b, args)

Compute(f, x, y) ==
    CASE f = "eval" -> normalize_hir(x, y)
      [] f = "app" -> apply_any(x, y)
      [] f = "builtin" -> apply_builtin(x, y)
      [] f = "operation" -> normalize_operation(x)
      [] f = "same" -> SameKind(x, y)
      [] f = "remove_binder" -> BodyWithoutBinder(x)

(***************************************************************************)
(* Values back to expressions, under venv binders.                         *)
(***************************************************************************)
RECURSIVE to_hir(_, _)
All(vs, venv) == [i \in DOMAIN vs |-> to_hir(vs[i], venv)]
closure_to_hir(c, venv) == to_hir(apply_closure(c, Bound(venv)), venv + 1)
to_hir(v, venv) ==
    CASE v.k = "NzVar" -> Var("_", venv - v.n - 1)
      [] v.k = "AppliedBuiltin" ->
            FoldLeft(App, Builtin(v.lab[1]), All(v.sub, venv))
      [] IsClosure(v) ->
            E(IF v.k = "LamClosure" THEN "Lam" ELSE "Pi", v.lab,
              <<to_hir(v.sub[1], venv), closure_to_hir(v, venv)>>)
      [] v.k = "OptionalType" -> App(Builtin("Optional"), to_hir(v.sub[1], venv))
      [] v.k = "EmptyOptionalLit" -> App(Builtin("None"), to_hir(v.sub[1], venv))
      [] v.k = "ListType" -> App(Builtin("List"), to_hir(v.sub[1], venv))
      [] v.k = "EmptyListLit" ->
            EmptyListLit(App(Builtin("List"), to_hir(v.sub[1], venv)))
      [] v.k = "UnionConstructor" -> Field(to_hir(v.sub[1], venv), v.lab[1])
      [] v.k = "UnionLit" ->
            App(Field(to_hir(v.sub[2], venv), v.lab[1]), to_hir(v.sub[1], venv))
      [] v.k = "TextLit" ->
            LET text == ToInterpolation(v.sub)
            IN  TextLit(text.lab, All(text.sub, venv))
      [] v.k = "Equivalence" -> BinOp("Equivalence", to_hir(v.sub[1], venv), to_hir(v.sub[2], venv))
      [] OTHER -> [v EXCEPT !.sub = All(v.sub, venv)]

(* Every binder is called _, at every depth.                                *)
RECURSIVE alpha(_)
alpha(h) ==
    [h EXCEPT !.sub = [i \in DOMAIN h.sub |-> alpha(h.sub[i])],
              !.lab = IF h.k \in {"Lam", "Pi"} THEN <<"_">> ELSE @]
=============================================================================
