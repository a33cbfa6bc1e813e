-------------------------------- MODULE Typing --------------------------------
(***************************************************************************)
(* The typechecker (dhall/src/semantics/tck/, operations/typecheck.rs and  *)
(* the types of builtins.rs).                                              *)
(*                                                                         *)
(* A type is a value with the universe it lives in, Type 0, Kind 1, Sort   *)
(* 2, and 3 for the type Sort has not.  An expression that is refused or   *)
(* makes the checker panic has no type.  The messages of errors are left   *)
(* out.                                                                    *)
(***************************************************************************)
EXTENDS Normalization

Type(v, u) == [res |-> "ok", val |-> v, univ |-> u]
IllTyped == [res |-> "error", val |-> Panic, univ |-> 0]
Panics == [res |-> "panic", val |-> Panic, univ |-> 0]
IsTyped(t) == t.res = "ok"
Failed(ts) == \E i \in DOMAIN ts : ~IsTyped(ts[i])
(* The one type of a set, if it has one.                                    *)
TheType(ts) == IF ts = {} THEN IllTyped ELSE CHOOSE t \in ts : TRUE
(* The first failure of ts, if there is one, t if there is none.            *)
OrFailure(ts, t) ==
    IF Failed(ts) THEN SelectSeq(ts, LAMBDA s : ~IsTyped(s))[1] ELSE t
(* The rest of a computation, unless it has failed (the operator ?).        *)
Then(t, Rest(_)) == IF IsTyped(t) THEN Rest(t) ELSE t

Rank == [Type |-> 0, Kind |-> 1, Sort |-> 2]
Larger(u, w) == IF u > w THEN u ELSE w
function_check(u, w) == IF w = 0 THEN 0 ELSE Larger(u, w)
from_const(c) == Type(Const(c), Rank[c] + 1)
ConstOf(u) == CHOOSE c \in DOMAIN Rank : Rank[c] = u
BuiltinType(b) == Type(Builtin(b), 0)
(* Type of a term, of a type or of a kind: what as_const finds.             *)
IsConst(t) == t.val.k = "Const"
RankOf(t) == Rank[t.val.lab[1]]
HasUniverse(t) == t.univ <= 2
SameType(t1, t2) == t1.univ = t2.univ /\ Same(t1.val, t2.val)
AllSame(ts) == \A i \in DOMAIN ts : SameType(ts[1], ts[i])

(***************************************************************************)
(* A typing environment has the value and the type of every variable.      *)
(***************************************************************************)
NzEnv(env) == [i \in DOMAIN env |-> env[i].val]
insert_type(env, t) == Append(env, [val |-> Bound(Len(env)), ty |-> t])
insert_value(env, v, t) == Append(env, [val |-> v, ty |-> t])
lookup_ty(env, h) == env[Len(env) - h.n].ty

Pi_(a, b) == Pi("_", a, b)
ListOf(t) == App(Builtin("List"), t)
(* What a fold over a list of the variable n binders up is given.           *)
NaturalType == Builtin("Natural")
FoldOfNaturals ==
    Pi("natural", Const("Type"),
       Pi("succ", Pi_(V(0), V(1)), Pi("zero", V(1), V(2))))
FoldOfList(n) ==
    Pi("list", Const("Type"),
       Pi("cons", Pi_(V(n + 1), Pi_(V(1), V(2))), Pi("nil", V(1), V(2))))
OfListOf(result) == Pi("a", Const("Type"), Pi_(ListOf(V(0)), result))
type_of_builtin(b) ==
    CASE b \in Types -> Const("Type")
      [] b \in {"List", "Optional"} -> Pi_(Const("Type"), Const("Type"))
      [] b = "Natural/fold" -> Pi_(NaturalType, FoldOfNaturals)
      [] b = "Natural/build" -> Pi_(FoldOfNaturals, NaturalType)
      [] b \in {"Natural/isZero", "Natural/even", "Natural/odd"} -> Pi_(NaturalType, Builtin("Bool"))
      [] b = "Natural/toInteger" -> Pi_(NaturalType, Builtin("Integer"))
      [] b = "Natural/show" -> Pi_(NaturalType, Builtin("Text"))
      [] b = "Natural/subtract" -> Pi_(NaturalType, Pi_(NaturalType, NaturalType))
      [] b = "Integer/show" -> Pi_(Builtin("Integer"), Builtin("Text"))
      [] b = "Integer/negate" -> Pi_(Builtin("Integer"), Builtin("Integer"))
      [] b = "Integer/clamp" -> Pi_(Builtin("Integer"), NaturalType)
      [] b = "Text/replace" ->
            Pi("needle", Builtin("Text"), Pi("replacement", Builtin("Text"),
               Pi("haystack", Builtin("Text"), Builtin("Text"))))
      [] b = "List/build" -> Pi("a", Const("Type"), Pi_(FoldOfList(0), ListOf(V(1))))
      [] b = "List/fold" -> OfListOf(FoldOfList(1))
      [] b = "List/length" -> OfListOf(NaturalType)
      [] b \in {"List/head", "List/last"} -> OfListOf(App(Builtin("Optional"), V(1)))
      [] b = "List/reverse" -> OfListOf(ListOf(V(1)))
      [] b = "List/indexed" -> OfListOf(ListOf(IndexedType(V(1))))
      [] b = "None" -> Pi("A", Const("Type"), App(Builtin("Optional"), V(0)))

RECURSIVE type_with(_, _, _)
Checked(env, h) == type_with(env, h, {})
typecheck(h) == Checked(<<>>, h)

(* The value of a type that was checked to be one.                          *)
eval_to_type(env, h, t) ==
    IF IsConst(t) THEN Type(Eval(NzEnv(env), h), RankOf(t)) ELSE IllTyped
Annotation(env, h) == Then(Checked(env, h), LAMBDA t : eval_to_type(env, h, t))
(* What hs are worth as types.                                              *)
AsTypes(env, hs, ts) == [i \in DOMAIN hs |-> eval_to_type(env, hs[i], ts[i])]
(* The universe of a type that is a part of another, found by checking it   *)
(* again: at the end of a rule, which has left it open.                     *)
Part(v) == [res |-> "part", val |-> v, univ |-> 0]
new_infer_universe(env, v) ==
    Then(Checked(env, to_hir(v, Len(env))),
         LAMBDA t : IF IsConst(t) THEN Type(v, RankOf(t)) ELSE Panics)
WithUniverse(env, t) == IF t.res = "part" THEN new_infer_universe(env, t.val) ELSE t

(***************************************************************************)
(* Operators.  ts are the types of the operands hs, as what these are      *)
(* worth if they are types themselves.                                     *)
(***************************************************************************)
RECURSIVE check_rectymerge(_, _)
check_rectymerge(x, y) ==
    /\ x.k = "RecordType" /\ y.k = "RecordType"
    /\ \A l \in Labels(x) \cap Labels(y) : check_rectymerge(Get(x, l), Get(y, l))
(* The type that both operands have, for operators that say which.          *)
OperandTypes(o) ==
    CASE o \in {"BoolAnd", "BoolOr", "BoolEQ", "BoolNE"} -> <<BuiltinType("Bool")>>
      [] o \in {"NaturalPlus", "NaturalTimes"} -> <<BuiltinType("Natural")>>
      [] o = "TextAppend" -> <<BuiltinType("Text")>>
      [] OTHER -> <<>>
IsRecordTypeOf(t) == t.val.k = "RecordType"
RightBiasedType(x, y) ==
    IF IsRecordTypeOf(x) /\ IsRecordTypeOf(y)
    THEN Type(merge_maps(x.val, y.val, LAMBDA v, w : w), Larger(x.univ, y.univ))
    ELSE IllTyped
RecursiveMergeType(x, y) ==
    IF check_rectymerge(x.val, y.val)
    THEN Type(Operation(BinOp("RecursiveRecordTypeMerge", x.val, y.val)),
              Larger(x.univ, y.univ))
    ELSE IllTyped
TypeMergeType(operands, x, y) ==
    CASE ~check_rectymerge(operands[1], operands[2]) -> IllTyped
      [] ~(IsConst(x) /\ IsConst(y)) -> Panics
      [] OTHER -> from_const(ConstOf(Larger(RankOf(x), RankOf(y))))
typecheck_binop(env, o, hs, x, y) ==
    CASE o = "RightBiasedRecordMerge" -> RightBiasedType(x, y)
      [] o = "RecursiveRecordMerge" -> RecursiveMergeType(x, y)
      [] o = "RecursiveRecordTypeMerge" -> TypeMergeType([i \in {1, 2} |-> Eval(NzEnv(env), hs[i])], x, y)
      [] OTHER ->
            CASE ~AllSame(<<x, y>> \o OperandTypes(o)) -> IllTyped
              [] o = "ListAppend" /\ x.val.k # "ListType" -> IllTyped
              [] o = "Equivalence" /\ x.univ # 0 -> IllTyped
              [] OTHER -> IF o = "Equivalence" THEN from_const("Type") ELSE x

(* The payloads of the variants that a merge handles.                       *)
IsVariantType(t) == t.val.k \in {"UnionType", "OptionalType"}
VariantsOf(t) ==
    IF t.val.k = "UnionType" THEN t.val
    ELSE UnionType(<<"None", "Some">>, <<NoPayload, t.val.sub[1]>>)
(* What a handler returns, as a set: it must not depend on the payload.     *)
(* Mutant: a return type that depends on the payload is let through.        *)
HandlerReturnDependent(handler, payload) ==
    CASE payload.k = "NoPayload" -> {handler}
      [] payload.k # "NoPayload" /\ handler.k # "PiClosure" -> {}
      [] payload.k # "NoPayload" /\ handler.k = "PiClosure" ->
            IF Same(payload, handler.sub[1]) THEN {apply_closure(handler, Fresh(0))} ELSE {}
HandlerReturn(handler, payload) ==
    CASE payload.k = "NoPayload" -> {handler}
      [] payload.k # "NoPayload" /\ handler.k # "PiClosure" -> {}
      [] payload.k # "NoPayload" /\ handler.k = "PiClosure" ->
            IF Same(payload, handler.sub[1]) THEN remove_binder(handler) ELSE {}
merge_handler_return_type(env, handler, payload) ==
    TheType({new_infer_universe(env, v) : v \in HandlerReturn(handler, payload)})
MergeReturns(env, handlers, variants) ==
    [i \in DOMAIN handlers.lab |->
        IF handlers.lab[i] \in Labels(variants)
        THEN merge_handler_return_type(env, handlers.sub[i], Get(variants, handlers.lab[i]))
        ELSE IllTyped]
(* What the handlers return and the annotation agree on.                    *)
(* Mutant: a variant without a handler is let through.                      *)
AgreedTypeWithoutAll(ts, handled) ==
    OrFailure(ts, IF ts # <<>> /\ AllSame(ts) THEN ts[1] ELSE IllTyped)
AgreedType(ts, handled) ==
    OrFailure(ts, IF handled /\ ts # <<>> /\ AllSame(ts) THEN ts[1] ELSE IllTyped)
MergeType(env, record, scrut, annots) ==
    AgreedType(MergeReturns(env, record, VariantsOf(scrut)) \o annots,
               Labels(VariantsOf(scrut)) = Labels(record))
typecheck_merge(env, as, ts) ==
    IF IsRecordTypeOf(ts[1]) /\ IsVariantType(ts[2])
    THEN MergeType(env, ts[1].val, ts[2], SubSeq(as, 3, Len(as)))
    ELSE IllTyped

typecheck_app(env, hs, f, arg) ==
    IF f.val.k = "PiClosure" /\ Same(arg.val, f.val.sub[1])
    THEN Part(apply_closure(f.val, Eval(NzEnv(env), hs[2])))
    ELSE IllTyped

IsMapType(v) ==
    /\ v.k = "ListType" /\ v.sub[1].k = "RecordType"
    /\ Labels(v.sub[1]) = {"mapKey", "mapValue"}
    /\ Get(v.sub[1], "mapKey") = Builtin("Text")
MapType(t) == ListType(RecordType(<<"mapKey", "mapValue">>, <<Builtin("Text"), t>>))
(* Of an empty record only an annotation tells the type.                    *)
AgreesWithFields(r, ts) ==
    IF r.lab = <<>> THEN ts # <<>> /\ IsMapType(ts[1].val)
    ELSE AllSame(ts \o [i \in DOMAIN r.sub |-> Type(MapType(r.sub[i]), 0)])
MapTypeOf(r, annots) ==
    OrFailure(annots,
        CASE ~AgreesWithFields(r, annots) -> IllTyped
          [] OTHER -> IF annots # <<>> THEN annots[1] ELSE Type(MapType(r.sub[1]), 0))
typecheck_tomap(as, ts) ==
    IF ts[1].univ = 0 /\ IsRecordTypeOf(ts[1]) THEN MapTypeOf(ts[1].val, Tail(as))
    ELSE IllTyped

(* A union constructor is a function unless its variant has no payload.     *)
ConstructorType(u, l) ==
    CASE ~(u.val.k = "UnionType" /\ l \in Labels(u.val)) -> IllTyped
      [] OTHER ->
            LET payload == Get(u.val, l)
            IN  IF payload.k = "NoPayload" THEN u
                ELSE Type(ConstantClosure("PiClosure", l, payload, u.val), u.univ)
typecheck_field(as, t, l) ==
    CASE IsRecordTypeOf(t) /\ l \in Labels(t.val) -> Part(Get(t.val, l))
      [] IsConst(t) -> ConstructorType(as[1], l)
      [] OTHER -> IllTyped

RECURSIVE TypeAfterWith(_, _, _)
(* As normalize_with, with the types of the records: a set, empty where     *)
(* the path leads through something that is not a record.                   *)
TypeAfterWith(r, path, t) ==
    CASE path = <<>> -> {t}
      [] path # <<>> /\ r.k = "RecordType" ->
            LET inner == IF path[1] \in Labels(r) THEN Get(r, path[1])
                         ELSE RecordType(<<>>, <<>>)
            IN  {RecordWith(r, path[1], v) : v \in TypeAfterWith(inner, Tail(path), t)}
      [] path # <<>> /\ r.k # "RecordType" -> {}
type_of_with(t, path, new) ==
    TheType({Part(v) : v \in TypeAfterWith(t.val, path, new.val)})

typecheck_projection(t, ls) ==
    IF IsRecordTypeOf(t) /\ ls \subseteq Labels(t.val)
    THEN Part(Fields("RecordType", ls, LAMBDA l : Get(t.val, l)))
    ELSE IllTyped
typecheck_selection(t, selection) ==
    IF /\ selection.val.k = "RecordType"
       /\ Labels(selection.val) \subseteq Labels(t.val)
       /\ \A l \in Labels(selection.val) : Same(Get(t.val, l), Get(selection.val, l))
    THEN selection ELSE IllTyped

typecheck_if(ts) ==
    IF ts[1].val = Builtin("Bool") /\ HasUniverse(ts[2]) /\ SameType(ts[2], ts[3])
    THEN ts[2] ELSE IllTyped

typecheck_operation(env, e, as, ts) ==
    CASE e.k = "App" -> typecheck_app(env, e.sub, ts[1], ts[2])
      [] e.k = "BinOp" -> typecheck_binop(env, e.lab[1], e.sub, ts[1], ts[2])
      [] e.k = "BoolIf" -> typecheck_if(ts)
      [] e.k = "Merge" -> typecheck_merge(env, as, ts)
      [] e.k = "ToMap" -> typecheck_tomap(as, ts)
      [] e.k = "Field" -> typecheck_field(as, ts[1], e.lab[1])
      [] e.k = "Projection" -> typecheck_projection(ts[1], ToSet(e.lab))
      [] e.k = "ProjectionByExpr" ->
            IF IsRecordTypeOf(ts[1])
            THEN OrFailure(<<as[2]>>, typecheck_selection(ts[1], as[2]))
            ELSE IllTyped
      [] e.k = "With" -> type_of_with(ts[1], e.lab, ts[2])
      [] OTHER -> Panics

(***************************************************************************)
(* Expressions.                                                            *)
(***************************************************************************)
LargestUniverse(us) == FoldLeft(Larger, 0, us)
(* NoPayload stands among the payloads of a union with no type of its own.  *)
universe_of_fields(ts) ==
    LET payloads == SelectSeq(ts, LAMBDA t : t.val.k # "NoPayload") IN
    IF \A i \in DOMAIN payloads : IsConst(payloads[i])
    THEN from_const(ConstOf(LargestUniverse([i \in DOMAIN payloads |-> RankOf(payloads[i])])))
    ELSE IllTyped
type_record_lit(ls, ts) ==
    IF \A i \in DOMAIN ts : HasUniverse(ts[i])
    THEN Type(RecordType(ls, [i \in DOMAIN ts |-> ts[i].val]),
              LargestUniverse([i \in DOMAIN ts |-> ts[i].univ]))
    ELSE IllTyped
type_list_lit(ts) ==
    IF ts[1].univ = 0 /\ AllSame(ts)
    THEN Type(ListType(ts[1].val), 0) ELSE IllTyped
(* assert : x === y has its annotation for a type, if x and y are the same. *)
type_assert(t) ==
    IF t.val.k = "Equivalence" /\ Same(t.val.sub[1], t.val.sub[2]) THEN t ELSE IllTyped

type_one_layer(env, e, as, ts) ==
    CASE e.k = "Const" -> from_const(ConstOf(Rank[e.lab[1]] + 1))
      [] e.k \in {"Bool", "Natural", "Integer"} -> BuiltinType(e.k)
      [] e.k = "Builtin" -> Annotation(<<>>, type_of_builtin(e.lab[1]))
      [] e.k = "NoPayload" -> Type(NoPayload, 0)
      [] e.k = "TextLit" ->
            IF ToSet(ts) \subseteq {BuiltinType("Text")} THEN BuiltinType("Text") ELSE IllTyped
      [] e.k = "SomeLit" ->
            IF ts[1].univ = 0 THEN Type(OptionalType(ts[1].val), 0) ELSE IllTyped
      [] e.k = "EmptyListLit" ->
            IF IsTyped(as[1]) /\ as[1].val.k = "ListType" THEN as[1] ELSE IllTyped
      [] e.k = "NEListLit" -> type_list_lit(ts)
      [] e.k = "RecordLit" -> type_record_lit(e.lab, ts)
      [] e.k \in {"RecordType", "UnionType"} -> universe_of_fields(ts)
      [] e.k = "Assert" -> type_assert(as[1])
      [] OTHER -> typecheck_operation(env, e, as, ts)

LambdaType(env, h, annot, body) ==
    IF HasUniverse(body)
    THEN Type(Eval(NzEnv(env), Pi(h.lab[1], h.sub[1], to_hir(body.val, Len(env) + 1))),
              function_check(annot.univ, body.univ))
    ELSE IllTyped
PiType(annot, body) ==
    IF IsConst(body) THEN from_const(ConstOf(function_check(annot.univ, RankOf(body))))
    ELSE IllTyped
type_binder(env, h) ==
    Then(Annotation(env, h.sub[1]), LAMBDA annot :
      Then(Checked(insert_type(env, annot), h.sub[2]), LAMBDA body :
        IF h.k = "Lam" THEN LambdaType(env, h, annot, body) ELSE PiType(annot, body)))
LetValueType(env, h, val) ==
    IF Len(h.sub) = 2 THEN Checked(env, val)
    ELSE Then(Annotation(env, h.sub[1]), LAMBDA t : type_with(env, val, {t}))
type_let(env, h) ==
    LET val == h.sub[Len(h.sub) - 1]
    IN  Then(LetValueType(env, h, val), LAMBDA t :
          Checked(insert_value(env, Eval(NzEnv(env), val), t), Last(h.sub)))
type_annot(env, h) ==
    IF h.sub[2] = Const("Sort") THEN type_with(env, h.sub[1], {from_const("Sort")})
    ELSE Then(Annotation(env, h.sub[2]), LAMBDA t : type_with(env, h.sub[1], {t}))
Inferred(env, h) ==
    CASE h.k = "Var" -> lookup_ty(env, h)
      [] h.k = "Import" -> typecheck(Loaded[h.n])
      [] h.k = "Const" /\ h.lab = <<"Sort">> -> IllTyped
      [] h.k \in {"Lam", "Pi"} -> type_binder(env, h)
      [] h.k = "Let" -> type_let(env, h)
      [] h.k = "Annot" -> type_annot(env, h)
      [] OTHER ->
            LET ts == [i \in DOMAIN h.sub |-> Checked(env, h.sub[i])]
            IN  OrFailure(ts, WithUniverse(env, type_one_layer(env, h, AsTypes(env, h.sub, ts), ts)))
(* An annotation, if there is one, is the very type that is inferred.       *)
type_with(env, h, annot) ==
    IF h.k = "ImportAlternative"
    THEN type_with(env, IF h.lab = <<"left">> THEN h.sub[1] ELSE h.sub[2], annot)
    ELSE Then(Inferred(env, h),
              LAMBDA t : IF \A a \in annot : SameType(t, a) THEN t ELSE IllTyped)
(* Of a closed expression under its annotation, if there is one: a closed   *)
(* type other than Sort.                                                    *)
typecheck_with(h, annots) ==
    typecheck(IF annots = {} THEN h ELSE Annot(h, CHOOSE a \in annots : TRUE))
=============================================================================
