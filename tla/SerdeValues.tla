----------------------------- MODULE SerdeValues -----------------------------
(***************************************************************************)
(* Simple values and simple types (serde_dhall/src/value.rs, function.rs): *)
(* what Rust sees of a Dhall value, and the way back to Dhall.             *)
(*                                                                         *)
(* A SimpleValue or SimpleType is a node whose kind is that of its variant *)
(* after "V::" or "T::"; a number is the node it is in an expression.  The *)
(* fields of records and unions are in the order of BTreeMap.  A function  *)
(* keeps its expression with every binder called _.  What a conversion     *)
(* refuses is worth Refused, one that runs out of stack Overflow; an       *)
(* Option is a set of at most one element.                                 *)
(***************************************************************************)
EXTENDS Typing, TLC

CONSTANTS
    Width,          \* the bits of a machine integer (64)
    BuiltinNames    \* the names Builtin::parse knows

Binary == INSTANCE BinaryCodec

Refused == E("Refused", <<>>, <<>>)
Overflow == E("Overflow", <<>>, <<>>)
Failures == {Refused, Overflow}
(* A node of parts found in their order: the first that fails decides.      *)
Whole(v) ==
    LET failing == {i \in DOMAIN v.sub : v.sub[i] \in Failures}
    IN  IF failing = {} THEN v
        ELSE v.sub[CHOOSE i \in failing : \A j \in failing : i <= j]
(* The node of a set, if it has one.                                        *)
TheNode(vs) == IF vs = {} THEN Refused ELSE CHOOSE v \in vs : TRUE
Option(v) == IF v = Refused THEN {} ELSE {v}

(***************************************************************************)
(* SimpleType.  The alternatives of a union may have NoPayload.            *)
(***************************************************************************)
TBasic(b) == E("T::Basic", <<b>>, <<>>)
TOptional(t) == E("T::Optional", <<>>, <<t>>)
TList(t) == E("T::List", <<>>, <<t>>)
TRecord(ls, ts) == E("T::Record", ls, ts)
TUnion(ls, ts) == E("T::Union", ls, ts)
TFunction(t, u) == E("T::Function", <<>>, <<t, u>>)

RECURSIVE type_from_nir(_), type_to_hir(_)
TypesFromNir(vs) == [i \in DOMAIN vs |-> type_from_nir(vs[i])]
(* A function whose result depends on its argument has no simple type.      *)
type_from_nir(v) ==
    CASE v.k = "Builtin" -> TBasic(v.lab[1])
      [] v.k = "OptionalType" -> Whole(TOptional(type_from_nir(v.sub[1])))
      [] v.k = "ListType" -> Whole(TList(type_from_nir(v.sub[1])))
      [] v.k = "RecordType" -> Whole(TRecord(v.lab, TypesFromNir(v.sub)))
      [] v.k = "UnionType" -> Whole(TUnion(v.lab, TypesFromNir(v.sub)))
      [] v.k = "NoPayload" -> v
      [] v.k = "PiClosure" ->
            TheNode({Whole(TFunction(type_from_nir(v.sub[1]), type_from_nir(t))) :
                       t \in remove_binder(v)})
      [] OTHER -> Refused

TypesToHir(ts) == [i \in DOMAIN ts |-> type_to_hir(ts[i])]
type_to_hir(t) ==
    CASE t.k = "T::Basic" -> Builtin(t.lab[1])
      [] t.k = "T::Optional" -> App(Builtin("Optional"), type_to_hir(t.sub[1]))
      [] t.k = "T::List" -> ListOf(type_to_hir(t.sub[1]))
      [] t.k = "T::Record" -> RecordType(t.lab, TypesToHir(t.sub))
      [] t.k = "T::Union" -> UnionType(t.lab, TypesToHir(t.sub))
      [] t.k = "NoPayload" -> t
      [] t.k = "T::Function" -> Pi("_", type_to_hir(t.sub[1]), type_to_hir(t.sub[2]))

(***************************************************************************)
(* Functions.                                                              *)
(***************************************************************************)
Function(expr, input_ty, output_ty) ==
    [k |-> "V::Function", lab |-> <<>>, n |-> 0, sub |-> <<>>,
     expr |-> expr, input_ty |-> input_ty, output_ty |-> output_ty]
(* Mutant: a function is known to return the type that it takes.            *)
AsFunctionOfInput(hir, ty) ==
    IF IsTyped(ty) /\ ty.val.k = "PiClosure"
    THEN Function(alpha(hir), Option(type_from_nir(ty.val.sub[1])),
                  Option(type_from_nir(ty.val.sub[1])))
    ELSE Refused
AsFunction(hir, ty) ==
    IF IsTyped(ty) /\ ty.val.k = "PiClosure"
    THEN Function(alpha(hir), Option(type_from_nir(ty.val.sub[1])),
                  {type_from_nir(t) : t \in remove_binder(ty.val)} \ {Refused})
    ELSE Refused
function_from_nir(v) == AsFunction(to_hir(v, 0), typecheck(to_hir(v, 0)))
from_expr(expr) ==
    IF IsTyped(typecheck(expr)) THEN function_from_nir(Eval(<<>>, expr)) ELSE Refused
to_binary(f) == Binary!Encoded(f.expr)
from_binary(data) ==
    IF Binary!decode(data) = Binary!Error THEN Refused ELSE from_expr(Binary!decode(data))
function_to_hir(f) == IF IsTyped(typecheck(f.expr)) THEN f.expr ELSE Refused

(***************************************************************************)
(* SimpleValue.                                                            *)
(***************************************************************************)
VText(s) == E("V::Text", <<s>>, <<>>)
VOptional(vs) == E("V::Optional", <<>>, vs)
VList(vs) == E("V::List", <<>>, vs)
VRecord(ls, vs) == E("V::Record", ls, vs)
VUnion(l, vs) == E("V::Union", <<l>>, vs)
IsNumber(v) == v.k \in {"Bool", "Natural", "Integer"}

RECURSIVE value_from_nir(_), value_to_hir(_, _)
ValuesFromNir(vs) == [i \in DOMAIN vs |-> value_from_nir(vs[i])]
value_from_nir(v) ==
    CASE IsNumber(v) -> v
      [] v.k = "TextLit" -> IF IsPlain(v) THEN VText(as_text(v)) ELSE Panic
      [] v.k = "EmptyOptionalLit" -> VOptional(<<>>)
      [] v.k = "SomeLit" -> Whole(VOptional(ValuesFromNir(v.sub)))
      [] IsList(v) -> Whole(VList(ValuesFromNir(Elements(v))))
      [] IsRecord(v) -> Whole(VRecord(v.lab, ValuesFromNir(v.sub)))
      [] v.k = "UnionLit" -> Whole(VUnion(v.lab[1], <<value_from_nir(v.sub[1])>>))
      [] v.k = "UnionConstructor" /\ Get(v.sub[1], v.lab[1]) = NoPayload ->
            VUnion(v.lab[1], <<>>)
      [] v.k \in {"LamClosure", "AppliedBuiltin"} -> function_from_nir(v)
      [] OTHER -> Refused

(* Back to an expression, with the type there is, if there is one.  An      *)
(* empty list, None and a union cannot be written without theirs.           *)
(* Mutant: the type is left with the one alternative.                       *)
union_to_hir_narrowed(v, t) ==
    LET narrow == TUnion(v.lab, <<Get(t, v.lab[1])>>)
        constructor == Field(type_to_hir(narrow), v.lab[1])
    IN  IF v.sub = <<>> THEN constructor
        ELSE Whole(App(constructor, value_to_hir(v.sub[1], {narrow.sub[1]})))
union_to_hir(v, t) ==
    LET fits == v.lab[1] \in Labels(t)
        payload == Get(t, v.lab[1])
        constructor == Field(type_to_hir(t), v.lab[1])
    IN  CASE fits /\ v.sub = <<>> /\ payload = NoPayload -> constructor
          [] fits /\ v.sub # <<>> /\ payload # NoPayload ->
                Whole(App(constructor, value_to_hir(v.sub[1], {payload})))
          [] OTHER -> Refused
value_to_hir(v, ty) ==
    LET Is(k) == \A t \in ty : t.k = k
        IsBasic(b) == \A t \in ty : t = TBasic(b)
        inner == {t.sub[1] : t \in ty}
        values(types) == [i \in DOMAIN v.sub |-> value_to_hir(v.sub[i], types)]
    IN  CASE v.k = "V::Function" /\ Is("T::Function") -> function_to_hir(v)
          [] IsNumber(v) /\ IsBasic(v.k) -> v
          [] v.k = "V::Text" /\ IsBasic("Text") -> TextLit(v.lab, <<>>)
          [] v.k = "V::Optional" /\ v.sub = <<>> /\ ty # {} /\ Is("T::Optional") ->
                App(Builtin("None"), type_to_hir(CHOOSE t \in inner : TRUE))
          [] v.k = "V::Optional" /\ v.sub # <<>> /\ Is("T::Optional") ->
                Whole(E("SomeLit", <<>>, values(inner)))
          [] v.k = "V::List" /\ v.sub = <<>> /\ ty # {} /\ Is("T::List") ->
                EmptyListLit(ListOf(type_to_hir(CHOOSE t \in inner : TRUE)))
          [] v.k = "V::List" /\ v.sub # <<>> /\ Is("T::List") ->
                Whole(NEListLit(values(inner)))
          [] /\ v.k = "V::Record" /\ Is("T::Record")
             /\ \A t \in ty : Labels(v) \subseteq Labels(t) ->
                Whole(RecordLit(v.lab, [i \in DOMAIN v.sub |->
                    value_to_hir(v.sub[i], {Get(t, v.lab[i]) : t \in ty})]))
          [] v.k = "V::Union" /\ ty # {} /\ Is("T::Union") ->
                union_to_hir(v, CHOOSE t \in ty : TRUE)
          [] OTHER -> Refused

(***************************************************************************)
(* Value: a simple value with its type, if it has a simple one, or a type. *)
(***************************************************************************)
Val(v, ty) == [kind |-> "Val", val |-> v, ty |-> ty]
Ty(t) == [kind |-> "Ty", val |-> t, ty |-> {}]
(* The value or the type that x is, as a set.                               *)
ValueOr(val, ty, otherwise) ==
    IF val # Refused THEN {Val(val, Option(ty))} ELSE {Ty(t) : t \in Option(otherwise)}
from_nir_and_ty(x, ty) == ValueOr(value_from_nir(x), type_from_nir(ty), type_from_nir(x))
into_value(v, ty) ==
    IF value_to_hir(v, ty) = Refused THEN {} ELSE {Val(v, ty)}
to_expr(value) ==
    IF value.kind = "Val" THEN value_to_hir(value.val, value.ty) ELSE type_to_hir(value.val)
=============================================================================
