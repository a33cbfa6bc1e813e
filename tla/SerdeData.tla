------------------------------ MODULE SerdeData ------------------------------
(***************************************************************************)
(* Rust data in serde's data model (serde_dhall/src/serialize.rs,          *)
(* deserialize.rs, static_type.rs, dhall_proc_macros/src/derive.rs).       *)
(*                                                                         *)
(* A datum is the calls that its Serialize makes; a shape is a Rust type.  *)
(* Machine integers have Width bits for 64 and 2 * Width for 128; f64 and  *)
(* char are left out.  A set is the Option of what is accepted.            *)
(***************************************************************************)
EXTENDS SerdeValues

(***************************************************************************)
(* Serialization.                                                          *)
(***************************************************************************)
UInts(bits) == 0 .. 2 ^ bits - 1
Ints(bits) == -(2 ^ (bits - 1)) .. 2 ^ (bits - 1) - 1
TupleField(i) == "_" \o ToString(i)
VRecordOf(entries) == Fields("V::Record", DOMAIN entries, LAMBDA l : entries[l])

(* The numbers that serde has calls for.                                    *)
(* Mutant: only those of 64 bits are passed on.                             *)
InSerde64(v) ==
    /\ v.k = "Natural" => v.n \in UInts(Width)
    /\ v.k = "Integer" => v.n \in Ints(Width)
InSerde(v) ==
    /\ v.k = "Natural" => v.n \in UInts(2 * Width)
    /\ v.k = "Integer" => v.n \in Ints(2 * Width)
(* A SimpleValue that is serialized as Rust data are, into a SimpleValue.   *)
RECURSIVE serialize_simple_value(_)
serialize_simple_value(v) ==
    CASE IsNumber(v) -> IF InSerde(v) THEN v ELSE Refused
      [] v.k = "V::Function" -> from_binary(to_binary(v))
      [] OTHER -> Whole([v EXCEPT !.sub = [i \in DOMAIN v.sub |-> serialize_simple_value(v.sub[i])]])

(* The entries of a map: keys and values in turn, a later one for an        *)
(* earlier one with its key.                                                *)
MapEntries(kvs) ==
    FoldLeft(LAMBDA map, i : kvs[2 * i - 1].lab[1] :> kvs[2 * i] @@ map,
             <<>>, [i \in 1 .. Len(kvs) \div 2 |-> i])
RECURSIVE serialize(_)
serialize(d) ==
    LET parts == [i \in DOMAIN d.sub |-> serialize(d.sub[i])]
        record == VRecordOf([l \in Labels(d) |-> Get([d EXCEPT !.sub = parts], l)])
        AllText == \A i \in 1 .. Len(parts) \div 2 : parts[2 * i - 1].k = "V::Text"
    IN  CASE d.k \in {"Function", "SimpleValue"} -> serialize_simple_value(d.sub[1])
          [] d.k \in {"newtype_struct", "tuple_struct", "tuple_variant"} -> Refused
          [] \E i \in DOMAIN parts : parts[i] = Refused -> Refused
          [] d.k = "bool" -> Bool(d.lab[1])
          [] d.k = "uint" -> Natural(d.n)
          [] d.k = "int" -> Integer(d.n)
          [] d.k = "str" -> VText(d.lab[1])
          [] d.k \in {"none", "some"} -> VOptional(parts)
          [] d.k \in {"unit", "unit_struct"} -> VRecord(<<>>, <<>>)
          [] d.k \in {"unit_variant", "newtype_variant"} -> VUnion(d.lab[1], parts)
          [] d.k = "struct_variant" -> VUnion(d.lab[1], <<VRecordOf([l \in ToSet(Tail(d.lab)) |->
                Get([d EXCEPT !.lab = Tail(@), !.sub = parts], l)])>>)
          [] d.k = "seq" -> VList(parts)
          [] d.k = "tuple" ->
                VRecordOf([l \in {TupleField(i) : i \in DOMAIN parts} |->
                    parts[CHOOSE i \in DOMAIN parts : TupleField(i) = l]])
          [] d.k = "map" /\ AllText -> VRecordOf(MapEntries(parts))
          [] d.k = "struct" -> record
          [] OTHER -> Refused
(* Under an annotation, if there is one.                                    *)
to_dhall(d, ty) ==
    CASE d.k = "SimpleType" -> {Ty(d.sub[1])}
      [] d.k # "SimpleType" -> into_value(serialize(d), ty)

(***************************************************************************)
(* Deserialization.                                                        *)
(***************************************************************************)
The(set) == CHOOSE x \in set : TRUE
FieldOf(ls, vs, l) == {vs[i] : i \in {j \in DOMAIN ls : ls[j] = l}}
(* A number in serde's data model, of the widest type there is.             *)
(* Mutant: a wider number loses its upper bits.                             *)
VisitedTruncated(v) == {v.n % (2 ^ (2 * Width))}
Visited(v) == IF InSerde(v) THEN {v.n} ELSE {}

RECURSIVE to_simple_value(_)
(* SimpleValueVisitor.                                                      *)
to_simple_value(v) ==
    LET parts == [i \in DOMAIN v.sub |-> to_simple_value(v.sub[i])]
    IN  CASE v.k = "Bool" -> v
          [] v.k \in {"Natural", "Integer"} ->
                IF Visited(v) = {} THEN Refused
                ELSE [v EXCEPT !.n = The(Visited(v))]
          [] v.k = "V::Function" -> from_binary(to_binary(v))
          [] v.k = "V::Union" -> [v EXCEPT !.sub = SelectSeq(parts, LAMBDA p : p # Refused)]
          [] OTHER -> Whole([v EXCEPT !.sub = parts])

RECURSIVE deserialize(_, _), visit_variant(_, _), ignored_any(_)
(* What is read to be ignored: a function is handed over as a newtype, for  *)
(* which IgnoredAny asks to ignore the function, without end.               *)
ignored_any(v) ==
    LET parts == [i \in DOMAIN v.sub |-> ignored_any(v.sub[i])]
    IN  CASE v.k \in {"Natural", "Integer"} -> IF Visited(v) = {} THEN Refused ELSE v
          [] v.k = "V::Function" -> Overflow
          [] OTHER -> Whole([v EXCEPT !.sub = parts])
(* The visitors that serde derives leave the rest of a sequence, but read   *)
(* the fields of a map in its order, those they ignore too; then they look  *)
(* for the ones that are missing.                                           *)
visit_seq(shapes, vs) ==
    [i \in DOMAIN shapes |->
        IF i \in DOMAIN vs THEN deserialize(shapes[i], vs[i]) ELSE Refused]
visit_missing(shape) == IF shape.k = "Option" THEN E("none", <<>>, <<>>) ELSE Refused
visit_field(shape, l, v) ==
    LET fields == FieldOf(shape.lab, shape.sub, l)
    IN  IF fields = {} THEN ignored_any(v) ELSE deserialize(The(fields), v)
visit_map(shape, v) ==
    LET read == [i \in DOMAIN v.sub |-> visit_field(shape, v.lab[i], v.sub[i])]
        found(l) == FieldOf(v.lab, read, l)
    IN  IF ToSet(read) \cap Failures # {} THEN read
        ELSE [i \in DOMAIN shape.lab |->
                 IF found(shape.lab[i]) = {} THEN visit_missing(shape.sub[i])
                 ELSE The(found(shape.lab[i]))]
visit_struct(shape, v) ==
    CASE v.k = "V::Record" -> visit_map(shape, v)
      [] v.k = "V::List" -> visit_seq(shape.sub, v.sub)
      [] OTHER -> <<Refused>>
visit_tuple(shapes, v) ==
    IF v.k \in {"V::Record", "V::List"} THEN visit_seq(shapes, v.sub) ELSE <<Refused>>
(* A variant without a payload has the unit for one.                        *)
OfUnit(shape) ==
    CASE shape.k \in {"unit", "unit_struct"} -> E(shape.k, <<>>, <<>>)
      [] shape.k = "Option" -> E("none", <<>>, <<>>)
      [] OTHER -> Refused
IsUnitValue(v) == v.k = "V::Record" /\ v.lab = <<>>
visit_variant(variant, payload) ==
    LET name == Head(variant.lab)
        there == payload # <<>>
    IN  CASE variant.k = "unit_variant" ->
                IF there => IsUnitValue(payload[1]) THEN variant ELSE Refused
          [] variant.k = "newtype_variant" ->
                Whole(E("newtype_variant", <<name>>,
                        <<IF there THEN deserialize(variant.sub[1], payload[1])
                          ELSE OfUnit(variant.sub[1])>>))
          [] variant.k = "struct_variant" ->
                Whole([variant EXCEPT !.sub =
                    IF there THEN visit_struct([variant EXCEPT !.lab = Tail(@)], payload[1])
                    ELSE <<Refused>>])
          [] variant.k = "tuple_variant" ->
                Whole([variant EXCEPT !.sub =
                    IF there THEN visit_tuple(variant.sub, payload[1]) ELSE <<Refused>>])
visit_enum(shape, v) ==
    LET found == {x \in ToSet(shape.sub) : v.k = "V::Union" /\ Head(x.lab) = v.lab[1]}
    IN  IF found = {} THEN Refused ELSE visit_variant(The(found), v.sub)
visit_integer(shape, v) ==
    LET fits == IF shape.k = "uint" THEN UInts(shape.n) ELSE Ints(shape.n)
        visited == IF v.k \in {"Natural", "Integer"} THEN Visited(v) \cap fits ELSE {}
    IN  IF visited = {} THEN Refused ELSE Numbered(shape.k, <<>>, The(visited))
(* A newtype is the first of a sequence, or what a function is handed to.   *)
visit_newtype(shape, v) ==
    CASE v.k = "V::List" -> visit_seq(shape.sub, v.sub)
      [] v.k = "V::Function" -> <<deserialize(shape.sub[1], v)>>
      [] OTHER -> <<Refused>>

deserialize(shape, v) ==
    LET parts(inner) == [i \in DOMAIN v.sub |-> deserialize(inner, v.sub[i])]
    IN  CASE shape.k = "SimpleValue" \/ (shape.k = "Function" /\ v.k = "V::Function") ->
                Whole(E(shape.k, <<>>, <<to_simple_value(v)>>))
          [] shape.k = "newtype_struct" -> Whole([shape EXCEPT !.sub = visit_newtype(shape, v)])
          [] shape.k = "bool" /\ v.k = "Bool" -> E("bool", v.lab, <<>>)
          [] shape.k \in {"uint", "int"} -> visit_integer(shape, v)
          [] shape.k = "str" /\ v.k = "V::Text" -> E("str", v.lab, <<>>)
          [] shape.k = "unit" /\ IsUnitValue(v) -> E("unit", <<>>, <<>>)
          [] shape.k = "Option" /\ v.k = "V::Optional" ->
                Whole(E(IF v.sub = <<>> THEN "none" ELSE "some", <<>>, parts(shape.sub[1])))
          [] shape.k = "Vec" /\ v.k = "V::List" -> Whole(E("seq", <<>>, parts(shape.sub[1])))
          [] shape.k = "tuple" -> Whole(E("tuple", <<>>, visit_tuple(shape.sub, v)))
          [] shape.k = "tuple_struct" ->
                Whole(E("tuple_struct", <<>>,
                        IF v.k = "V::List" THEN visit_seq(shape.sub, v.sub) ELSE <<Refused>>))
          [] shape.k = "struct" -> Whole(E("struct", shape.lab, visit_struct(shape, v)))
          [] shape.k = "HashMap" /\ v.k = "V::Record" ->
                LET entries == parts(shape.sub[1])
                IN  Whole(E("map", <<>>, FlattenSeq([i \in DOMAIN entries |->
                        <<E("str", <<v.lab[i]>>, <<>>), entries[i]>>])))
          [] shape.k = "enum" -> visit_enum(shape, v)
          [] OTHER -> Refused
from_dhall(shape, value) ==
    CASE shape.k = "SimpleType" ->
            IF value.kind = "Ty" THEN E("SimpleType", <<>>, <<value.val>>) ELSE Refused
      [] shape.k # "SimpleType" /\ value.kind = "Val" -> deserialize(shape, value.val)
      [] OTHER -> Refused

(***************************************************************************)
(* StaticType and its derive macro.                                        *)
(***************************************************************************)
RECURSIVE static_type(_)
StaticTypes(shapes) == [i \in DOMAIN shapes |-> static_type(shapes[i])]
RecordTypeOf(ls, ts) ==
    Fields("T::Record", ToSet(ls), LAMBDA l : The(FieldOf(ls, ts, l)))
(* Mutant: the fields of a tuple are counted from zero.                     *)
TupleFieldsFromZero(n) == [i \in 1 .. n |-> "_" \o ToString(i - 1)]
TupleFields(n) == [i \in 1 .. n |-> "_" \o ToString(i)]
derive_for_variant(variant) ==
    CASE variant.k = "unit_variant" -> NoPayload
      [] variant.k = "newtype_variant" -> static_type(variant.sub[1])
      [] variant.k = "struct_variant" -> RecordTypeOf(Tail(variant.lab), StaticTypes(variant.sub))
derive_for_enum(shape) ==
    LET variants == [i \in DOMAIN shape.sub |-> Head(shape.sub[i].lab)]
        types == [i \in DOMAIN shape.sub |-> derive_for_variant(shape.sub[i])]
    IN  Fields("T::Union", ToSet(variants), LAMBDA l : The(FieldOf(variants, types, l)))
derive_for_struct(shape) ==
    CASE shape.k = "struct" -> RecordTypeOf(shape.lab, StaticTypes(shape.sub))
      [] shape.k \in {"newtype_struct", "tuple_struct"} ->
            RecordTypeOf(TupleFields(Len(shape.sub)), StaticTypes(shape.sub))
      [] shape.k = "unit_struct" -> TRecord(<<>>, <<>>)
static_type(shape) ==
    CASE shape.k = "bool" -> TBasic("Bool")
      [] shape.k = "uint" -> TBasic("Natural")
      [] shape.k = "int" -> TBasic("Integer")
      [] shape.k = "str" -> TBasic("Text")
      [] shape.k = "unit" -> TRecord(<<>>, <<>>)
      [] shape.k = "Option" -> TOptional(static_type(shape.sub[1]))
      [] shape.k = "Vec" -> TList(static_type(shape.sub[1]))
      [] shape.k = "tuple" -> RecordTypeOf(TupleFields(Len(shape.sub)), StaticTypes(shape.sub))
      [] shape.k = "enum" -> derive_for_enum(shape)
      [] OTHER -> derive_for_struct(shape)
=============================================================================
