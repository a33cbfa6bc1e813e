------------------------------- MODULE MCSerde -------------------------------
(***************************************************************************)
(* Rust types over every shape, nested twice, with data on both sides of   *)
(* every machine limit, written with and without their static type; Dhall  *)
(* values and types of every sort, read as themselves and as shapes that   *)
(* do and do not fit; functions of one and two arguments, dependent ones   *)
(* and ones of functions, called with arguments that do and do not fit.    *)
(***************************************************************************)
EXTENDS SerdeBridge

MCLabels == <<"A", "B", "C", "Err", "Ok", "_", "_1", "_2", "_3", "a", "b", "f", "index", "mapKey", "mapValue", "value", "x">>
MCBuiltinNames ==
    {"List", "Optional", "None", "Natural/subtract", "Natural/fold", "List/fold"} \cup Types
    \cup DOMAIN NumericBuiltins \cup ListBuiltins
MCLoaded == <<>>

(***************************************************************************)
(* Rust types and their data.                                              *)
(***************************************************************************)
Rust(k, ls, shapes) == E(k, ls, shapes)
UIntType(bits) == Numbered("uint", <<>>, bits)
IntType(bits) == Numbered("int", <<>>, bits)
U32 == UIntType(Width - 1)
U64 == UIntType(Width)
I64 == IntType(Width)
U128 == UIntType(2 * Width)
I128 == IntType(2 * Width)
RBool == Rust("bool", <<>>, <<>>)
RString == Rust("str", <<>>, <<>>)
RUnit == Rust("unit", <<>>, <<>>)
RFunction == Rust("Function", <<>>, <<>>)
RSimpleValue == Rust("SimpleValue", <<>>, <<>>)
RSimpleType == Rust("SimpleType", <<>>, <<>>)
ROption(s) == Rust("Option", <<>>, <<s>>)
RVec(s) == Rust("Vec", <<>>, <<s>>)
RMap(s) == Rust("HashMap", <<>>, <<s>>)
RTuple(ss) == Rust("tuple", <<>>, ss)
RStruct(s, t) == Rust("struct", <<"b", "a">>, <<s, t>>)
REnum(s, t) ==
    Rust("enum", <<>>, <<Rust("unit_variant", <<"B">>, <<>>),
                         Rust("newtype_variant", <<"A">>, <<s>>),
                         Rust("struct_variant", <<"C", "b", "a">>, <<s, t>>)>>)

RResult(s, t) ==
    Rust("enum", <<>>, <<Rust("newtype_variant", <<"Ok">>, <<s>>),
                         Rust("newtype_variant", <<"Err">>, <<t>>)>>)

Limits(bits) == {0, 2 ^ (bits - 1) - 1, 2 ^ (bits - 1), 2 ^ bits - 1}
Products(sets) == {s \in [DOMAIN sets -> UNION Range(sets)] : \A i \in DOMAIN sets : s[i] \in sets[i]}
UpToTwo(set) == {<<>>} \cup {<<x>> : x \in set} \cup {<<x, y>> : x, y \in set}
RStr(s) == E("str", <<s>>, <<>>)
RECURSIVE DataOf(_)
AllData(shapes) == Products([i \in DOMAIN shapes |-> DataOf(shapes[i])])
DataOf(shape) ==
    CASE shape.k = "bool" -> {E("bool", <<b>>, <<>>) : b \in {"True", "False"}}
      [] shape.k = "uint" -> {Numbered("uint", <<>>, n) : n \in Limits(shape.n)}
      [] shape.k = "int" -> {Numbered("int", <<>>, n - 2 ^ (shape.n - 1)) : n \in Limits(shape.n)}
      [] shape.k = "str" -> {RStr("a"), RStr("")}
      [] shape.k = "Option" -> {E("none", <<>>, <<>>)} \cup {E("some", <<>>, <<d>>) : d \in DataOf(shape.sub[1])}
      [] shape.k = "Vec" -> {E("seq", <<>>, s) : s \in UpToTwo(DataOf(shape.sub[1]))}
      [] shape.k = "HashMap" ->
            {E("map", <<>>, <<>>)}
            \cup UNION {{E("map", <<>>, <<RStr("a"), d>>),
                         E("map", <<>>, <<RStr("a"), d, RStr("b"), e>>)} :
                         d, e \in DataOf(shape.sub[1])}
      [] shape.k = "enum" -> UNION {DataOf(shape.sub[i]) : i \in DOMAIN shape.sub}
      [] OTHER -> {[shape EXCEPT !.sub = s] : s \in AllData(shape.sub)}

Leaves == {RBool, U32, U64, I64, RString, RUnit}
Triple == RTuple(<<RBool, RString, U64>>)
Over(s, t) == {ROption(s), RVec(s), RTuple(<<s>>), RTuple(<<s, t>>), RStruct(s, t), REnum(s, t),
               RResult(s, t)}
Level1 == UNION {Over(s, t) : s \in Leaves, t \in {RBool}}
Level2 == UNION {Over(s, RBool) : s \in {ROption(RBool), RVec(RBool), RTuple(<<RBool, RUnit>>),
                                         RStruct(RUnit, RBool), REnum(RBool, RUnit)}}
WithStaticType == Leaves \cup Level1 \cup Level2 \cup {Triple}
WithoutStaticType == {U128, I128, ROption(U128), RMap(U64), RMap(RMap(RBool)), ROption(RMap(RBool)),
                      RTuple(<<RMap(RBool), RBool>>)}

(***************************************************************************)
(* Dhall.                                                                  *)
(***************************************************************************)
TNatural == Builtin("Natural")
TBool == Builtin("Bool")
ListOfNatural == ListOf(TNatural)
Txt(s) == TextLit(<<s>>, <<>>)
Union(payload) == UnionType(<<"A", "B">>, <<payload, NoPayload>>)
OfUnion(payload, x) == App(Field(Union(payload), "A"), x)
None(t) == App(Builtin("None"), t)
Rec(l, x, m, y) == RecordLit(<<l, m>>, <<x, y>>)

Plain == {True, Txt("a"), Natural(1), Integer(-1), RecordLit(<<>>, <<>>), EmptyListLit(ListOfNatural),
          None(TBool), SomeLit(Natural(1)), Field(Union(TNatural), "B"), OfUnion(TNatural, Natural(1)),
          OfUnion(RecordType(<<"a">>, <<TBool>>), RecordLit(<<"a">>, <<True>>))}
Structured ==
    UNION {{NEListLit(<<x>>), NEListLit(<<x, x>>), RecordLit(<<"a">>, <<x>>), Rec("a", x, "b", True),
            SomeLit(x), Rec("_1", x, "_2", Natural(0)), RecordLit(<<"a", "b", "x">>, <<True, x, x>>)} : x \in Plain}
Identity == Lam("T", Const("Type"), Lam("x", V(0), V(0)))
Increment == Lam("x", TNatural, BinOp("NaturalPlus", V(0), Natural(1)))
Constructor == Field(Union(TNatural), "A")
Functions ==
    {Increment, Identity, Builtin("Natural/isZero"), App(Builtin("Natural/subtract"), Natural(1)),
     Builtin("List/length"), Builtin("None"), Lam("T", Const("Type"), EmptyListLit(ListOf(V(0)))),
     Lam("x", TNatural, Lam("y", TNatural, BinOp("NaturalTimes", V(1), V(0)))),
     Lam("x", TNatural, NEListLit(<<V(0)>>)), Lam("x", ListOfNatural, SomeLit(V(0))),
     Lam("x", TBool, EmptyListLit(ListOfNatural)),
     Lam("x", App(Builtin("Optional"), TNatural), Rec("a", V(0), "b", EmptyListLit(ListOfNatural))),
     Lam("x", Union(TNatural), Merge(Rec("A", Lam("n", TNatural, V(0)), "B", Natural(0)), V(0))),
     Lam("x", TNatural, OfUnion(TNatural, V(0))), Lam("x", TNatural, TBool),
     Lam("x", TNatural, Lam("T", Const("Type"), V(1))),
     Lam("f", Pi("_", TNatural, TNatural), Lam("x", TNatural, App(V(1), App(V(1), V(0))))),
     Lam("f", Pi("_", TNatural, TNatural), App(V(0), Natural(2))),
     Constructor, Lam("T", Const("Type"), V(0)), Lam("k", Const("Kind"), V(0))}
WithFunctions ==
    {NEListLit(<<Increment, Builtin("Natural/toInteger")>>), Rec("a", Natural(1), "f", Increment), SomeLit(Increment),
     Rec("a", Natural(1), "f", Identity), OfUnion(Pi("_", TNatural, TNatural), Increment)}
SomeTypes ==
    {TNatural, ListOfNatural, Union(TNatural), RecordType(<<"a">>, <<TBool>>), RecordType(<<>>, <<>>),
     Pi("x", TNatural, TBool), Pi("T", Const("Type"), ListOf(V(0))), Builtin("List"), Const("Type"),
     App(Builtin("Optional"), Pi("_", TBool, TBool)), UnionType(<<>>, <<>>)}
IllTypedOnes == {App(True, True), BinOp("NaturalPlus", Natural(1), True)}

(***************************************************************************)
(* Jobs.                                                                   *)
(***************************************************************************)
WritingsOf(shapes, Annots(_)) ==
    UNION {{Writing(d, s, a) : d \in DataOf(s), a \in Annots(s)} : s \in shapes}
FunctionOf(h) == function_from_nir(Eval(<<>>, h))
FunctionData == {E("Function", <<>>, <<FunctionOf(f)>>) : f \in Functions \ {Constructor}}
SimpleData(hs) == {E("SimpleValue", <<>>, <<value_from_nir(Eval(<<>>, h))>>) : h \in hs}
TypeData == {E("SimpleType", <<>>, <<t>>) : t \in UNION {Option(type_from_nir(Eval(<<>>, h))) : h \in SomeTypes}}
Unserializable ==
    {Rust("newtype_struct", <<>>, <<RBool>>), Rust("tuple_struct", <<>>, <<RBool, RBool>>)}
AllWritings ==
    WritingsOf(WithStaticType, LAMBDA s : {{}, {static_type(s)}})
    \cup WritingsOf(WithoutStaticType \cup Unserializable, LAMBDA s : {{}})
    \cup {Writing(d, RFunction, {}) : d \in FunctionData}
    \cup {Writing(d, RSimpleValue, {}) : d \in SimpleData(Plain)}
    \cup {Writing(d, RSimpleType, {}) : d \in TypeData}

Around(ns) == ns \cup {n - 1 : n \in ns} \cup {n + 1 : n \in ns}
NumberShapes == {U32, U64, I64, U128, I128, ROption(U64), RSimpleValue}
Naturals == {Natural(n) : n \in Around({2 ^ b : b \in {Width - 1, Width, 2 * Width - 1, 2 * Width}})}
Integers_ ==
    {Integer(n) : n \in Around({0} \cup UNION {{2 ^ b, -(2 ^ b)} : b \in {Width - 1, Width, 2 * Width - 1, 2 * Width}})}
NumberReadings == {Reading(h, "nothing", {}, {}, s) : h \in Naturals \cup Integers_, s \in NumberShapes}
Holding(x) == {SomeLit(x), NEListLit(<<x>>), Rec("a", x, "b", True), NEListLit(<<SomeLit(x)>>)}
DeepNumberReadings ==
    {Reading(h, "nothing", {}, {}, s) :
        h \in UNION {Holding(Natural(2 ^ (2 * Width) - n)) : n \in 0 .. 1},
        s \in {RSimpleValue, ROption(U128), RVec(U128), RVec(RSimpleValue), RStruct(RSimpleValue, RSimpleValue)}}

Shapes ==
    {RSimpleValue, RSimpleType, RFunction, RUnit, RMap(RBool), ROption(U64), RVec(U64), RStruct(RBool, U64),
     RTuple(<<U64, U64>>), REnum(U64, RBool), REnum(ROption(RBool), RUnit), Rust("unit_struct", <<>>, <<>>),
     Rust("newtype_struct", <<>>, <<U64>>), Rust("newtype_struct", <<>>, <<RFunction>>),
     Rust("tuple_struct", <<>>, <<U64, U64>>),
     Rust("enum", <<>>, <<Rust("tuple_variant", <<"A">>, <<RBool>>)>>)}
Readings ==
    {Reading(h, "nothing", {}, {}, s) :
        h \in Plain \cup Structured \cup WithFunctions \cup SomeTypes \cup IllTypedOnes, s \in Shapes}
Annotated ==
    {Reading(h, "nothing", {t}, {}, RSimpleValue) :
        h \in Plain, t \in {TBasic("Natural"), TRecord(<<>>, <<>>), TOptional(TBasic("Bool"))}}
Arguments ==
    {Numbered("uint", <<>>, 1), RStr("a"), E("none", <<>>, <<>>), E("seq", <<>>, <<>>),
     E("newtype_variant", <<"A">>, <<Numbered("uint", <<>>, 1)>>),
     E("Function", <<>>, <<FunctionOf(Increment)>>), E("SimpleType", <<>>, <<TBasic("Natural")>>)}
    \cup SimpleData({Natural(2), True})
Callings == {Reading(h, "nothing", {}, Arguments, RSimpleValue) : h \in Functions}
(* Fields that no field of the shape is for.                                *)
Ignorable == {Natural(2 ^ (2 * Width)), Natural(1), Integer(2 ^ (2 * Width - 1)), Increment,
              SomeLit(Increment), OfUnion(TNatural, Natural(2 ^ (2 * Width))), Field(Union(TNatural), "B"),
              RecordLit(<<"a">>, <<Natural(2 ^ (2 * Width))>>)}
IgnoringReadings ==
    {Reading(RecordLit(<<"a", "b", "x">>, <<a, True, x>>), "nothing", {}, {}, s) :
        a \in {Natural(1), Txt("a"), Increment}, x \in Ignorable,
        s \in {RStruct(RBool, U64), Rust("struct", <<"b">>, <<RBool>>), RTuple(<<U64, RBool>>), RMap(U64)}}
Importing == {Reading(True, needs, {}, {}, RBool) : needs \in {"local", "remote"}}

(* A number that serde has no call for, in a union.                         *)
MCOversized ==
    {Reading(OfUnion(TNatural, Natural(n)), "nothing", {}, {}, RSimpleValue) :
        n \in 2 ^ (2 * Width) - 1 .. 2 ^ (2 * Width)}

MCJobs == AllWritings \cup NumberReadings \cup DeepNumberReadings \cup Readings \cup Annotated \cup IgnoringReadings \cup Callings
          \cup Importing
=============================================================================
