------------------------------- MODULE MCCodec -------------------------------
(***************************************************************************)
(* Expressions of every kind over a few atoms, nested once more where the  *)
(* encoding flattens (applications, lets) or looks into a subexpression    *)
(* (empty lists), numbers on both sides of every machine limit, and files  *)
(* in the forms that only other implementations write.                     *)
(***************************************************************************)
EXTENDS BinaryFiles

MCBuiltins == {"List", "Optional", "None", "Natural"}
MCLabels == <<"_", "a", "x">>

Numbers == {0, 15, 16, 31, 32}
Atoms == {Var("_", 0), Var("x", 1), Builtin("List"), Natural(32)}
Lists == {App(Builtin("List"), Natural(0)), App(Var("_", 0), Natural(0))}
Leaves ==
    Atoms \cup Lists
    \cup {Const(c) : c \in {"Type", "Kind", "Sort"}}
    \cup {Bool(b) : b \in {"True", "False"}}
    \cup {Natural(n) : n \in Numbers}
    \cup {Integer(n) : n \in Numbers \cup {-n - 1 : n \in Numbers}}
    \cup {Double(d) : d \in {"half", "single", "double", "NaN"}}

Unary(A) ==
    UNION {{SomeLit(x), EmptyListLit(x), NEListLit(<<x>>), ToMap(x), Assertion(x),
            Field(x, "_"), Projection(x, <<>>), Projection(x, <<"a", "x">>),
            TextLit(<<"", "s">>, <<x>>), RecordType(<<"_">>, <<x>>)} : x \in A}
Binary(A) ==
    UNION {{Lam("_", x, y), Lam("x", x, y), Pi("_", x, y), Pi("x", x, y),
            App(x, y), Let("x", x, y), Let("_", x, y), Merge(x, y),
            ToMapTyped(x, y), Annot(x, y), ProjectionByExpr(x, y),
            Completion(x, y), NEListLit(<<x, y>>),
            With(x, <<"a">>, y), With(x, <<"x", "a">>, y),
            TextLit(<<"s", "", "x">>, <<x, y>>),
            RecordLit(<<"a", "x">>, <<x, y>>)} : x, y \in A}
Ternary(A) ==
    UNION {{LetTyped("x", x, y, z), MergeTyped(x, y, z), BoolIf(x, y, z),
            App(App(x, y), z), App(x, App(y, z)), Let("x", x, Let("_", y, z)),
            Let("x", Let("_", x, y), z), LetTyped("x", x, y, Let("a", z, x)),
            UnionType(<<"_", "a", "x">>, <<x, NoPayload, y>>)} : x, y, z \in A}
Operators == {BinOp(OpCodes[i], x, Natural(1)) : i \in DOMAIN OpCodes,
                                                 x \in Atoms}
Imports ==
    {Import(mode, scheme, hash, <<>>, path, <<>>, <<>>) :
        mode \in {"Code", "RawText", "Location"},
        scheme \in {"Absolute", "Here", "Parent", "Home"},
        hash \in {<<>>, <<<<1, 2>>>>}, path \in {<<"a">>, <<"x", "_">>}}
    \cup {Import("Code", "Env", <<>>, <<>>, <<"x">>, <<>>, <<>>),
          Import("Code", "Missing", <<<<1>>>>, <<>>, <<>>, <<>>, <<>>)}
    \cup {Import("Code", scheme, <<>>, <<"host">>, path, query, headers) :
            scheme \in {"HTTP", "HTTPS"}, path \in {<<>>, <<"a">>, <<"x", "_">>},
            query \in {<<>>, <<"q">>}, headers \in {<<>>, <<Var("x", 0)>>}}
MCExprs ==
    Leaves \cup {TextLit(<<"s">>, <<>>), RecordLit(<<>>, <<>>)}
    \cup Unary(Leaves) \cup Binary(Atoms) \cup Ternary({Var("_", 0), Natural(32)})
    \cup Operators \cup Imports

(* Old-style optionals, a Bool as a string, the tag of self-described CBOR, *)
(* the general form of an empty list, a repeated key, unordered labels, a   *)
(* union literal, Integers in every integer format, a negative Natural, a   *)
(* let without bindings, items left over in a let and in a text.            *)
T == Str("Natural")
MCForeign ==
    {<<Array(2), U(5), T>>, <<Array(3), U(5), T, U(0)>>, <<Str("True")>>,
     <<Tag(SelfDescribed), T>>, <<Tag(7), T>>,
     <<Array(2), U(28), Array(3), U(0), Str("List"), T>>,
     <<Array(2), U(8), Map(2), Str("x"), U(0), Str("x"), U(1)>>,
     <<Array(2), U(8), Map(2), Str("x"), U(0), Str("a"), U(1)>>,
     <<Array(4), U(10), U(0), Str("x"), Str("a")>>,
     <<Array(4), U(12), Str("x"), U(0), Map(0)>>,
     <<Array(2), U(16), Tag(PosBignum), Bytes(<<1>>)>>,
     <<Array(2), U(16), Negative(-17)>>,
     <<Array(2), U(15), Tag(PosBignum), Bytes(<<1>>)>>,
     <<Array(2), U(15), Tag(NegBignum), Bytes(<<1>>)>>,
     <<Array(2), U(25), T>>,
     <<Array(6), U(25), Str("x"), Null, U(0), T, U(1)>>,
     <<Array(3), U(18), Str("s"), U(0)>>,
     <<Array(5), U(24), Null, U(0), U(7), Str("x")>>}
=============================================================================
