------------------------------ MODULE MCLanguage ------------------------------
(***************************************************************************)
(* Functions whose bodies are every operator over their parameters and the *)
(* literals it treats specially, nested once more where two shortcuts can  *)
(* meet; a program for every builtin and binder; and every operator over   *)
(* operands of every sort, most of them ill typed.                         *)
(***************************************************************************)
EXTENDS Meaning

MCLabels == <<"A", "B", "None", "Some", "_", "a", "b", "index", "mapKey", "mapValue", "value">>
MCLoaded == <<Natural(2), Lam("_", Builtin("Bool"), V(0)), Builtin("Bool")>>
MCBuiltinNames ==
    {"List", "Optional", "None", "Text/replace", "Natural/subtract",
     "Natural/fold", "Natural/build", "List/build", "List/fold"} \cup Types
    \cup DOMAIN NumericBuiltins \cup ListBuiltins

TNatural == Builtin("Natural")
TBool == Builtin("Bool")
TText == Builtin("Text")
TList == App(Builtin("List"), TNatural)
TOptional == App(Builtin("Optional"), TNatural)
TRecord(ls) == RecordType(ls, [i \in DOMAIN ls |-> TNatural])
TUnion == UnionType(<<"A", "B">>, <<TNatural, NoPayload>>)
Record(ls, n) == RecordLit(ls, [i \in DOMAIN ls |-> Natural(n + i)])
Txt(s) == TextLit(<<s>>, <<>>)
ListLit(ns) ==
    IF ns = <<>> THEN EmptyListLit(TList) ELSE NEListLit([i \in DOMAIN ns |-> Natural(ns[i])])
Call(b, args) == FoldLeft(App, Builtin(b), args)
Function(types, body) == FoldRight(LAMBDA t, b : Lam("x", t, b), types, body)
Family(types, inputs, bodies) ==
    {[function |-> Function(types, b), inputs |-> inputs] : b \in bodies}
Ops(os, xs, ys) == {BinOp(o, x, y) : o \in os, x \in xs, y \in ys}
Ifs(xs, ys, zs) == {BoolIf(x, y, z) : x \in xs, y \in ys, z \in zs}

(***************************************************************************)
(* Booleans, numbers, texts and lists.                                     *)
(***************************************************************************)
Booleans == {True, False}
BoolOps == {"BoolAnd", "BoolOr", "BoolEQ", "BoolNE"}
Bools == Booleans \cup {V(0), V(1)}
Bools1 == Ops(BoolOps, Bools, Bools) \cup Ifs(Bools, Bools, Bools)
BoolPrograms ==
    Family(<<TBool, TBool>>, {<<x, y>> : x, y \in Booleans},
           Bools1 \cup Ops(BoolOps, Bools1, {V(0), False}) \cup Ops(BoolOps, {V(1), True}, Bools1)
           \cup Ifs(Bools1, {V(0)}, {True, V(0)}) \cup Ifs({V(0)}, Bools1, {False, V(1)})
           \cup Ifs({V(1)}, {V(0), True}, Ops(BoolOps, Bools, Bools)))

NatOps == {"NaturalPlus", "NaturalTimes"}
Nats == {Natural(n) : n \in 0 .. 2} \cup {V(0), V(1)}
NatOver(xs, ys) ==
    Ops(NatOps, xs, ys) \cup {Call("Natural/subtract", <<x, y>>) : x \in xs, y \in ys}
Nats1 == NatOver(Nats, Nats)
NatPrograms ==
    Family(<<TNatural, TNatural>>,
           {<<Natural(m), Natural(n)>> : m, n \in 0 .. 2},
           Nats1 \cup NatOver(Nats1, {V(0), Natural(0)}) \cup NatOver({V(1), Natural(1)}, Nats1)
           \cup {Call("Natural/subtract", <<x, x>>) : x \in Nats1}
           \cup {Call(b, <<x>>) : b \in {"Natural/isZero", "Natural/even", "Natural/odd",
                                        "Natural/toInteger", "Natural/show"}, x \in Nats1}
           \cup {Call(b, <<Call("Natural/toInteger", <<x>>)>>) :
                   b \in {"Integer/negate", "Integer/clamp", "Integer/show"}, x \in Nats}
           \cup {Call("Integer/clamp", <<Call("Integer/negate", <<Call("Natural/toInteger", <<x>>)>>)>>) :
                   x \in Nats})

Texts == {Txt(""), Txt("a"), Txt("ba"), V(0), V(1)}
Texts1 == Ops({"TextAppend"}, Texts, Texts)
          \cup {TextLit(<<"", "", "">>, <<x, y>>) : x, y \in Texts}
          \cup {TextLit(<<"a", "">>, <<x>>) : x \in Texts}
TextPrograms ==
    Family(<<TText, TText>>, {<<x, y>> : x, y \in {Txt(""), Txt("a"), Txt("ab")}},
           Texts1 \cup Ops({"TextAppend"}, Texts1, Texts)
           \cup {TextLit(<<"", "a">>, <<x>>) : x \in Texts1}
           \cup {Call("Text/replace", <<x, y, z>>) : x, y, z \in Texts}
           \cup {Call("Text/replace", <<Txt("a"), V(0), x>>) : x \in Texts1})

Lists == {ListLit(<<>>), ListLit(<<1>>), NEListLit(<<Natural(2), V(0)>>), V(1)}
Lists1 == Ops({"ListAppend"}, Lists, Lists)
ListPrograms ==
    Family(<<TList, TNatural>>,
           {<<ListLit(ns), Natural(1)>> : ns \in {<<>>, <<0>>, <<2, 1>>}},
           Lists1 \cup Ops({"ListAppend"}, Lists1, Lists)
           \cup {Call(b, <<TNatural, x>>) : b \in ListBuiltins, x \in Lists \cup Lists1}
           \cup {Call("List/fold", <<TNatural, x, TText,
                   Lam("x", TNatural, Lam("y", TText,
                       BinOp("TextAppend", Call("Natural/show", <<V(1)>>), V(0)))), Txt("")>>) :
                   x \in Lists}
           \cup {SomeLit(V(0)), NEListLit(<<SomeLit(V(0)), Call("None", <<TNatural>>)>>)})

(***************************************************************************)
(* Records.                                                                *)
(***************************************************************************)
LRecords == {Record(<<>>, 0), Record(<<"a">>, 3), Record(<<"b">>, 4), Record(<<"a", "b">>, 5),
             V(0), V(1)}
Merges == Ops({"RightBiasedRecordMerge"}, LRecords, LRecords)
RecordPrograms ==
    Family(<<TRecord(<<"a">>), TRecord(<<"a", "b">>)>>,
           {<<Record(<<"a">>, 0), Record(<<"a", "b">>, 1)>>},
           Merges
           \cup {Field(x, l) : x \in Merges, l \in {"a", "b"}}
           \cup {Projection(x, ls) : x \in Merges, ls \in {<<>>, <<"a">>, <<"a", "b">>}}
           \cup Ops({"RightBiasedRecordMerge"}, Merges, {V(0), Record(<<"a">>, 3)})
           \cup {Field(BinOp("RightBiasedRecordMerge", x, y), "a") :
                   x \in Merges, y \in {V(0), Record(<<"b">>, 3)}}
           \cup {Projection(Projection(V(0), <<"a", "b">>), <<"a">>),
                 Field(Projection(V(0), <<"a", "b">>), "b"),
                 ProjectionByExpr(V(0), TRecord(<<"b">>)),
                 ProjectionByExpr(BinOp("RightBiasedRecordMerge", V(0), Record(<<"a">>, 3)),
                                  TRecord(<<"a">>))}
           \cup {With(x, <<l>>, Natural(7)) : x \in LRecords \cup Merges, l \in {"a", "b"}}
           \cup {ToMap(x) : x \in Merges} \cup {ToMapTyped(x, App(Builtin("List"),
                    RecordType(<<"mapKey", "mapValue">>, <<TText, TNatural>>))) : x \in Merges})

Nested(l, x) == RecordLit(<<l>>, <<x>>)
NRecords == {Nested("a", Record(<<"a">>, 0)), Nested("a", Record(<<"b">>, 0)),
             Nested("b", Record(<<"b">>, 0)), Nested("a", Natural(1)), V(0), V(1)}
NMerges == Ops({"RecursiveRecordMerge"}, NRecords \cup {Record(<<>>, 0)}, NRecords \cup {Record(<<>>, 0)})
NestedPrograms ==
    Family(<<RecordType(<<"a">>, <<TRecord(<<"a">>)>>), RecordType(<<"a">>, <<TRecord(<<"b">>)>>)>>,
           {<<Nested("a", Record(<<"a">>, 4)), Nested("a", Record(<<"b">>, 6))>>},
           NMerges
           \cup {Field(x, l) : x \in NMerges, l \in {"a", "b"}}
           \cup {Field(Field(x, "a"), l) : x \in NMerges, l \in {"a", "b"}}
           \cup {Projection(x, <<"a">>) : x \in NMerges}
           \cup Ops({"RecursiveRecordMerge"}, NMerges, {V(0), Record(<<"b">>, 1)})
           \cup Ops({"RightBiasedRecordMerge"}, NMerges, {V(0), Nested("b", V(1))})
           \cup {With(x, <<"a", l>>, Natural(7)) : x \in NRecords, l \in {"a", "b"}}
           \cup {With(x, <<"b", "a">>, V(0)) : x \in NRecords})

(***************************************************************************)
(* Unions, optionals, functions.                                           *)
(***************************************************************************)
OnNatural(x) == Lam("n", TNatural, x)
Handlers == {OnNatural(V(0)), OnNatural(BinOp("NaturalPlus", V(0), Natural(1))), OnNatural(True),
             Lam("n", TBool, Natural(1)), Natural(0), V(1), Builtin("Natural/isZero"), True}
HandlerRecords == {RecordLit(<<"A", "B">>, <<x, y>>) : x, y \in Handlers}
                  \cup {RecordLit(<<"A">>, <<x>>) : x \in Handlers}
                  \cup {RecordLit(<<"A", "B", "a">>, <<OnNatural(V(0)), V(1), V(1)>>)}
Scrutinees == {V(0), Field(TUnion, "B"), App(Field(TUnion, "A"), V(1))}
UnionPrograms ==
    Family(<<TNatural, TUnion>>,
           {<<Natural(1), App(Field(TUnion, "A"), Natural(2))>>,
            <<Natural(1), Field(TUnion, "B")>>},
           {Merge(x, y) : x \in HandlerRecords, y \in Scrutinees}
           \cup {MergeTyped(x, V(0), t) : x \in HandlerRecords, t \in {TNatural, TBool}}
           \cup {Field(TUnion, "A")})
    \cup Family(<<TNatural, TOptional>>,
           {<<Natural(1), SomeLit(Natural(2))>>, <<Natural(1), Call("None", <<TNatural>>)>>},
           {Merge(RecordLit(<<"None", "Some">>, <<y, x>>), z) : x, y \in Handlers,
                z \in {V(0), SomeLit(V(1)), Call("None", <<TNatural>>)}}
           \cup {Merge(RecordLit(<<"Some">>, <<x>>), V(0)) : x \in Handlers})

Identity(x) == Lam(x, Const("Type"), Lam(x, V(0), V(0)))
PairOf(x, y, b) == Lam(x, TBool, Lam(y, TBool, b))
Comparable ==
    {Identity("a"), Identity("b"), PairOf("a", "b", V(0)), PairOf("a", "b", V(1)),
     PairOf("a", "a", V(1)), PairOf("b", "a", BinOp("BoolAnd", V(1), V(1))),
     Lam("a", TBool, Lam("b", TBool, BoolIf(V(1), True, False))),
     Lam("a", TNatural, Call("Natural/subtract", <<V(0), V(0)>>)),
     Lam("a", TNatural, Natural(0)), Txt("a"), Txt(""),
     Call("Text/replace", <<Txt("a"), Txt(""), Txt("a")>>),
     Call("Text/replace", <<Txt("a"), Txt("b"), Txt("a")>>), Txt("b"),
     TextLit(<<"", "">>, <<Txt("a")>>), BinOp("TextAppend", Txt(""), Txt("")),
     ListLit(<<>>), Call("List/reverse", <<TNatural, ListLit(<<>>)>>), ListLit(<<1, 2>>),
     Call("List/build", <<TNatural, Lam("list", Const("Type"),
        Lam("cons", Pi("_", TNatural, Pi("_", V(1), V(2))),
            Lam("nil", V(1), App(App(V(1), Natural(1)), App(App(V(1), Natural(2)), V(0))))))>>)}
Assertions == {Assertion(BinOp("Equivalence", x, y)) : x, y \in Comparable}

(* A constructor with a payload of every sort, functions on types, imports. *)
TypeUnion == UnionType(<<"A">>, <<Const("Type")>>)
ListMap ==
    Lam("x", Const("Type"), Lam("f", Pi("_", V(0), V(1)), Lam("x", App(Builtin("List"), V(1)),
        Call("List/fold", <<V(2), V(0), App(Builtin("List"), V(2)),
            Lam("x", V(2), Lam("y", App(Builtin("List"), V(3)),
                BinOp("ListAppend", NEListLit(<<App(V(3), V(1))>>), V(0)))),
            EmptyListLit(App(Builtin("List"), V(2)))>>))))
OtherClosed ==
    {Merge(Nested("A", Lam("t", Const("Type"), Lam("x", V(0), V(0)))),
           App(Field(TypeUnion, "A"), TNatural)),
     Merge(Nested("A", Lam("t", Const("Type"), TBool)), App(Field(TypeUnion, "A"), TNatural)),
     Lam("t", Const("Kind"), V(0)), Pi("t", Const("Kind"), V(0)), Const("Kind"), Const("Sort"),
     Identity("a"), App(Identity("a"), TNatural), App(App(Identity("a"), TNatural), True),
     ListMap, App(ListMap, TNatural),
     Lam("f", Pi("_", TBool, TBool), Lam("x", TBool, App(V(1), App(V(1), V(0))))),
     Lam("f", Pi("x", Const("Type"), Const("Type")), App(V(0), TNatural)),
     Let("t", TNatural, Lam("x", V(0), BinOp("NaturalPlus", V(0), Natural(1)))),
     Let("x", Natural(1), Let("y", BinOp("NaturalPlus", V(0), V(0)), BinOp("NaturalTimes", V(0), V(1)))),
     LetTyped("x", TBool, Natural(1), V(0)), LetTyped("x", TNatural, Natural(1), V(0)),
     Annot(Lam("x", TBool, V(0)), Pi("y", TBool, TBool)), Annot(Const("Kind"), Const("Sort")),
     Annot(TBool, Const("Sort")), Annot(TypeUnion, Const("Kind")),
     ImportedExpr(1), App(ImportedExpr(2), True), Lam("x", ImportedExpr(3), V(0)),
     ImportAlternative(TRUE, ImportedExpr(1), ImportedExpr(2)),
     ImportAlternative(FALSE, App(True, True), ImportedExpr(2)),
     Annot(ImportAlternative(TRUE, ImportedExpr(1), ImportedExpr(2)), TBool),
     Lam("x", TypeUnion, Merge(Nested("A", Lam("t", Const("Type"), App(Builtin("List"), V(0)))), V(0)))}
Folds ==
    Family(<<TNatural, TNatural>>, {<<Natural(m), Natural(n)>> : m \in 0 .. 2, n \in {1}},
           {Call("Natural/fold", <<x, TNatural,
                Lam("x", TNatural, BinOp(o, V(0), Natural(2))), V(0)>>) :
                x \in {V(0), V(1), Natural(2)}, o \in NatOps}
           \cup {Call("Natural/fold", <<V(1), TNatural,
                    Lam("x", TNatural, BinOp("NaturalPlus", V(0), V(1))), V(0)>>)}
           \cup {Call("Natural/build", <<Lam("t", Const("Type"),
                    Lam("s", Pi("_", V(0), V(1)), Lam("z", V(1), body)))>>) :
                    body \in {V(0), App(V(1), V(0)), App(V(1), App(V(1), V(0)))}}
           \cup {Call("List/build", <<TNatural, Lam("t", Const("Type"),
                    Lam("c", Pi("_", TNatural, Pi("_", V(1), V(2))),
                        Lam("n", V(1), App(App(V(1), V(4)), App(App(V(1), Natural(2)), V(0))))))>>)})
BuiltinPrograms ==
    {[function |-> Builtin(b), inputs |-> {}] : b \in DOMAIN FullArity \cup Types \cup {"List", "None"}}

(***************************************************************************)
(* Operators over operands of every sort.                                  *)
(***************************************************************************)
Things ==
    {True, Natural(1), ListLit(<<>>), Record(<<>>, 0), Record(<<"a">>, 0), Field(TUnion, "A"),
     Const("Type"), Const("Kind"), TNatural, Builtin("List"), TUnion, TRecord(<<"a">>),
     Nested("A", OnNatural(V(0))), Nested("a", TNatural), Identity("a"), Pi("x", TNatural, TBool)}
Somethings == {True, Natural(1), Record(<<"a">>, 0), Const("Type"), TNatural, TUnion, Identity("a")}
AllOps == BoolOps \cup NatOps
          \cup {"TextAppend", "ListAppend", "RecursiveRecordMerge", "RightBiasedRecordMerge",
                "RecursiveRecordTypeMerge", "Equivalence"}
OneLayer ==
    Ops(AllOps, Things, Things)
    \cup UNION {{App(x, y), Merge(x, y), Annot(x, y), ToMapTyped(x, y), ProjectionByExpr(x, y),
                 With(x, <<"a">>, y), With(x, <<"a", "b">>, y), NEListLit(<<x, y>>),
                 RecordLit(<<"a", "b">>, <<x, y>>), RecordType(<<"a", "b">>, <<x, y>>),
                 UnionType(<<"A", "B">>, <<x, y>>), Let("x", x, y), Lam("x", x, y), Pi("x", x, y)} :
                 x, y \in Things}
    \cup UNION {{ToMap(x), SomeLit(x), EmptyListLit(x), Assertion(x), Field(x, "a"), Field(x, "A"),
                 Projection(x, <<"a">>), TextLit(<<"a", "">>, <<x>>), Lam("x", x, V(0)),
                 Lam("x", x, Lam("y", V(0), V(0))), Pi("x", x, V(0)), Field(UnionType(<<"A">>, <<x>>), "A")} :
                 x \in Things}
    \cup Ifs(Somethings, Somethings, Somethings)

Closed(bodies) == {[function |-> b, inputs |-> {<<>>}] : b \in bodies}
MCPrograms ==
    BoolPrograms \cup NatPrograms \cup TextPrograms \cup ListPrograms \cup RecordPrograms
    \cup NestedPrograms \cup UnionPrograms \cup Folds \cup BuiltinPrograms
    \cup Closed(Comparable \cup Assertions \cup OtherClosed \cup OneLayer)

(* Merges of every two operands, for the claim.                             *)
MCMerges == Closed(Ops({"RightBiasedRecordMerge"}, Things, Things))
===============================================================================
