-------------------------------- MODULE MCText --------------------------------
(***************************************************************************)
(* Every kind of expression around every kind, at every place; chains of  *)
(* operators of every two levels and of three, with and without            *)
(* parentheses; texts with the abbreviations and the separators that only  *)
(* people write, and texts that are refused.                               *)
(***************************************************************************)
EXTENDS TextFiles

MCBuiltinWords == {"List", "Natural", "Natural/even"}
MCPlainLabels == {"a", "b", "x", "_", "host"}
MCOddLabels == {"a b"}
MCPathWords == {"a.x"}
MCLiterals == {"2.5", "NaN"}
MCHashes == {"sha256:00"}
MCLabelOrder == <<"", "List", "Some", "_", "a", "a b", "b", "let", "x">>

(***************************************************************************)
(* Expressions.                                                            *)
(***************************************************************************)
X == Var("x", 0)
Here(path) == Import("Code", "Here", <<>>, <<>>, path, <<>>, <<>>)
Remote(path, query, headers) == Import("Code", "HTTPS", <<>>, <<"host">>, path, query, headers)
Kinds(s, t) ==
    {Lam("x", s, t), Pi("x", s, t), Pi("_", s, t), Let("x", s, t), LetTyped("x", s, t, X),
     App(s, t), BinOp("BoolOr", s, t), BinOp("NaturalPlus", s, t), BinOp("BoolNE", s, t),
     BoolIf(s, t, X), BoolIf(X, s, t), Merge(s, t), MergeTyped(X, s, t), ToMap(s),
     ToMapTyped(s, t), Field(s, "a"), Projection(s, <<"a", "b">>), ProjectionByExpr(s, t),
     Completion(s, t), With(s, <<"a">>, t), With(s, <<"a", "x">>, t), Annot(s, t), Assertion(s),
     SomeLit(s), EmptyListLit(s), NEListLit(<<s, t>>), RecordLit(<<"a", "b">>, <<s, t>>),
     RecordType(<<"a", "b">>, <<s, t>>), UnionType(<<"a", "b">>, <<s, NoPayload>>),
     TextLit(<< <<"a">>, <<"dollar">>, <<>> >>, <<s, t>>), Remote(<<"a">>, <<>>, <<s>>)}
Leaves ==
    {X, Var("_", 1), Var("List", 0), Var("", 0), Var("a b", 2), Var("let", 0), Const("Type"),
     Builtin("List"), Bool("True"), Natural(1), Integer(1), Integer(-1), Double("2.5"),
     Double("NaN"), TextLit(<< <<>> >>, <<>>), TextLit(<< <<"quote", "backslash", "newline">> >>, <<>>),
     RecordLit(<<>>, <<>>), RecordType(<<>>, <<>>), UnionType(<<>>, <<>>), Projection(X, <<>>),
     Field(X, "Some"), RecordLit(<<"", "a b", "let">>, <<X, X, X>>)}
Imports ==
    {Import(mode, scheme, hash, <<>>, path, <<>>, <<>>) :
        mode \in {"Code", "RawText", "Location"}, scheme \in DOMAIN LocalPrefixes,
        hash \in {<<>>, <<"sha256:00">>}, path \in {<<"a">>, <<"a b", "x">>}}
    \cup {[Remote(path, query, headers) EXCEPT !.at.hash = hash] :
            path \in {<<"">>, <<"a">>, <<"x", "">>}, query \in {<<>>, <<"a">>},
            headers \in {<<>>, <<X>>, <<Field(X, "a")>>}, hash \in {<<>>, <<"sha256:00">>}}
    \cup {Import("Code", "Env", <<>>, <<>>, <<e>>, <<>>, <<>>) : e \in {"a", "a b"}}
    \cup {Import(mode, "Missing", <<>>, <<>>, <<>>, <<>>, <<>>) : mode \in {"Code", "RawText"}}
Parts == Leaves \cup Kinds(X, X) \cup {Here(<<"a">>), Import("Code", "Missing", <<>>, <<>>, <<>>, <<>>, <<>>)}
Chains ==
    {BinOp(BinOps[i], BinOp(BinOps[j], X, Natural(1)), X) : i, j \in DOMAIN BinOps}
    \cup {BinOp(BinOps[i], X, BinOp(BinOps[j], Natural(1), X)) : i, j \in DOMAIN BinOps}
MCExprs ==
    Leaves \cup Imports \cup Chains
    \cup UNION {Kinds(e, X) \cup Kinds(X, e) : e \in Parts}

(***************************************************************************)
(* Texts.                                                                  *)
(***************************************************************************)
Infix(ops) ==
    <<"x">> \o FlattenSeq([i \in DOMAIN ops |-> <<" ", ops[i], " ", ToString(i)>>])
Operations ==
    {Infix(<<o, p>>) : o, p \in Range(OpSymbols)}
    \cup {Infix(<<o, p, q>>) : o, p, q \in {"===", "+", "&&", "combine", "!="}}
Spaced(words) == FlattenSeq([i \in DOMAIN words |-> IF i = 1 THEN <<words[i]>> ELSE <<" ", words[i]>>])
Multiline(lines) ==
    <<"''", "newline">> \o Between(<<"newline">>, lines) \o <<"''">>
Indented(n) == [i \in 1 .. n |-> " "]
HandWritten ==
    {Spaced(<<"let", "a", "=", "1", "let", "b", ":", "Natural", "=", "2", "in", "a">>),
     Spaced(<<"x", "with", "a", "=", "1", "with", "b", ".", "a", "=", "2">>),
     Spaced(<<"x", "with", "a", "=", "1", "||", "2">>), Spaced(<<"x", "x", "with", "a", "=", "1">>),
     Spaced(<<"x", "||", "x", "with", "a", "=", "1">>),
     Spaced(<<"{", ",", "a", ",", "b", "}">>), Spaced(<<"{", "a", ",", "b", ",", "}">>),
     Spaced(<<"{", "a", ".", "b", "=", "1", ",", "a", ".", "x", "=", "2", "}">>),
     Spaced(<<"{", "a", "=", "1", ",", "a", "=", "2", ",", "a", "=", "x", "}">>),
     Spaced(<<"{", "a", ":", "x", ",", "a", ":", "x", "}">>), Spaced(<<"{", "=", ",", "}">>),
     Spaced(<<"{", ",", "}">>), Spaced(<<"{", ",", "=", "}">>), <<"{", "}">>,
     Spaced(<<"<", "|", "a", "|", "b", ":", "x", "|", ">">>), Spaced(<<"<", "a", "|", "a", ">">>),
     Spaced(<<"[", ",", "1", ",", "2", ",", "]">>), Spaced(<<"[", "]">>),
     Spaced(<<"[", ",", "]", ":", "List", "x">>), Spaced(<<"[", "1", "]", ":", "List", "x">>),
     Spaced(<<"x", ".", "{", "b", ",", "a", ",", "}">>), Spaced(<<"x", ".", "{", "a", ",", "a", "}">>),
     Spaced(<<"x", ".", "(", "x", ")", ".", "a">>), Spaced(<<"x", "::", "x", "::", "x">>),
     Spaced(<<"x", "->", "x", "->", "x">>), Spaced(<<"x", ":", "x", ":", "x">>),
     Spaced(<<"merge", "x", "x", "x">>), Spaced(<<"merge", "x", "x", ":", "List", "x">>),
     Spaced(<<"merge", "x", "x", ":", "x", ":", "x">>), Spaced(<<"toMap", "x", "x", ":", "x">>),
     Spaced(<<"Some", "x", "x">>), Spaced(<<"Some", "Some", "x">>), Spaced(<<"(", "(", "x", ")", ")">>),
     Spaced(<<"assert", ":", "x", "===", "x", ":", "x">>), Spaced(<<"x", "@", "1", "1">>),
     <<"x", "+", "1">>, <<"x", " ", "+", "1">>, <<"x", "+", " ", "1">>, <<"x", "?", "x">>,
     Spaced(<<"(", "x", "||", "x", ")", "&&", "x">>), Spaced(<<"x", "*", "(", "x", "+", "x", ")">>),
     <<".", "/", "a", ".", "x">>, <<".", "/", "a", " ", ".", "x">>, <<"(", ".", "/", "a", ")", ".", "x">>,
     <<"missing", ".", "x">>, <<"env:", "a", " ", "?", " ", "x">>, <<"https", "://", "host", "?", "a">>,
     <<"https", "://", "host", "/", "a", " ", "using", " ", ".", "/", "x", " ", "sha256:00">>,
     <<"quote", "a", "${", "x", "}", "backslash", "u0024", "a", "quote">>,
     <<"quote", "${", "quote">>, <<"quote", "newline", "quote">>, <<"tick", "let", "tick">>,
     <<"let">>, <<"Natural">>, <<"Natural", "@", "1">>, <<"x", " ", "List">>, <<>>, <<" ">>}
    \cup {Multiline(<<Indented(k) \o <<"a">>, m, Indented(n) \o t>>) :
            k, n \in 0 .. 3, t \in {<<>>, <<"${", "x", "}">>, <<"'''">>},
            m \in {<<>>, <<" ">>, <<"tab", "a">>, Indented(2) \o <<"''${", "a">>, Indented(2) \o <<"${", "x", "}">>}}
MCTexts == Operations \cup HandWritten
===============================================================================
