----------------------------- MODULE BinaryCodec -----------------------------
(***************************************************************************)
(* The binary form of expressions (dhall/src/syntax/binary/).              *)
(*                                                                         *)
(* A file is a sequence of CBOR heads: a number, a string, null, or the    *)
(* head of an array or map that announces how many items follow.  Machine  *)
(* integers are Width bits wide instead of 64.  A byte string is its       *)
(* digits; the digits of a bignum are one, its magnitude.  A Double is     *)
(* named for the narrowest format it fits.                                 *)
(***************************************************************************)
EXTENDS Syntax, FiniteSets, FiniteSetsExt, Functions

CONSTANTS
    Width,          \* the bits of a machine integer (64)
    BuiltinNames,   \* the names Builtin::parse knows
    LabelOrder      \* the labels, in their order

U64 == 0 .. 2 ^ Width - 1
I64 == -(2 ^ (Width - 1)) .. 2 ^ (Width - 1) - 1

(***************************************************************************)
(* Heads.                                                                  *)
(***************************************************************************)
Null == [t |-> "null"]
U(n) == [t |-> "uint", n |-> n]
Negative(n) == [t |-> "nint", n |-> n]
Str(s) == [t |-> "str", s |-> s]
Boolean(b) == [t |-> "bool", s |-> b]
Float(width, d) == [t |-> "float", width |-> width, d |-> d]
Bytes(digits) == [t |-> "bytes", digits |-> digits]
Tag(n) == [t |-> "tag", n |-> n]
Array(n) == [t |-> "array", n |-> n]
Map(n) == [t |-> "map", n |-> n]

PosBignum == 2
NegBignum == 3
SelfDescribed == 55799

(***************************************************************************)
(* Encoding.                                                               *)
(***************************************************************************)
(* Mutant: a number that is too wide is truncated.                          *)
encode_natural_truncated(n) == <<U(n % 2 ^ Width)>>
encode_natural(n) ==
    IF n \in U64 THEN <<U(n)>> ELSE <<Tag(PosBignum), Bytes(<<n>>)>>

(* Mutant: a negative bignum stores the magnitude.                          *)
encode_integer_magnitude(n) ==
    CASE n \in I64 -> <<IF n < 0 THEN Negative(n) ELSE U(n)>>
      [] n \notin I64 /\ n < 0 -> <<Tag(NegBignum), Bytes(<<-n>>)>>
      [] n \notin I64 /\ n >= 0 -> <<Tag(PosBignum), Bytes(<<n>>)>>
(* A negative bignum stores m such that the value is -1 - m.                *)
encode_integer(n) ==
    CASE n \in I64 -> <<IF n < 0 THEN Negative(n) ELSE U(n)>>
      [] n \notin I64 /\ n < 0 -> <<Tag(NegBignum), Bytes(<<-n - 1>>)>>
      [] n \notin I64 /\ n >= 0 -> <<Tag(PosBignum), Bytes(<<n>>)>>

Fits(format) == CASE format = "f16" -> {"half", "NaN"}
                  [] format = "f32" -> {"half", "single", "NaN"}
                  [] format = "f64" -> {"half", "single", "double", "NaN"}
Rounded(format, d) == IF d \in Fits(format) THEN d ELSE "half"
encode_double(d) ==
    LET narrowest == CASE Rounded("f16", d) = d -> "f16"
                       [] Rounded("f16", d) # d /\ Rounded("f32", d) = d -> "f32"
                       [] OTHER -> "f64"
    IN  <<Float(narrowest, Rounded(narrowest, d))>>

OpCodes == <<"BoolOr", "BoolAnd", "BoolEQ", "BoolNE", "NaturalPlus",
             "NaturalTimes", "TextAppend", "ListAppend",
             "RecursiveRecordMerge", "RightBiasedRecordMerge",
             "RecursiveRecordTypeMerge", "ImportAlt", "Equivalence">>

Modes == <<"Code", "RawText", "Location">>
Schemes == <<"HTTP", "HTTPS", "Absolute", "Here", "Parent", "Home",
             "Env", "Missing">>
CodeIn(table, x) == (CHOOSE i \in DOMAIN table : table[i] = x) - 1

(* The kinds that are a code and then their subexpressions, however many.   *)
PlainCodes == [BoolIf |-> 14, Annot |-> 26, Assert |-> 19, Merge |-> 6,
               ToMap |-> 27]

RECURSIVE Spine(_), LetBody(_), LetChain(_)
(* collect_nested_applications, with the arguments in the order written.    *)
Spine(e) == IF e.k = "App" THEN Append(Spine(e.sub[1]), e.sub[2]) ELSE <<e>>
(* collect_nested_lets.                                                     *)
LetBody(e) == IF e.k = "Let" THEN LetBody(e.sub[Len(e.sub)]) ELSE e
LetChain(e) ==
    IF e.k = "Let" THEN <<e>> \o LetChain(e.sub[Len(e.sub)]) ELSE <<>>

(* Mutant: the query counts only where there is one.                       *)
ImportCountOfQuery(e) ==
    4 + CASE e.at.scheme \in {"HTTP", "HTTPS"} ->
                2 + Len(e.lab) + Len(e.at.query)
          [] OTHER -> Len(e.lab)
(* How many items an import announces, before its fields are written.       *)
ImportCount(e) ==
    4 + CASE e.at.scheme \in {"HTTP", "HTTPS"} -> 3 + Len(e.lab)
          [] e.at.scheme = "Missing" -> 0
          [] OTHER -> Len(e.lab)

Strings(ls) == [i \in DOMAIN ls |-> Str(ls[i])]
IsListOf(t) == t.k = "App" /\ t.sub[1] = Builtin("List")

RECURSIVE Encoded(_)
EncodedAll(es) == FlattenSeq([i \in DOMAIN es |-> Encoded(es[i])])
OrNull(es) == IF es = <<>> THEN <<Null>> ELSE EncodedAll(es)
Coded(n, code, items) == <<Array(n), U(code)>> \o items

(* The name of a binder or a variable is left out if it is _.               *)
EncodedBinder(code, e) ==
    IF e.lab[1] = "_" THEN Coded(3, code, EncodedAll(e.sub))
    ELSE Coded(4, code, <<Str(e.lab[1])>> \o EncodedAll(e.sub))
EncodedVar(e) == IF e.lab[1] = "_" THEN <<U(e.n)>>
                 ELSE <<Array(2), Str(e.lab[1]), U(e.n)>>
EncodedEntries(code, e) ==
    Coded(2, code, <<Map(Len(e.lab))>> \o
          FlattenSeq([i \in DOMAIN e.lab |->
                        <<Str(e.lab[i])>> \o Encoded(e.sub[i])]))
encode_let(e) ==
    LET chain == LetChain(e)
        Binding(l) == <<Str(l.lab[1])>>
                      \o OrNull(SubSeq(l.sub, 1, Len(l.sub) - 2))
                      \o Encoded(l.sub[Len(l.sub) - 1])
    IN  Coded(2 + 3 * Len(chain), 25,
              FlattenSeq([i \in DOMAIN chain |-> Binding(chain[i])])
              \o Encoded(LetBody(e)))
encode_application(e) == Coded(1 + Len(Spine(e)), 0, EncodedAll(Spine(e)))
EncodedText(e) ==
    Coded(1 + Len(e.lab) + Len(e.sub), 18,
          FlattenSeq([i \in DOMAIN e.lab |->
                        <<Str(e.lab[i])>>
                        \o IF i \in DOMAIN e.sub THEN Encoded(e.sub[i]) ELSE <<>>]))
encode_import(e) ==
    <<Array(ImportCount(e)), U(24)>>
    \o (IF e.at.hash = <<>> THEN <<Null>> ELSE <<Bytes(<<18, 32>> \o e.at.hash[1])>>)
    \o <<U(CodeIn(Modes, e.at.mode)), U(CodeIn(Schemes, e.at.scheme))>>
    \o IF e.at.scheme \in {"HTTP", "HTTPS"}
       THEN OrNull(e.sub) \o Strings(e.at.authority \o e.lab)
            \o (IF e.at.query = <<>> THEN <<Null>> ELSE Strings(e.at.query))
       ELSE Strings(e.lab)

Encoded(e) ==
    CASE e.k \in {"Const", "Builtin"} -> <<Str(e.lab[1])>>
      [] e.k = "Bool" -> <<Boolean(e.lab[1])>>
      [] e.k = "Natural" -> Coded(2, 15, encode_natural(e.n))
      [] e.k = "Integer" -> Coded(2, 16, encode_integer(e.n))
      [] e.k = "Double" -> encode_double(e.lab[1])
      [] e.k = "NoPayload" -> <<Null>>
      [] e.k = "Var" -> EncodedVar(e)
      [] e.k = "Lam" -> EncodedBinder(1, e)
      [] e.k = "Pi" -> EncodedBinder(2, e)
      [] e.k = "Let" -> encode_let(e)
      [] e.k = "App" -> encode_application(e)
      [] e.k \in DOMAIN PlainCodes ->
            Coded(1 + Len(e.sub), PlainCodes[e.k], EncodedAll(e.sub))
      [] e.k = "SomeLit" -> Coded(3, 5, <<Null>> \o EncodedAll(e.sub))
      [] e.k = "EmptyListLit" /\ IsListOf(e.sub[1]) ->
            Coded(2, 4, Encoded(e.sub[1].sub[2]))
      [] e.k = "EmptyListLit" /\ ~IsListOf(e.sub[1]) ->
            Coded(2, 28, EncodedAll(e.sub))
      [] e.k = "NEListLit" ->
            Coded(2 + Len(e.sub), 4, <<Null>> \o EncodedAll(e.sub))
      [] e.k = "TextLit" -> EncodedText(e)
      [] e.k = "RecordType" -> EncodedEntries(7, e)
      [] e.k = "RecordLit" -> EncodedEntries(8, e)
      [] e.k = "UnionType" -> EncodedEntries(11, e)
      [] e.k = "Field" -> Coded(3, 9, EncodedAll(e.sub) \o Strings(e.lab))
      [] e.k = "BinOp" ->
            Coded(4, 3, <<U(CodeIn(OpCodes, e.lab[1]))>> \o EncodedAll(e.sub))
      [] e.k = "Completion" -> Coded(4, 3, <<U(13)>> \o EncodedAll(e.sub))
      [] e.k = "Projection" ->
            Coded(2 + Len(e.lab), 10, EncodedAll(e.sub) \o Strings(e.lab))
      [] e.k = "ProjectionByExpr" ->
            Coded(3, 10, Encoded(e.sub[1]) \o <<Array(1)>> \o Encoded(e.sub[2]))
      [] e.k = "With" ->
            Coded(4, 29, Encoded(e.sub[1]) \o <<Array(Len(e.lab))>>
                         \o Strings(e.lab) \o Encoded(e.sub[2]))
      [] e.k = "Import" -> encode_import(e)

(***************************************************************************)
(* Reading a value off the front of a file.  What could not be read is     *)
(* Error, as a value and as an expression.                                 *)
(***************************************************************************)
Error == [k |-> "Error"]
Got(value, rest) == [k |-> "Got", value |-> value, rest |-> rest]
Void == [v |-> "Null"]
N(n) == [v |-> "U64", n |-> n]
String(s) == [v |-> "String", s |-> s]
Items(vals) == [v |-> "Array", items |-> vals]

RECURSIVE Read(_), ReadItems(_, _), ReadEntries(_, _)
ReadBignum(tag, file) ==
    IF file = <<>> \/ file[1].t # "bytes" THEN Error
    ELSE LET m == FoldLeft(+, 0, file[1].digits) IN
         Got([v |-> "Big", n |-> IF tag = PosBignum THEN m ELSE -m - 1],
             Tail(file))
ReadItems(n, file) ==
    IF n = 0 THEN Got(<<>>, file)
    ELSE LET first == Read(file) IN
         IF first = Error THEN Error
         ELSE LET others == ReadItems(n - 1, first.rest) IN
              IF others = Error THEN Error
              ELSE Got(<<first.value>> \o others.value, others.rest)
(* An entry whose key was there before replaces it.                         *)
ReadEntries(n, file) ==
    IF n = 0 THEN Got([l \in {} |-> Void], file)
    ELSE IF file = <<>> \/ file[1].t # "str" THEN Error
    ELSE LET first == Read(Tail(file)) IN
         IF first = Error THEN Error
         ELSE LET others == ReadEntries(n - 1, first.rest) IN
              IF others = Error THEN Error
              ELSE Got(others.value @@ (file[1].s :> first.value), others.rest)

Read(file) ==
    IF file = <<>> THEN Error
    ELSE LET head == file[1]
             rest == Tail(file)
             Wrap(got, name) == IF got = Error THEN Error ELSE
                CASE name = "Array" -> Got(Items(got.value), got.rest)
                  [] name = "Object" ->
                        Got([v |-> "Object", entries |-> got.value], got.rest)
         IN  CASE head.t = "null" -> Got(Void, rest)
               [] head.t = "bool" -> Got([v |-> "Bool", s |-> head.s], rest)
               [] head.t = "uint" -> Got(N(head.n), rest)
               [] head.t = "nint" ->
                    IF head.n \in I64 THEN Got([v |-> "I64", n |-> head.n], rest)
                    ELSE Error
               [] head.t = "float" -> Got([v |-> "F64", d |-> head.d], rest)
               [] head.t = "str" -> Got(String(head.s), rest)
               [] head.t = "bytes" ->
                    Got([v |-> "Bytes", digits |-> head.digits], rest)
               [] head.t = "array" -> Wrap(ReadItems(head.n, rest), "Array")
               [] head.t = "map" -> Wrap(ReadEntries(head.n, rest), "Object")
               [] head.t = "tag" ->
                    CASE head.n = SelfDescribed -> Read(rest)
                      [] head.n \in {PosBignum, NegBignum} ->
                            ReadBignum(head.n, rest)
                      [] OTHER -> Error
               [] OTHER -> Error

(***************************************************************************)
(* From values to expressions.                                             *)
(***************************************************************************)
RECURSIVE cbor_value_to_dhall(_)
FromAll(vals) == [i \in DOMAIN vals |-> cbor_value_to_dhall(vals[i])]
(* A node of which some part is an Error is one itself.                     *)
Node(e) == IF \E i \in DOMAIN e.sub : e.sub[i] = Error THEN Error ELSE e
Made(k, lab, vals) == Node(E(k, lab, FromAll(vals)))
AllStrings(vals) == \A i \in DOMAIN vals : vals[i].v = "String"
Texts(vals) == [i \in DOMAIN vals |-> vals[i].s]
From(vals, i) == SubSeq(vals, i, Len(vals))

decode_let(rest) ==
    LET n == Len(rest) \div 3
        Binding(i) ==
            IF rest[3 * i - 2].v # "String" THEN Error
            ELSE Made("Let", <<rest[3 * i - 2].s>>,
                      (IF rest[3 * i - 1] = Void THEN <<>>
                       ELSE <<rest[3 * i - 1]>>) \o <<rest[3 * i]>>)
        Nest(body, i) == IF body = Error \/ Binding(i) = Error THEN Error
                         ELSE [Binding(i) EXCEPT !.sub = Append(@, body)]
    IN  IF Len(rest) = 3 * n THEN Error
        ELSE FoldRight(LAMBDA i, body : Nest(body, i),
                       [i \in 1 .. n |-> i],
                       cbor_value_to_dhall(rest[3 * n + 1]))

decode_application(vals) ==
    IF Len(vals) < 2 \/ Error \in Range(FromAll(vals)) THEN Error
    ELSE FoldLeft(App, cbor_value_to_dhall(vals[1]), From(FromAll(vals), 2))

(* Pairs of an expression and a text; an item left over is dropped.         *)
decode_text(first, rest) ==
    LET n == Len(rest) \div 2
        texts == [i \in 1 .. n |-> rest[2 * i]]
    IN  IF AllStrings(texts)
        THEN Made("TextLit", <<first>> \o Texts(texts),
                  [i \in 1 .. n |-> rest[2 * i - 1]])
        ELSE Error

decode_import_mode(code) == IF code \in 0 .. 2 THEN {Modes[code + 1]} ELSE {}
(* A multihash of which any length is taken.                                *)
decode_import_hash(hash) ==
    CASE hash.v = "Null" -> {<<>>}
      [] hash.v = "Bytes" /\ IsPrefix(<<18, 32>>, hash.digits) ->
            {<<From(hash.digits, 3)>>}
      [] OTHER -> {}
decode_path(vals) == IF AllStrings(vals) THEN {Texts(vals)} ELSE {}

(* The query comes off the back before the rest is read as the path.        *)
decode_remote(mode, scheme, hash, rest) ==
    IF \/ Len(rest) < 3 \/ rest[2].v # "String"
       \/ rest[Len(rest)].v \notin {"Null", "String"}
    THEN {}
    ELSE {Import(mode, scheme, hash, <<rest[2].s>>, path,
                 IF rest[Len(rest)] = Void THEN <<>> ELSE <<rest[Len(rest)].s>>,
                 IF rest[1] = Void THEN <<>> ELSE FromAll(<<rest[1]>>)) :
            path \in decode_path(SubSeq(rest, 3, Len(rest) - 1))}
decode_import_location(mode, code, hash, rest) ==
    LET ToPath(vals) ==
            {Import(mode, Schemes[code + 1], hash, <<>>, path, <<>>, <<>>) :
                path \in decode_path(vals)}
    IN  CASE code \in 0 .. 1 ->
                decode_remote(mode, Schemes[code + 1], hash, rest)
          [] code \in 2 .. 5 -> ToPath(rest)
          [] code = 6 /\ rest # <<>> -> ToPath(SubSeq(rest, 1, 1))
          [] code = 7 -> ToPath(<<>>)
          [] OTHER -> {}
(* What each part may be is a set of at most one.                           *)
decode_import(hash, modeCode, code, rest) ==
    LET imports == UNION {decode_import_location(mode, code, digest, rest) :
                            mode \in decode_import_mode(modeCode),
                            digest \in decode_import_hash(hash)}
    IN  IF imports = {} THEN Error ELSE Node(CHOOSE i \in imports : TRUE)

decode_entries(k, entries) ==
    LET labels == SelectSeq(LabelOrder, LAMBDA l : l \in DOMAIN entries)
    IN  Node(E(k, labels,
               [i \in DOMAIN labels |->
                  IF k = "UnionType" /\ entries[labels[i]] = Void THEN NoPayload
                  ELSE cbor_value_to_dhall(entries[labels[i]])]))

PlainLengths == [BoolIf |-> {4}, Annot |-> {3}, Assert |-> {2},
                 Merge |-> {3, 4}, ToMap |-> {2, 3}]
PlainKind(code) == {k \in DOMAIN PlainCodes : PlainCodes[k] = code}

decode_binder(k, vals) ==
    CASE Len(vals) = 2 -> Made(k, <<"_">>, vals)
      [] Len(vals) = 3 /\ vals[1].v = "String" ->
            IF vals[1].s = "_" THEN Error ELSE Made(k, <<vals[1].s>>, Tail(vals))
      [] OTHER -> Error
binop_from_code(code) == IF code \in 0 .. 12 THEN {OpCodes[code + 1]} ELSE {}
(* Standard tags 3 to 5: the operators, list and optional literals.         *)
decode_array_operators(code, rest) ==
    LET n == Len(rest)
        typed(b) == Node(App(Builtin(b), cbor_value_to_dhall(rest[1])))
        nulled == n >= 1 /\ rest[1] = Void
    IN  CASE code = 3 /\ n = 3 /\ rest[1].v = "U64" ->
                CASE rest[1].n = 13 -> Made("Completion", <<>>, Tail(rest))
                  [] binop_from_code(rest[1].n) # {} ->
                        Made("BinOp", SetToSeq(binop_from_code(rest[1].n)),
                             Tail(rest))
                  [] OTHER -> Error
          [] code = 4 /\ n = 1 -> Node(EmptyListLit(typed("List")))
          [] code = 4 /\ n > 1 /\ nulled -> Made("NEListLit", <<>>, Tail(rest))
          [] code = 5 /\ n = 2 /\ nulled -> Made("SomeLit", <<>>, Tail(rest))
          [] code = 5 /\ n = 1 -> typed("None")
          [] code = 5 /\ n = 2 /\ ~nulled ->
                Node(Annot(Made("SomeLit", <<>>, Tail(rest)), typed("Optional")))
          [] OTHER -> Error
(* Tags 7 to 11: records, fields, projections and unions.                   *)
decode_array_rest(code, rest) ==
    LET n == Len(rest) IN
    CASE code \in {7, 8, 11} /\ n = 1 /\ rest[1].v = "Object" ->
            decode_entries(CASE code = 7 -> "RecordType" [] code = 8 -> "RecordLit"
                             [] code = 11 -> "UnionType", rest[1].entries)
      [] code = 9 /\ n = 2 /\ rest[2].v = "String" ->
            Made("Field", <<rest[2].s>>, SubSeq(rest, 1, 1))
      [] code = 10 /\ n = 2 /\ rest[2].v = "Array" ->
            IF Len(rest[2].items) # 1 THEN Error
            ELSE Made("ProjectionByExpr", <<>>, <<rest[1], rest[2].items[1]>>)
      [] code = 10 /\ n >= 1 /\ AllStrings(Tail(rest)) ->
            Made("Projection",
                 SelectSeq(LabelOrder, LAMBDA l : Contains(Texts(Tail(rest)), l)),
                 SubSeq(rest, 1, 1))
      [] OTHER -> Error
(* Tags 15 and up: literals, imports, let and with.                         *)
decode_array_literals(code, rest) ==
    LET n == Len(rest) IN
    CASE code = 15 /\ n = 1 /\ rest[1].v \in {"U64", "Big"} ->
            IF rest[1].n < 0 THEN Error ELSE Natural(rest[1].n)
      [] code = 16 /\ n = 1 /\ rest[1].v \in {"U64", "I64", "Big"} ->
            Integer(rest[1].n)
      [] code = 18 /\ n >= 1 /\ rest[1].v = "String" ->
            decode_text(rest[1].s, Tail(rest))
      [] code = 24 /\ n >= 3 /\ rest[2].v = "U64" /\ rest[3].v = "U64" ->
            decode_import(rest[1], rest[2].n, rest[3].n, From(rest, 4))
      [] code = 25 -> decode_let(rest)
      [] code = 28 /\ n = 1 -> Made("EmptyListLit", <<>>, rest)
      [] code = 29 /\ n = 3 /\ rest[2].v = "Array" ->
            IF AllStrings(rest[2].items)
            THEN Made("With", Texts(rest[2].items), <<rest[1], rest[3]>>)
            ELSE Error
      [] OTHER -> Error
decode_array(vals) ==
    IF vals = <<>> THEN Error
    ELSE IF vals[1].v # "U64"
    THEN IF Len(vals) = 2 /\ vals[1].v = "String" /\ vals[2].v = "U64"
            /\ vals[1].s # "_"
         THEN Var(vals[1].s, vals[2].n) ELSE Error
    ELSE LET code == vals[1].n IN
         CASE code = 0 -> decode_application(Tail(vals))
           [] code = 1 -> decode_binder("Lam", Tail(vals))
           [] code = 2 -> decode_binder("Pi", Tail(vals))
           [] code \in 3 .. 5 -> decode_array_operators(code, Tail(vals))
           [] \E k \in PlainKind(code) : Len(vals) \in PlainLengths[k] ->
                Made(CHOOSE k \in PlainKind(code) : TRUE, <<>>, Tail(vals))
           [] code \in 7 .. 11 -> decode_array_rest(code, Tail(vals))
           [] code \in {15, 16, 18, 24, 25, 28, 29} ->
                decode_array_literals(code, Tail(vals))
           [] OTHER -> Error

cbor_value_to_dhall(val) ==
    CASE val.v = "String" ->
            CASE val.s \in BuiltinNames -> Builtin(val.s)
              [] val.s \in {"True", "False"} -> Bool(val.s)
              [] val.s \in {"Type", "Kind", "Sort"} -> Const(val.s)
              [] OTHER -> Error
      [] val.v = "U64" -> Var("_", val.n)
      [] val.v = "F64" -> Double(val.d)
      [] val.v = "Bool" -> Bool(val.s)
      [] val.v = "Array" -> decode_array(val.items)
      [] OTHER -> Error

(* What follows the first value is not looked at.                           *)
decode(file) == LET got == Read(file) IN
    IF got = Error THEN Error ELSE cbor_value_to_dhall(got.value)
=============================================================================
