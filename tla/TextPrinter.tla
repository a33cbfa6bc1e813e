----------------------------- MODULE TextPrinter -----------------------------
(***************************************************************************)
(* Expressions as text (dhall/src/syntax/text/printer.rs).                 *)
(*                                                                         *)
(* A text is a sequence of tokens: words, symbols (in one spelling each),  *)
(* blanks, numbers, and the characters of quoted texts.  A word is a token *)
(* of its own wherever one ends in front of a symbol, except in a path,    *)
(* which takes symbols too.                                                *)
(***************************************************************************)
EXTENDS Syntax, TLC

CONSTANTS
    BuiltinWords,   \* the names of builtins
    OddLabels,      \* labels with characters beyond letters, digits and _
    PathWords       \* what only a path takes as a word

(***************************************************************************)
(* Phases, in the order of PrintPhase.                                     *)
(***************************************************************************)
BinOps == <<"Equivalence", "ImportAlt", "BoolOr", "NaturalPlus", "TextAppend", "ListAppend",
            "BoolAnd", "RecursiveRecordMerge", "RightBiasedRecordMerge",
            "RecursiveRecordTypeMerge", "NaturalTimes", "BoolEQ", "BoolNE">>
OpSymbols == <<"===", "?", "||", "+", "++", "#", "&&", "combine", "prefer", "combine_types",
               "*", "==", "!=">>
PositionIn(seq, x) == CHOOSE i \in DOMAIN seq : seq[i] = x
BinOpSymbol(o) == OpSymbols[PositionIn(BinOps, o)]

Base == 0
Operator == 1
BinOpPhase(o) == Operator + PositionIn(BinOps, o)
AppPhase == Operator + Len(BinOps) + 1
ImportPhase == AppPhase + 1
Primitive == ImportPhase + 1

(* The phase of the i-th part of e.                                         *)
PhaseOf(e, i) ==
    CASE e.k = "Pi" /\ e.lab = <<"_">> /\ i = 1 -> Operator
      [] e.k = "Annot" /\ i = 1 -> Operator
      [] e.k = "Merge" -> IF i = 3 THEN AppPhase ELSE ImportPhase
      [] e.k = "ToMap" -> IF i = 2 THEN AppPhase ELSE ImportPhase
      [] e.k = "App" -> IF i = 1 THEN AppPhase ELSE ImportPhase
      [] e.k = "BinOp" -> BinOpPhase(e.lab[1])
      [] e.k \in {"SomeLit", "Import"} -> ImportPhase
      [] e.k \in {"Field", "Projection", "Completion"} -> Primitive
      [] e.k = "ProjectionByExpr" /\ i = 1 -> Primitive
      [] OTHER -> Base
(* The last phase at which e goes without parentheses.                      *)
LastPhase(e) ==
    CASE e.k \in {"Lam", "Pi", "Let", "SomeLit", "EmptyListLit", "BoolIf", "Merge", "ToMap",
                  "Annot"} -> Base
      [] e.k = "BinOp" -> BinOpPhase(e.lab[1])
      [] e.k = "App" -> AppPhase
      [] e.k = "Completion" -> ImportPhase
      [] OTHER -> Primitive
(* Mutant: parentheses start one phase late.                                *)
needs_paren_OneLate(e, phase) == phase > LastPhase(e) + 1
needs_paren(e, phase) == phase > LastPhase(e)

(***************************************************************************)
(* Parts.                                                                  *)
(***************************************************************************)
Reserved == {"let", "in", "if", "then", "else", "Type", "Kind", "Sort", "True", "False", "Some"}
fmt_label(l) ==
    IF l = "" \/ l \in OddLabels \cup Reserved \cup BuiltinWords THEN <<"tick", l, "tick">> ELSE <<l>>
Between(sep, parts) ==
    FlattenSeq([i \in DOMAIN parts |-> IF i = 1 THEN parts[i] ELSE sep \o parts[i]])
fmt_list(open, sep, close, parts) == open \o Between(sep, parts) \o close
Entries(e, parts, sign) ==
    [i \in DOMAIN e.lab |-> fmt_label(e.lab[i]) \o
        IF e.sub[i] = NoPayload THEN <<>> ELSE sign \o <<" ">> \o parts[i]]

(* Characters that are escaped have names.                                  *)
Escapes == [c \in {"backslash", "quote", "newline"} |-> c] @@ "dollar" :> "u0024"
fmt_char(c) ==
    IF c \in DOMAIN Escapes THEN <<"backslash", Escapes[c]>> ELSE <<c>>
fmt_text(e, parts) ==
    <<"quote">> \o FlattenSeq([i \in DOMAIN e.lab |->
        FlattenSeq([j \in DOMAIN e.lab[i] |-> fmt_char(e.lab[i][j])]) \o
        IF i = Len(e.lab) THEN <<>> ELSE <<"${", " ">> \o parts[i] \o <<" ", "}">>]) \o <<"quote">>

fmt_number(n) == <<ToString(n)>>
fmt_integer(n) == IF n >= 0 THEN <<"+", ToString(n)>> ELSE <<"-", ToString(-n)>>

LocalPrefixes == [Here |-> <<".">>, Parent |-> <<"..">>, Home |-> <<"~">>, Absolute |-> <<>>]
Unquoted(c) == IF c = "" THEN <<>> ELSE <<c>>
Quoted(c) == IF c \in OddLabels \cup PathWords THEN <<"quote", c, "quote">> ELSE Unquoted(c)
fmt_target(e, headers) ==
    CASE e.at.scheme \in DOMAIN LocalPrefixes ->
            LocalPrefixes[e.at.scheme] \o <<"/">>
            \o Between(<<"/">>, [i \in DOMAIN e.lab |-> Quoted(e.lab[i])])
      [] e.at.scheme \in {"HTTP", "HTTPS"} ->
            <<IF e.at.scheme = "HTTP" THEN "http" ELSE "https", "://", e.at.authority[1], "/">>
            \o Between(<<"/">>, [i \in DOMAIN e.lab |-> Unquoted(e.lab[i])])
            \o FlattenSeq([i \in DOMAIN e.at.query |-> <<"?", e.at.query[i]>>])
            \o FlattenSeq([i \in DOMAIN e.sub |-> <<" ", "using", " ">> \o headers[i]])
      [] e.at.scheme = "Env" -> <<"env:">> \o Quoted(e.lab[1])
      [] e.at.scheme = "Missing" -> <<"missing">>
fmt_import(e, headers) ==
    fmt_target(e, headers)
    \o FlattenSeq([i \in DOMAIN e.at.hash |-> <<" ", e.at.hash[i]>>])
    \o CASE e.at.mode = "Code" -> <<>>
         [] e.at.mode = "RawText" -> <<" ", "as", " ", "Text">>
         [] e.at.mode = "Location" -> <<" ", "as", " ", "Location">>

(***************************************************************************)
(* Expressions.  p holds the texts of the parts.                           *)
(***************************************************************************)
Typed(part) == <<" ", ":", " ">> \o part
fmt_operation(e, p) ==
    CASE e.k = "App" -> p[1] \o <<" ">> \o p[2]
      [] e.k = "BinOp" -> p[1] \o <<" ", BinOpSymbol(e.lab[1]), " ">> \o p[2]
      [] e.k = "BoolIf" -> <<"if", " ">> \o p[1] \o <<" ", "then", " ">> \o p[2]
                           \o <<" ", "else", " ">> \o p[3]
      [] e.k = "Merge" -> <<"merge", " ">> \o p[1] \o <<" ">> \o p[2]
                          \o IF Len(p) = 3 THEN Typed(p[3]) ELSE <<>>
      [] e.k = "ToMap" -> <<"toMap", " ">> \o p[1] \o IF Len(p) = 2 THEN Typed(p[2]) ELSE <<>>
      [] e.k = "Field" -> p[1] \o <<".">> \o fmt_label(e.lab[1])
      [] e.k = "Projection" ->
            p[1] \o <<".">> \o fmt_list(<<"{", " ">>, <<",", " ">>, <<" ", "}">>,
                                        [i \in DOMAIN e.lab |-> fmt_label(e.lab[i])])
      [] e.k = "ProjectionByExpr" -> p[1] \o <<".", "(">> \o p[2] \o <<")">>
      [] e.k = "Completion" -> p[1] \o <<"::">> \o p[2]
      [] e.k = "With" ->
            p[1] \o <<" ", "with", " ">> \o Between(<<".">>, [i \in DOMAIN e.lab |-> <<e.lab[i]>>])
            \o <<" ", "=", " ">> \o p[2]
Binder(e, part) == <<"(">> \o fmt_label(e.lab[1]) \o Typed(part) \o <<")", " ", "->", " ">>
fmt_expr(e, p) ==
    CASE e.k = "Var" -> fmt_label(e.lab[1]) \o IF e.n = 0 THEN <<>> ELSE <<"@">> \o fmt_number(e.n)
      [] e.k = "Lam" -> <<"lambda">> \o Binder(e, p[1]) \o p[2]
      [] e.k = "Pi" -> IF e.lab[1] = "_" THEN p[1] \o <<" ", "->", " ">> \o p[2]
                       ELSE <<"forall">> \o Binder(e, p[1]) \o p[2]
      [] e.k = "Let" ->
            <<"let", " ">> \o fmt_label(e.lab[1]) \o (IF Len(p) = 3 THEN Typed(p[1]) ELSE <<>>)
            \o <<" ", "=", " ">> \o p[Len(p) - 1] \o <<" ", "in", " ">> \o p[Len(p)]
      [] e.k \in {"Const", "Builtin", "Bool", "Double"} -> e.lab
      [] e.k = "Natural" -> fmt_number(e.n)
      [] e.k = "Integer" -> fmt_integer(e.n)
      [] e.k = "TextLit" -> fmt_text(e, p)
      [] e.k = "SomeLit" -> <<"Some", " ">> \o p[1]
      [] e.k = "EmptyListLit" -> <<"[", "]">> \o Typed(p[1])
      [] e.k = "NEListLit" -> fmt_list(<<"[">>, <<",", " ">>, <<"]">>, p)
      [] e.k = "RecordLit" ->
            IF p = <<>> THEN <<"{", "=", "}">>
            ELSE fmt_list(<<"{", " ">>, <<",", " ">>, <<" ", "}">>, Entries(e, p, <<" ", "=">>))
      [] e.k = "RecordType" ->
            IF p = <<>> THEN <<"{", "}">>
            ELSE fmt_list(<<"{", " ">>, <<",", " ">>, <<" ", "}">>, Entries(e, p, <<" ", ":">>))
      [] e.k = "UnionType" ->
            fmt_list(<<"<", " ">>, <<" ", "|", " ">>, <<" ", ">">>, Entries(e, p, <<":">>))
      [] e.k = "Annot" -> p[1] \o Typed(p[2])
      [] e.k = "Assert" -> <<"assert">> \o Typed(p[1])
      [] e.k = "Import" -> fmt_import(e, p)
      [] OTHER -> fmt_operation(e, p)

RECURSIVE fmt_phase(_, _)
fmt_phase(e, phase) ==
    LET printed == fmt_expr(e, [i \in DOMAIN e.sub |->
                       IF e.sub[i] = NoPayload THEN <<>> ELSE fmt_phase(e.sub[i], PhaseOf(e, i))])
    IN  IF needs_paren(e, phase) THEN <<"(">> \o printed \o <<")">> ELSE printed
Printed(e) == fmt_phase(e, Base)
=============================================================================
