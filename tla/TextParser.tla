------------------------------ MODULE TextParser ------------------------------
(***************************************************************************)
(* Text as expressions (dhall/src/syntax/text/parser.rs, dhall.abnf,       *)
(* build.rs).                                                              *)
(*                                                                         *)
(* The grammar is data: build.rs makes a parser of it that tries           *)
(* alternatives in order and never goes back on one that matched, and      *)
(* Match is that parser.  The rules that dhall.pest.visibility does not    *)
(* silence are nodes of the parse tree, which Consume makes expressions    *)
(* of, as the functions of parser.rs named like the rules do.              *)
(***************************************************************************)
EXTENDS TextPrinter

CONSTANTS
    PlainLabels,    \* labels that are words: letters, digits and _
    Literals,       \* Doubles, as tokens
    Hashes,         \* digests, as tokens
    Numbers,        \* the numbers that texts hold
    LabelOrder      \* all labels, in the order of BTreeMap

Error == E("Error", <<>>, <<>>)

(***************************************************************************)
(* Grammars.                                                               *)
(***************************************************************************)
Tok(s) == E("tok", <<s>>, <<>>)
(* A token that leaves a node.                                              *)
Mark(s) == E("mark", <<s>>, <<>>)
(* Any token of a class, as a node of that name.                            *)
Class(c) == E("class", <<c>>, <<>>)
Rule(r) == E("rule", <<r>>, <<>>)
Sq(items) == E("seq", <<>>, items)
Or(items) == E("or", <<>>, items)
Many(item) == E("many", <<>>, <<item>>)
Opt(item) == Or(<<item, Sq(<<>>)>>)
Not(item) == E("not", <<>>, <<item>>)
Many1(item) == Sq(<<item, Many(item)>>)
W == Many(Tok(" "))
W1 == Many1(Tok(" "))
Expression == Rule("expression")

Keywords == {"if", "then", "else", "let", "in", "using", "missing", "assert", "as", "Infinity",
             "NaN", "merge", "Some", "toMap", "forall", "with"}
Constants == {"True", "False", "Type", "Kind", "Sort"}
NumberTokens == [s \in {ToString(n) : n \in Numbers} |-> CHOOSE n \in Numbers : ToString(n) = s]
PathTokens ==
    PlainLabels \cup BuiltinWords \cup Constants \cup Keywords
    \cup DOMAIN NumberTokens \cup Literals
    \cup {".", "..", ":", "::", "=", "*", "+", "-", "++", "&&", "==", "===", "!=", "@", "~"}
QuotedWords ==
    PlainLabels \cup OddLabels \cup PathWords \cup BuiltinWords \cup Constants \cup Keywords
IsA(c, token) ==
    CASE c = "builtin" -> token \in BuiltinWords \cup Constants
      [] c = "simple_label" -> token \in PlainLabels \cup BuiltinWords \cup Constants
      [] c = "quoted_label" -> token \in QuotedWords \cup {""}
      [] c \in {"quoted_path_component", "posix_environment_variable"} -> token \in QuotedWords
      [] c = "bash_environment_variable" -> token \in PlainLabels \cup Constants \cup Keywords
      [] c = "authority" -> token \in PlainLabels
      [] c = "natural_literal" -> token \in DOMAIN NumberTokens
      [] c = "double_literal" -> token \in Literals
      [] c = "hash" -> token \in Hashes
      [] c = "path_character" -> token \in PathTokens \cup {"|", "||", "tick"}
      [] c = "pchar" -> token \in PathTokens
      [] c = "double_quote_char" -> token \notin {"quote", "backslash", "newline"}
      [] c = "single_quote_char" -> token # "''"
      [] c = "escaped" -> token \in Range(Escapes)

(* The operators of build.rs and their levels for the Pratt parser, loosest *)
(* first.                                                                   *)
PRATT == <<"===", "?", "||", "+", "++", "#", "&&", "combine", "prefer", "combine_types", "*",
           "==", "!=">>
OperatorToken(s) == IF s \in {"?", "+"} THEN Sq(<<Mark(s), W1>>) ELSE Mark(s)
AnyOperator ==
    Or(<<OperatorToken("===")>>
       \o [i \in 1 .. Len(PRATT) - 1 |-> OperatorToken(PRATT[Len(PRATT) + 1 - i])])

NonreservedLabel == Sq(<<Not(Class("builtin")), Rule("label")>>)
LabelOrSome == Rule("any_label_or_some")
Separated(item, sep) ==
    Sq(<<item, Many(Sq(<<W, Tok(sep), W, item>>)), Opt(Sq(<<W, Tok(sep)>>))>>)
Bound(head, tail) ==
    Sq(<<head, W, Tok("("), W, NonreservedLabel, W, Tok(":"), W1, Expression, W, Tok(")"), W,
         Mark("->"), W, tail>>)
ImportExpression == Or(<<Rule("import"), Rule("completion_expression")>>)
Interpolation == Sq(<<Tok("${"), W, Expression, W, Tok("}")>>)
Path == Many1(Sq(<<Tok("/"), Rule("path_component")>>))
(* Lists, records, unions: with a separator that may come first.            *)
Bracketed(open, sep, item, close) ==
    Sq(<<Tok(open), W, Opt(Sq(<<Tok(sep), W>>)), item, W, Tok(close)>>)

Grammar == [
    final_expression |-> Sq(<<W, Expression, W>>),
    expression |-> Or(<<
        Bound(Mark("lambda"), Expression),
        Sq(<<Mark("if"), W1, Expression, W, Tok("then"), W1, Expression, W, Tok("else"), W1,
             Expression>>),
        Sq(<<Many1(Rule("let_binding")), Tok("in"), W1, Expression>>),
        Bound(Mark("forall"), Expression),
        Sq(<<Rule("operator_expression"), W, Mark("->"), W, Expression>>),
        Rule("with_expression"),
        Sq(<<Mark("merge"), W1, ImportExpression, W1, ImportExpression, W, Tok(":"), W1,
             Rule("application_expression")>>),
        Rule("empty_list_literal"),
        Sq(<<Mark("toMap"), W1, ImportExpression, W, Tok(":"), W1,
             Rule("application_expression")>>),
        Sq(<<Mark("assert"), W, Tok(":"), W1, Expression>>),
        Sq(<<Rule("operator_expression"), Opt(Sq(<<W, Tok(":"), W1, Expression>>))>>)>>),
    let_binding |->
        Sq(<<Tok("let"), W1, NonreservedLabel, W, Opt(Sq(<<Tok(":"), W1, Expression, W>>)),
             Tok("="), W, Expression, W>>),
    empty_list_literal |->
        Sq(<<Tok("["), W, Opt(Sq(<<Tok(","), W>>)), Tok("]"), W, Tok(":"), W1,
             Rule("application_expression")>>),
    with_expression |->
        Sq(<<ImportExpression, Many1(Sq(<<W1, Tok("with"), W1, Rule("with_clause")>>))>>),
    with_clause |->
        Sq(<<LabelOrSome, Many(Sq(<<W, Tok("."), W, LabelOrSome>>)), W, Tok("="), W,
             Rule("operator_expression")>>),
    operator_expression |->
        Sq(<<Rule("application_expression"),
             Many(Sq(<<W, AnyOperator, W, Rule("application_expression")>>))>>),
    application_expression |->
        Sq(<<Rule("first_application_expression"), Many(Sq(<<W1, ImportExpression>>))>>),
    first_application_expression |-> Or(<<
        Sq(<<Mark("merge"), W1, ImportExpression, W1, ImportExpression>>),
        Sq(<<Mark("Some"), W1, ImportExpression>>),
        Sq(<<Mark("toMap"), W1, ImportExpression>>),
        ImportExpression>>),
    completion_expression |->
        Sq(<<Rule("selector_expression"),
             Opt(Sq(<<W, Tok("::"), W, Rule("selector_expression")>>))>>),
    selector_expression |->
        Sq(<<Rule("primitive_expression"), Many(Sq(<<W, Tok("."), W, Rule("selector")>>))>>),
    selector |->
        Or(<<Rule("label"), Rule("labels"), Sq(<<Tok("("), W, Expression, W, Tok(")")>>)>>),
    labels |->
        Bracketed("{", ",",
            Opt(Sq(<<LabelOrSome, W, Many(Sq(<<Tok(","), W, LabelOrSome, W>>)),
                     Opt(Sq(<<Tok(","), W>>))>>)), "}"),
    primitive_expression |-> Or(<<
        Class("double_literal"),
        Class("natural_literal"),
        Sq(<<Or(<<Mark("+"), Mark("-")>>), Class("natural_literal")>>),
        Rule("double_quote_literal"),
        Rule("single_quote_literal"),
        Bracketed("{", ",", Rule("record_type_or_literal"), "}"),
        Bracketed("<", "|", Rule("union_type"), ">"),
        Rule("non_empty_list_literal"),
        Rule("identifier"),
        Sq(<<Tok("("), W, Expression, W, Tok(")")>>)>>),
    record_type_or_literal |-> Or(<<
        Sq(<<Mark("="), Opt(Sq(<<W, Tok(",")>>))>>),
        Rule("non_empty_record_type"),
        Rule("non_empty_record_literal"),
        Sq(<<>>)>>),
    non_empty_record_type |-> Separated(Rule("record_type_entry"), ","),
    record_type_entry |-> Sq(<<LabelOrSome, W, Tok(":"), W1, Expression>>),
    non_empty_record_literal |-> Separated(Rule("record_literal_entry"), ","),
    record_literal_entry |->
        Sq(<<LabelOrSome, Opt(Sq(<<Many(Sq(<<W, Tok("."), W, LabelOrSome>>)), W, Tok("="), W,
                                   Expression>>))>>),
    union_type |-> Opt(Separated(Rule("union_type_entry"), "|")),
    union_type_entry |-> Sq(<<LabelOrSome, Opt(Sq(<<W, Tok(":"), W1, Expression>>))>>),
    non_empty_list_literal |->
        Bracketed("[", ",",
            Sq(<<Expression, W, Many(Sq(<<Tok(","), W, Expression, W>>)),
                 Opt(Sq(<<Tok(","), W>>))>>), "]"),
    identifier |-> Or(<<Rule("variable"), Class("builtin")>>),
    variable |->
        Sq(<<NonreservedLabel, Opt(Sq(<<W, Tok("@"), W, Class("natural_literal")>>))>>),
    label |->
        Or(<<Sq(<<Tok("tick"), Class("quoted_label"), Tok("tick")>>), Class("simple_label")>>),
    any_label_or_some |-> Or(<<Rule("label"), Mark("Some")>>),
    double_quote_literal |->
        Sq(<<Tok("quote"),
             Many(Or(<<Interpolation, Sq(<<Tok("backslash"), Class("escaped")>>),
                       Class("double_quote_char")>>)),
             Tok("quote")>>),
    single_quote_literal |->
        Sq(<<Tok("''"), Tok("newline"),
             Many(Or(<<Interpolation, Mark("'''"), Mark("''${"), Class("single_quote_char")>>)),
             Tok("''")>>),
    path_component |-> Or(<<
        Many1(Class("path_character")),
        Sq(<<Tok("quote"), Class("quoted_path_component"), Tok("quote")>>)>>),
    segment |-> Many(Class("pchar")),
    import |->
        Sq(<<Rule("import_hashed"),
             Opt(Sq(<<W, Tok("as"), W1, Or(<<Mark("Text"), Mark("Location")>>)>>))>>),
    import_hashed |->
        Sq(<<Or(<<Rule("missing"), Rule("local"), Rule("http"), Rule("env")>>),
             Opt(Sq(<<W1, Class("hash")>>))>>),
    missing |-> Tok("missing"),
    local |-> Or(<<Sq(<<Mark(".."), Path>>), Sq(<<Mark("."), Path>>), Sq(<<Mark("~"), Path>>),
                   Path>>),
    http |-> Sq(<<Rule("http_raw"), Opt(Sq(<<W, Tok("using"), W1, ImportExpression>>))>>),
    http_raw |->
        Sq(<<Or(<<Mark("http"), Mark("https")>>), Tok("://"), Class("authority"),
             Many(Sq(<<Tok("/"), Rule("segment")>>)),
             Opt(Sq(<<Tok("?"), Class("pchar")>>))>>),
    env |->
        Sq(<<Tok("env:"),
             Or(<<Class("bash_environment_variable"),
                  Sq(<<Tok("quote"), Class("posix_environment_variable"), Tok("quote")>>)>>)>>)]

(* The operators as the standard has them: a rule for each level, loosest   *)
(* first, each a chain of the next.                                         *)
LevelTokens == <<"===", "?", "||", "+", "++", "#", "&&", "combine", "prefer", "combine_types",
                 "*", "==", "!=">>
StandardGrammar ==
    [Grammar EXCEPT !["operator_expression"] = Rule("equivalent_expression")]
    @@ "equivalent_expression" :> Grammar["operator_expression"]

(***************************************************************************)
(* Nodes to expressions.                                                   *)
(***************************************************************************)
Name(node) == node.lab[1]
Names(nodes) == [i \in DOMAIN nodes |-> Name(nodes[i])]
LabelsOf(nodes) == SelectSeq(nodes, LAMBDA n : n.k = "label")
Label(s) == E("label", <<s>>, <<>>)
After(seq, i) == SubSeq(seq, i + 1, Len(seq))

(* Maps: the value at each label, in the order of BTreeMap.                 *)
FromMap(kind, map) ==
    LET ls == SelectSeq(LabelOrder, LAMBDA l : l \in DOMAIN map)
    IN  E(kind, ls, [i \in DOMAIN ls |-> map[ls[i]]])
EmptyMap == [l \in {} |-> Error]
Put(map, l, e) == (l :> e) @@ map
insert_recordlit_entry(map, l, e) ==
    Put(map, l, IF l \in DOMAIN map THEN BinOp("RecursiveRecordMerge", map[l], e) ELSE e)
Distinct(kind, entries) ==
    IF \E i, j \in DOMAIN entries : i # j /\ Name(entries[i]) = Name(entries[j]) THEN Error
    ELSE FromMap(kind, FoldLeft(LAMBDA map, n : Put(map, Name(n), Head(n.sub)), EmptyMap, entries))
record_literal(entries) ==
    FromMap("RecordLit",
        FoldLeft(LAMBDA map, n : insert_recordlit_entry(map, Name(n), n.sub[1]), EmptyMap, entries))
(* A field alone stands for the variable; dotted fields are nested records. *)
record_literal_entry(nodes) ==
    LET ls == Names(LabelsOf(nodes))
        e == IF Len(ls) = Len(nodes) THEN Var(ls[1], 0) ELSE Last(nodes)
    IN  E("entry", <<ls[1]>>,
          <<FoldRight(LAMBDA l, x : RecordLit(<<l>>, <<x>>), After(ls, 1), e)>>)

(* Texts are sequences of characters.                                       *)
Unescaped(s) == CHOOSE c \in DOMAIN Escapes : Escapes[c] = s
IsChar(n) == n.k \in {"double_quote_char", "single_quote_char", "escaped", "'''", "''${"}
Characters(n) ==
    CASE n.k = "escaped" -> <<Unescaped(Name(n))>>
      [] n.k = "'''" -> <<"'", "'">>
      [] n.k = "''${" -> <<"dollar", "{">>
      [] n.lab = <<"${">> -> <<"dollar", "{">>
      [] OTHER -> n.lab
AddChunk(text, n) ==
    IF IsChar(n) THEN [text EXCEPT !.lab[Len(text.lab)] = @ \o Characters(n)]
    ELSE [text EXCEPT !.lab = Append(@, <<>>), !.sub = Append(@, n)]
text_literal(chunks) == FoldLeft(AddChunk, TextLit(<< <<>> >>, <<>>), chunks)

(* Lines are texts; head is the part in front of an interpolation.          *)
Lines(chunks) ==
    FoldLeft(LAMBDA lines, n :
                IF n.k = "single_quote_char" /\ Name(n) = "newline"
                THEN Append(lines, TextLit(<< <<>> >>, <<>>))
                ELSE [lines EXCEPT ![Len(lines)] = AddChunk(@, n)],
             <<TextLit(<< <<>> >>, <<>>)>>, chunks)
Blank(c) == c \in {" ", "tab"}
IsEmptyLine(line) == line.lab = << <<>> >>
Common(s, t) ==
    CHOOSE n \in 0 .. Len(s) :
        /\ n <= Len(t) /\ SubSeq(s, 1, n) = SubSeq(t, 1, n)
        /\ \A m \in n + 1 .. Len(s) : m > Len(t) \/ SubSeq(s, 1, m) # SubSeq(t, 1, m)
LeadingBlanks(s) ==
    CHOOSE n \in 0 .. Len(s) :
        /\ \A i \in 1 .. n : Blank(s[i])
        /\ n = Len(s) \/ ~Blank(s[n + 1])
trim_indent(lines) ==
    LET last == Head(Last(lines).lab)
        indent == FoldLeft(LAMBDA n, line :
                      IF IsEmptyLine(line) THEN n ELSE Common(SubSeq(last, 1, n), Head(line.lab)),
                      LeadingBlanks(last), lines)
    IN  [i \in DOMAIN lines |->
            IF IsEmptyLine(lines[i]) THEN lines[i] ELSE [lines[i] EXCEPT !.lab[1] = After(@, indent)]]
JoinText(x, y) ==
    TextLit(SubSeq(x.lab, 1, Len(x.lab) - 1) \o <<Last(x.lab) \o <<"newline">> \o y.lab[1]>>
                \o After(y.lab, 1),
            x.sub \o y.sub)
single_quote_literal(chunks) ==
    LET lines == trim_indent(Lines(chunks)) IN FoldLeft(JoinText, lines[1], After(lines, 1))

(* Left-associative operators, by precedence climbing: the nodes are        *)
(* operators and operands in turn.                                          *)
(* Mutant: == and != are of one level.                                      *)
Precedence_OneEquality(op) == PositionIn(PRATT, IF op.k = "!=" THEN "==" ELSE op.k)
Precedence(op) == PositionIn(PRATT, op.k)
binop_of_rule(op) == BinOps[PositionIn(OpSymbols, op.k)]
RECURSIVE Climb(_, _, _)
Climb(left, nodes, level) ==
    IF nodes = <<>> \/ Precedence(nodes[1]) <= level THEN [e |-> left, rest |-> nodes]
    ELSE LET right == Climb(nodes[2], After(nodes, 2), Precedence(nodes[1]))
         IN  Climb(BinOp(binop_of_rule(nodes[1]), left, right.e), right.rest, level)
operator_expression(nodes) == Climb(nodes[1], After(nodes, 1), 0).e
RECURSIVE Layered(_, _)
Layered(nodes, i) ==
    LET ops == {p \in DOMAIN nodes : p % 2 = 0 /\ nodes[p].k = LevelTokens[i]}
    IN  CASE Len(nodes) = 1 -> nodes[1]
          [] Len(nodes) # 1 /\ ops = {} -> Layered(nodes, i + 1)
          [] ops # {} -> LET p == Max(ops)
                         IN  BinOp(binop_of_rule(nodes[p]), Layered(SubSeq(nodes, 1, p - 1), i),
                                   Layered(After(nodes, p), i + 1))

expression(nodes) ==
    LET k == nodes[1].k IN
    CASE k = "lambda" -> Lam(Name(nodes[2]), nodes[3], nodes[5])
      [] k = "if" -> BoolIf(nodes[2], nodes[3], nodes[4])
      [] k = "let_binding" ->
            FoldRight(LAMBDA b, e : E("Let", b.lab, Append(b.sub, e)),
                      SubSeq(nodes, 1, Len(nodes) - 1), Last(nodes))
      [] k = "forall" -> Pi(Name(nodes[2]), nodes[3], nodes[5])
      [] k = "merge" -> MergeTyped(nodes[2], nodes[3], nodes[4])
      [] k = "assert" -> Assertion(nodes[2])
      [] k = "toMap" -> ToMapTyped(nodes[2], nodes[3])
      [] Len(nodes) = 3 /\ nodes[2].k = "->" -> Pi("_", nodes[1], nodes[3])
      [] Len(nodes) = 2 /\ k \notin {"assert", "let_binding"} -> Annot(nodes[1], nodes[2])
      [] OTHER -> nodes[1]
first_application_expression(nodes) ==
    CASE nodes[1].k = "Some" -> SomeLit(nodes[2])
      [] nodes[1].k = "merge" -> Merge(nodes[2], nodes[3])
      [] nodes[1].k = "toMap" -> ToMap(nodes[2])
      [] OTHER -> nodes[1]
selector(node) ==
    CASE node.k = "label" -> E("Field", node.lab, <<>>)
      [] node.k = "labels" -> E("Projection", node.lab, <<>>)
      [] OTHER -> E("ProjectionByExpr", <<>>, <<node>>)
labels(nodes) ==
    IF IsInjective(Names(nodes))
    THEN E("labels", SelectSeq(LabelOrder, LAMBDA l : l \in Range(Names(nodes))), <<>>)
    ELSE Error
primitive_expression(nodes) ==
    CASE nodes[1].k = "double_literal" -> Double(Name(nodes[1]))
      [] nodes[1].k = "natural_literal" -> Natural(NumberTokens[Name(nodes[1])])
      [] nodes[1].k = "+" -> Integer(NumberTokens[Name(nodes[2])])
      [] nodes[1].k = "-" -> Integer(-NumberTokens[Name(nodes[2])])
      [] OTHER -> nodes[1]
builtin(node) ==
    CASE node.k # "builtin" -> node
      [] Name(node) \in {"True", "False"} -> Bool(Name(node))
      [] Name(node) \in {"Type", "Kind", "Sort"} -> Const(Name(node))
      [] OTHER -> Builtin(Name(node))
record_type_or_literal(nodes) ==
    IF nodes = <<>> THEN RecordType(<<>>, <<>>)
    ELSE IF nodes[1].k = "=" THEN RecordLit(<<>>, <<>>) ELSE nodes[1]
Concatenated(nodes) == Label(FoldLeft(LAMBDA s, n : s \o Name(n), "", nodes))
Target(scheme, path) == Import("Code", scheme, <<>>, <<>>, path, <<>>, <<>>)
local(nodes) ==
    LET path(ns) == Names(ns) IN
    CASE nodes[1].k = "." -> Target("Here", path(After(nodes, 1)))
      [] nodes[1].k = ".." -> Target("Parent", path(After(nodes, 1)))
      [] nodes[1].k = "~" -> Target("Home", path(After(nodes, 1)))
      [] OTHER -> Target("Absolute", path(nodes))
(* An empty path is the path /.                                             *)
http_raw(nodes) ==
    LET segments == Names(LabelsOf(nodes))
    IN  Import("Code", IF nodes[1].k = "http" THEN "HTTP" ELSE "HTTPS", <<>>, <<Name(nodes[2])>>,
               IF segments = <<>> THEN <<"">> ELSE segments,
               Names(SelectSeq(nodes, LAMBDA n : n.k = "pchar")), <<>>)
import_mode(node) == IF node.k = "Text" THEN "RawText" ELSE "Location"

(* What a node becomes.                                                     *)
ConsumedImport(rule, nodes) ==
    CASE rule \in {"path_component", "segment"} -> Concatenated(nodes)
      [] rule = "import" ->
            IF Len(nodes) = 1 THEN nodes[1] ELSE [nodes[1] EXCEPT !.at.mode = import_mode(nodes[2])]
      [] rule = "import_hashed" ->
            IF Len(nodes) = 1 THEN nodes[1] ELSE [nodes[1] EXCEPT !.at.hash = nodes[2].lab]
      [] rule = "missing" -> Target("Missing", <<>>)
      [] rule = "local" -> local(nodes)
      [] rule = "http" -> [nodes[1] EXCEPT !.sub = After(nodes, 1)]
      [] rule = "http_raw" -> http_raw(nodes)
      [] rule = "env" -> Target("Env", nodes[1].lab)
ConsumedWord(rule, nodes) ==
    CASE rule = "identifier" -> builtin(nodes[1])
      [] rule = "variable" ->
            Var(Name(nodes[1]), IF Len(nodes) = 2 THEN NumberTokens[Name(nodes[2])] ELSE 0)
      [] rule = "label" -> Label(Name(nodes[1]))
      [] rule = "any_label_or_some" ->
            IF nodes[1].k = "Some" THEN Label("Some") ELSE nodes[1]
      [] rule = "double_quote_literal" -> text_literal(nodes)
      [] rule = "single_quote_literal" -> single_quote_literal(nodes)
      [] OTHER -> ConsumedImport(rule, nodes)
ConsumedPrimitive(rule, nodes) ==
    CASE rule = "selector" -> selector(nodes[1])
      [] rule = "labels" -> labels(nodes)
      [] rule = "primitive_expression" -> primitive_expression(nodes)
      [] rule = "record_type_or_literal" -> record_type_or_literal(nodes)
      [] rule = "non_empty_record_type" -> Distinct("RecordType", nodes)
      [] rule \in {"record_type_entry", "union_type_entry"} ->
            E("entry", nodes[1].lab, IF Len(nodes) = 2 THEN <<nodes[2]>> ELSE <<NoPayload>>)
      [] rule = "non_empty_record_literal" -> record_literal(nodes)
      [] rule = "record_literal_entry" -> record_literal_entry(nodes)
      [] rule = "union_type" -> Distinct("UnionType", nodes)
      [] rule = "non_empty_list_literal" -> NEListLit(nodes)
      [] OTHER -> ConsumedWord(rule, nodes)
Consumed(rule, nodes) ==
    CASE rule = "final_expression" -> nodes[1]
      [] rule = "expression" -> expression(nodes)
      [] rule = "let_binding" -> E("let_binding", nodes[1].lab, After(nodes, 1))
      [] rule = "empty_list_literal" -> EmptyListLit(nodes[1])
      [] rule = "with_expression" ->
            FoldLeft(LAMBDA e, c : With(e, c.lab, c.sub[1]), nodes[1], After(nodes, 1))
      [] rule = "with_clause" -> E("with_clause", Names(LabelsOf(nodes)), <<Last(nodes)>>)
      [] rule = "operator_expression" -> operator_expression(nodes)
      [] rule = "equivalent_expression" -> Layered(nodes, 1)
      [] rule = "application_expression" -> FoldLeft(App, nodes[1], After(nodes, 1))
      [] rule = "first_application_expression" -> first_application_expression(nodes)
      [] rule = "completion_expression" -> FoldLeft(Completion, nodes[1], After(nodes, 1))
      [] rule = "selector_expression" ->
            FoldLeft(LAMBDA e, s : E(s.k, s.lab, <<e>> \o s.sub), nodes[1], After(nodes, 1))
      [] OTHER -> ConsumedPrimitive(rule, nodes)

(***************************************************************************)
(* The parser.                                                             *)
(***************************************************************************)
(* The position after a match and its nodes; no position if there is none.  *)
Matched(at, nodes) == [at |-> at, nodes |-> nodes]
Unmatched == Matched(0, <<>>)
RECURSIVE Match(_, _, _, _), MatchAll(_, _, _, _), MatchFirst(_, _, _, _)
MatchAll(g, text, at, items) ==
    IF items = <<>> THEN Matched(at, <<>>)
    ELSE LET m == Match(g, text, at, Head(items))
             n == MatchAll(g, text, m.at, Tail(items))
         IN  IF m.at = 0 \/ n.at = 0 THEN Unmatched ELSE Matched(n.at, m.nodes \o n.nodes)
MatchFirst(g, text, at, items) ==
    IF items = <<>> THEN Unmatched
    ELSE LET m == Match(g, text, at, Head(items))
         IN  IF m.at # 0 THEN m ELSE MatchFirst(g, text, at, Tail(items))
Match(g, text, at, item) ==
    LET k == item.k IN
    CASE k \in {"tok", "mark", "class"} ->
            IF at > Len(text) THEN Unmatched
            ELSE IF ~(IF k = "class" THEN IsA(Name(item), text[at]) ELSE Name(item) = text[at])
            THEN Unmatched
            ELSE Matched(at + 1, CASE k = "tok" -> <<>>
                                   [] k = "mark" -> <<E(text[at], <<>>, <<>>)>>
                                   [] k = "class" -> <<E(Name(item), <<text[at]>>, <<>>)>>)
      [] k = "rule" ->
            LET m == Match(g, text, at, g[Name(item)])
            IN  IF m.at = 0 THEN m ELSE Matched(m.at, <<Consumed(Name(item), m.nodes)>>)
      [] k = "seq" -> MatchAll(g, text, at, item.sub)
      [] k = "or" -> MatchFirst(g, text, at, item.sub)
      [] k = "many" ->
            LET m == Match(g, text, at, item.sub[1])
                n == Match(g, text, m.at, item)
            IN  IF m.at = 0 THEN Matched(at, <<>>) ELSE Matched(n.at, m.nodes \o n.nodes)
      [] k = "not" ->
            IF Match(g, text, at, item.sub[1]).at = 0 THEN Matched(at, <<>>) ELSE Unmatched

(* An error anywhere in the tree is an error of the whole.                  *)
RECURSIVE HasError(_)
HasError(e) == e = Error \/ \E i \in DOMAIN e.sub : HasError(e.sub[i])
ParsedWith(g, text) ==
    LET m == Match(g, text, 1, Rule("final_expression"))
    IN  IF m.at # Len(text) + 1 THEN Error
        ELSE IF HasError(m.nodes[1]) THEN Error ELSE m.nodes[1]
parse_expr(text) == ParsedWith(Grammar, text)
=============================================================================
