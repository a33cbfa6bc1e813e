------------------------------- MODULE TextFiles -------------------------------
(***************************************************************************)
(* A text is parsed, and an expression is printed, which is what the       *)
(* deserializer of serde_dhall, its serializer, Display and the command    *)
(* line do with them (dhall/src/lib.rs, dhall/src/semantics/parse.rs).     *)
(***************************************************************************)
EXTENDS TextParser

CONSTANTS
    Texts,      \* what people write
    Exprs       \* what comes from elsewhere: a binary file, a normal form

VARIABLES
    text,       \* the text that was read or printed
    expr,       \* the expression that was parsed or is printed
    stage       \* "text", "refused", "expr" or "printed"
vars == <<text, expr, stage>>

Init ==
    \/ stage = "text" /\ text \in Texts /\ expr = Error
    \/ stage = "expr" /\ text = <<>> /\ expr \in Exprs

Parse ==
    /\ stage = "text"
    /\ expr' = parse_expr(text)
    /\ stage' = IF expr' = Error THEN "refused" ELSE "expr"
    /\ UNCHANGED text
Show ==
    /\ stage = "expr"
    /\ text' = Printed(expr)
    /\ stage' = "printed"
    /\ UNCHANGED expr

Next == Parse \/ Show
Spec == Init /\ [][Next]_vars

(***************************************************************************)
(* Properties.                                                             *)
(***************************************************************************)

(* Operators all associate, and are printed without the parentheses that    *)
(* only say how they are grouped.                                           *)
RECURSIVE Grouped(_), Operands(_, _)
Operands(op, e) ==
    IF e.k = "BinOp" /\ e.lab[1] = op THEN Operands(op, e.sub[1]) \o Operands(op, e.sub[2])
    ELSE <<Grouped(e)>>
Grouped(e) ==
    IF e.k = "BinOp"
    THEN LET es == Operands(e.lab[1], e)
         IN  FoldLeft(LAMBDA x, y : BinOp(e.lab[1], x, y), es[1], After(es, 1))
    ELSE [e EXCEPT !.sub = [i \in DOMAIN e.sub |-> Grouped(e.sub[i])]]

(* The places where the printer leaves out parentheses or quotes that the   *)
(* grammar wants: with, assert and an import as a part of another           *)
(* expression, the type of an empty list, the labels of a with, and labels  *)
(* that are keywords.                                                       *)
IsApplication(e) ==
    \/ e.k = "SomeLit"
    \/ e.k = "Merge" /\ Len(e.sub) = 2
    \/ e.k = "ToMap" /\ Len(e.sub) = 1
IsOpen(e, phase) ==
    \/ needs_paren(e, phase) /\ ~(phase <= AppPhase /\ IsApplication(e))
    \/ phase > Base /\ e.k \in {"With", "Assert"}
RECURSIVE IsPrintable(_)
IsPrintable(e) ==
    /\ e.k \notin {"TextLit", "Import", "Double"} => Range(e.lab) \cap (Keywords \ Reserved) = {}
    /\ \A i \in DOMAIN e.sub :
          /\ IsPrintable(e.sub[i])
          /\ e.sub[i].k \in {"With", "Assert"} => PhaseOf(e, i) = Base
          /\ e.sub[i].k = "Import" => PhaseOf(e, i) # Primitive /\ e.k # "Import"
    /\ e.k = "EmptyListLit" => ~IsOpen(e.sub[1], AppPhase)
    /\ e.k = "With" =>
          /\ e.sub[1].k = "With" \/ ~IsOpen(e.sub[1], ImportPhase)
          /\ ~IsOpen(e.sub[2], Operator)
          /\ \A i \in DOMAIN e.lab : fmt_label(e.lab[i]) = <<e.lab[i]>>

(* What is printed is parsed as the expression it was printed from, up to   *)
(* the grouping of one associative operator: the parentheses that the       *)
(* printer's phases give are the ones that the grammar and the precedences  *)
(* of the parser want.  This holds of expressions from elsewhere and of     *)
(* what people wrote, with all the abbreviations of the parser.             *)
PrintedTextReadsBack ==
    stage = "printed" /\ IsPrintable(expr) => Grouped(parse_expr(text)) = Grouped(expr)

(* Operators bind as they do in the grammar of the standard, which has a    *)
(* rule for each level: build.rs puts one rule in their place and the       *)
(* parser climbs a table of precedences.                                    *)
OperatorsBindAsInTheStandard ==
    stage = "text" => parse_expr(text) = ParsedWith(StandardGrammar, text)
=============================================================================
