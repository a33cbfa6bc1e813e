-------------------------------- MODULE Syntax --------------------------------
(***************************************************************************)
(* Expressions (dhall/src/syntax/ast/expr.rs, operations/kind.rs).         *)
(*                                                                         *)
(* Every node is a record of a kind k, its labels, its number and its      *)
(* subexpressions, so that a traversal is written once.  What is optional  *)
(* in a node is a shorter list of labels or subexpressions.  A label, a    *)
(* text and a path component are atoms.  Records, unions and projections   *)
(* list their labels in the order of BTreeMap.                             *)
(***************************************************************************)
EXTENDS Integers, Sequences, SequencesExt

E(k, lab, sub) == [k |-> k, lab |-> lab, n |-> 0, sub |-> sub]
Numbered(k, lab, n) == [E(k, lab, <<>>) EXCEPT !.n = n]

Const(c) == E("Const", <<c>>, <<>>)
Builtin(b) == E("Builtin", <<b>>, <<>>)
Bool(b) == E("Bool", <<b>>, <<>>)
Natural(n) == Numbered("Natural", <<>>, n)
Integer(n) == Numbered("Integer", <<>>, n)
Double(d) == E("Double", <<d>>, <<>>)
TextLit(texts, exprs) == E("TextLit", texts, exprs)
SomeLit(x) == E("SomeLit", <<>>, <<x>>)
EmptyListLit(t) == E("EmptyListLit", <<>>, <<t>>)
NEListLit(xs) == E("NEListLit", <<>>, xs)
RecordType(ls, ts) == E("RecordType", ls, ts)
RecordLit(ls, xs) == E("RecordLit", ls, xs)
UnionType(ls, ts) == E("UnionType", ls, ts)
(* An alternative of a union that has no payload.                           *)
NoPayload == E("NoPayload", <<>>, <<>>)
Var(x, n) == Numbered("Var", <<x>>, n)
Lam(x, t, b) == E("Lam", <<x>>, <<t, b>>)
Pi(x, t, b) == E("Pi", <<x>>, <<t, b>>)
Let(x, v, b) == E("Let", <<x>>, <<v, b>>)
LetTyped(x, t, v, b) == E("Let", <<x>>, <<t, v, b>>)
App(f, a) == E("App", <<>>, <<f, a>>)
BinOp(op, x, y) == E("BinOp", <<op>>, <<x, y>>)
BoolIf(x, y, z) == E("BoolIf", <<>>, <<x, y, z>>)
Merge(x, y) == E("Merge", <<>>, <<x, y>>)
MergeTyped(x, y, t) == E("Merge", <<>>, <<x, y, t>>)
ToMap(x) == E("ToMap", <<>>, <<x>>)
ToMapTyped(x, t) == E("ToMap", <<>>, <<x, t>>)
Field(x, l) == E("Field", <<l>>, <<x>>)
Projection(x, ls) == E("Projection", ls, <<x>>)
ProjectionByExpr(x, t) == E("ProjectionByExpr", <<>>, <<x, t>>)
Completion(x, y) == E("Completion", <<>>, <<x, y>>)
With(x, path, y) == E("With", path, <<x, y>>)
Annot(x, t) == E("Annot", <<>>, <<x, t>>)
Assertion(t) == E("Assert", <<>>, <<t>>)

(* The labels of a node are the path of the import, its subexpressions the  *)
(* headers; hash, authority and query are lists of at most one.             *)
Import(mode, scheme, hash, authority, path, query, headers) ==
    [k |-> "Import", lab |-> path, n |-> 0, sub |-> headers,
     at |-> [mode |-> mode, scheme |-> scheme, hash |-> hash,
             authority |-> authority, query |-> query]]
=============================================================================
