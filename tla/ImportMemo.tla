------------------------------ MODULE ImportMemo ------------------------------
(***************************************************************************)
(* What the resolver promises about locations, without frames, documents,  *)
(* errors or the disk: a depth-first walk that visits one location inside  *)
(* another, gives each location a value at most once, and never walks into *)
(* a location it is visiting or has finished.  A visit may be abandoned;   *)
(* the location may then be visited again.                                 *)
(***************************************************************************)
EXTENDS Naturals, Sequences

CONSTANTS Location, Value

VARIABLES
    path,   \* the locations being visited, outermost first
    value   \* the value of each finished location

memoVars == <<path, value>>

OnPath(l) == \E i \in DOMAIN path : path[i] = l
Unvisited(l) == ~OnPath(l) /\ l \notin DOMAIN value
With(l, v) == [x \in (DOMAIN value) \cup {l} |-> IF x = l THEN v ELSE value[x]]
Left == SubSeq(path, 1, Len(path) - 1)

MemoInit == path = <<>> /\ value = <<>>

Enter(l) == Unvisited(l) /\ path' = Append(path, l) /\ UNCHANGED value
Finish(v) ==
    /\ path # <<>>
    /\ path' = Left
    /\ value' = With(path[Len(path)], v)
Abandon == path # <<>> /\ path' = Left /\ UNCHANGED value
(* A visit that needs no other location.                                    *)
Visit(l) ==
    /\ UNCHANGED path
    /\ Unvisited(l)
    /\ l \in DOMAIN value'
    /\ \E v \in Value : value' = With(l, v)

MemoNext ==
    \/ \E l \in Location : Enter(l) \/ Visit(l)
    \/ \E v \in Value : Finish(v)
    \/ Abandon

MemoSpec == MemoInit /\ [][MemoNext]_memoVars
=============================================================================
