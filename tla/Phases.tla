-------------------------------- MODULE Phases --------------------------------
(***************************************************************************)
(* The life of an imported program (dhall/src/lib.rs, resolve.rs,          *)
(* cache.rs): it is typechecked, normalized, and its normal form is what   *)
(* the importing program gets.  A cache file is read back, resolved and    *)
(* typechecked again by the next run, if it has the digest it is filed     *)
(* under: that of the alpha-normal form, in which every binder is named _. *)
(* This code writes the normal form with its names, so that its file has   *)
(* the digest only when no binder has another name; other implementations, *)
(* which use the same directory, write the form the digest is of.          *)
(*                                                                         *)
(* A program is a closed function with the inputs it will be applied to.   *)
(* In the file that is read every binder is named _, so that resolving a   *)
(* variable leaves it as it is.  A digest is what it is of.                *)
(***************************************************************************)
EXTENDS Typing

CONSTANTS
    Programs,       \* records of a function and a set of sequences of inputs
    Width,          \* the bits of a machine integer in a binary file
    BuiltinNames    \* the names a binary file may hold

Binary == INSTANCE BinaryCodec

VARIABLES
    program,    \* the function and its inputs
    expr,       \* the function, as it was parsed or as it was read back
    stage,      \* "resolved", "typed", "refused" or "normalized"
    type,       \* the type of expr, once it is known
    normal,     \* the normal form of expr, once it is known
    file,       \* the cache file of the program's digest, or NoFile
    fetched     \* the type and the normal form that were cached, as a set
vars == <<program, expr, stage, type, normal, file, fetched>>

NoFile == <<>>

Init ==
    /\ program \in Programs
    /\ expr = program.function
    /\ stage = "resolved"
    /\ type = IllTyped
    /\ normal = Panic
    /\ file = NoFile
    /\ fetched = {}

Typecheck ==
    /\ stage = "resolved"
    /\ type' = typecheck(expr)
    /\ stage' = IF IsTyped(type') THEN "typed" ELSE "refused"
    /\ UNCHANGED <<program, expr, normal, file, fetched>>

Normalize ==
    /\ stage = "typed"
    /\ normal' = to_hir(Eval(<<>>, expr), 0)
    /\ stage' = "normalized"
    /\ UNCHANGED <<program, expr, type, file, fetched>>

(* A normal form with the names of its binders: a variable has the name of  *)
(* its binder and counts those of that name inside it.                      *)
label_var(names, i) ==
    LET binder == Len(names) - i IN
    Var(names[binder], Cardinality({j \in (binder + 1) .. Len(names) :
                                      names[j] = names[binder]}))
RECURSIVE to_expr(_, _)
to_expr(h, names) ==
    LET Inside(i) == IF h.k \in {"Lam", "Pi"} /\ i = 2
                     THEN Append(names, h.lab[1]) ELSE names
    IN  IF h.k = "Var" THEN label_var(names, h.n)
        ELSE [h EXCEPT !.sub = [i \in DOMAIN h.sub |-> to_expr(h.sub[i], Inside(i))]]

Write(data) ==
    /\ stage = "normalized" /\ fetched = {} /\ file = NoFile
    /\ file' = data
    /\ UNCHANGED <<program, expr, stage, type, normal, fetched>>
WriteToCache == Write(Binary!Encoded(to_expr(normal, <<>>)))
OthersWrite == Write(Binary!Encoded(alpha(normal)))

(* Another run starts, with the digest the program is imported under.       *)
StartAgain ==
    /\ stage = "normalized" /\ file # NoFile /\ fetched = {}
    /\ stage' = "resolved" /\ type' = IllTyped /\ normal' = Panic
    /\ UNCHANGED program
Verifies == file = Binary!Encoded(alpha(normal))

ReadFromCache ==
    /\ StartAgain /\ Verifies
    /\ fetched' = {[type |-> type, normal |-> normal]}
    /\ expr' = Binary!decode(file)
    /\ UNCHANGED file

(* A file without the digest is removed, and the program read afresh.       *)
ReadAfresh ==
    /\ StartAgain /\ ~Verifies
    /\ file' = NoFile /\ expr' = program.function
    /\ UNCHANGED fetched

Next ==
    \/ Typecheck \/ Normalize
    \/ WriteToCache \/ OthersWrite \/ ReadFromCache \/ ReadAfresh
Spec == Init /\ [][Next]_vars
=============================================================================
