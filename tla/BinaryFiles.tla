----------------------------- MODULE BinaryFiles -----------------------------
(***************************************************************************)
(* A file that an expression is written to, that is perhaps damaged, and   *)
(* read (dhall/src/semantics/resolve/cache.rs over dhall/src/syntax/       *)
(* binary/).                                                               *)
(***************************************************************************)
EXTENDS BinaryCodec

CONSTANTS
    Exprs,          \* the expressions that are written
    ForeignFiles    \* files that other implementations wrote

VARIABLES
    written,    \* the expression, or Error for a file that is foreign
    file,       \* what the file holds
    state       \* "clean", "short", "long", "changed", or "read"
vars == <<written, file, state>>

Init == \/ /\ written \in Exprs /\ file = Encoded(written)
           /\ state = "clean"
        \/ /\ written = Error /\ file \in ForeignFiles
           /\ state = "changed"

Shorten == /\ state = "clean"
           /\ \E i \in 0 .. Len(file) - 1 : file' = SubSeq(file, 1, i)
           /\ state' = "short" /\ UNCHANGED written
Lengthen == /\ state = "clean"
            /\ \E i \in DOMAIN file : file' = file \o From(file, i)
            /\ state' = "long" /\ UNCHANGED written

(* Heads that one head may be mistaken for.                                 *)
Variants(head) ==
    CASE head.t \in {"uint", "array", "map"} ->
            {[head EXCEPT !.n = n] : n \in {head.n - 1, head.n + 1} \cap U64}
      [] head.t = "str" -> {[head EXCEPT !.s = "_"], Null, U(1)}
      [] head.t = "null" -> {Str("x"), Array(1)}
      [] head.t = "tag" -> {[head EXCEPT !.n = 5 - @], Tag(SelfDescribed)}
      [] OTHER -> {Null, Array(0)}
Change == /\ state = "clean"
          /\ \E i \in DOMAIN file : \E head \in Variants(file[i]) :
                file' = [file EXCEPT ![i] = head]
          /\ state' = "changed" /\ UNCHANGED written

Next == Shorten \/ Lengthen \/ Change
Spec == Init /\ [][Next]_vars

(***************************************************************************)
(* Properties.                                                             *)
(***************************************************************************)

(* A file reads back as the expression that was written to it, also when it *)
(* was written over a longer one whose end is still there (decode stops at  *)
(* the end of the first value).                                             *)
ReadsBack == state \in {"clean", "long"} => decode(file) = written

(* A file that was cut short, wherever, is an error and never another       *)
(* expression: the announced counts of arrays and maps are those of what    *)
(* follows (encode.rs counts by hand, before it writes the items).          *)
ShortFilesAreRefused == state = "short" => decode(file) = Error

(* Whatever the decoder accepts, from this encoder or not, has an encoding  *)
(* of its own that reads back as the same expression.  The digest of an     *)
(* import is that of the re-encoded expression, so that otherwise a value   *)
(* could be accepted once and never again.                                  *)
ReencodingIsStable ==
    decode(file) # Error => decode(Encoded(decode(file))) = decode(file)
=============================================================================
