------------------------------ MODULE MCDiskCache ------------------------------
(* Two processes that import the same digest, whose value takes two blocks. *)
(* The processes may not write the same names, so that one may write what   *)
(* does not verify.                                                         *)
EXTENDS DiskCache

Right == <<"a", "b">>
OtherNames == <<"c", "b">>

(* Nothing, the right file, one that was cut short, and one that is too long.*)
MCEncodings == {Right, OtherNames}
MCFound == {Right, <<"a">>, <<"a", "b", "b">>}
MCDigest(blocks) == IF blocks = Right THEN "h" ELSE "other"
=============================================================================
