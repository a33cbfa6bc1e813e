---------------------------- MODULE ImportOptions ----------------------------
(***************************************************************************)
(* The two options of a deserializer about imports                         *)
(* (serde_dhall/src/options/de.rs).  They may be set any number of times,  *)
(* in any order, and each may override the other in part.                  *)
(***************************************************************************)
EXTENDS Naturals, Sequences

VARIABLES
    options,    \* allow_imports and allow_remote_imports
    calls       \* the options that were set, in order
optionVars == <<options, calls>>

InitOptions == options = [imports |-> TRUE, remote |-> TRUE] /\ calls = <<>>

(* Mutant: remote imports are enabled while imports stay disabled.          *)
remote_imports_only(o, b) == [o EXCEPT !.remote = b]
remote_imports(o, b) == [o EXCEPT !.remote = b, !.imports = @ \/ b]
imports(o, b) == [o EXCEPT !.imports = b]

Called(option, b) == calls' = Append(calls, <<option, b>>)
Configure ==
    \E b \in BOOLEAN :
       \/ options' = imports(options, b) /\ Called("imports", b)
       \/ options' = remote_imports(options, b) /\ Called("remote_imports", b)

(* parse_to_value: skip_resolve fails at any import, and                    *)
(* resolve_without_remote_imports at a remote one.                          *)
Admits(needs) == options.imports /\ (needs = "remote" => options.remote)

OptionsSpec == InitOptions /\ [][Configure]_optionVars

-----------------------------------------------------------------------------
(* The i-th call refuses the import, and no later one lifts that: a refusal *)
(* of remote imports stands until they are allowed, one of all imports      *)
(* until imports of either kind are.                                        *)
Stands(i, needs) ==
    /\ ~calls[i][2]
    /\ calls[i][1] = "remote_imports" => needs = "remote"
    /\ \A j \in DOMAIN calls : j > i /\ calls[j][2] =>
          calls[i][1] = "remote_imports" /\ calls[j][1] = "imports"

(* At any moment, a document that needs an import would be read exactly if  *)
(* no refusal of such an import stands.                                     *)
RefusalsStand ==
    \A needs \in {"local", "remote"} :
        Admits(needs) <=> ~\E i \in DOMAIN calls : Stands(i, needs)
=============================================================================
