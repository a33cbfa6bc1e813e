----------------------------- MODULE SerdeBridge -----------------------------
(***************************************************************************)
(* Rust code that uses serde_dhall (src/serde_dhall/src/options/,          *)
(* function.rs, value.rs): it writes data and reads what was written, or   *)
(* sets the options of a deserializer and reads a program, prints what it  *)
(* got and reads that again, calls functions it got, and turns what it has *)
(* into Rust data.                                                         *)
(*                                                                         *)
(* What is written is an expression: printing and parsing its text is left *)
(* out.  A program says whether it needs a local or a remote import.       *)
(***************************************************************************)
EXTENDS SerdeData, ImportOptions

CONSTANTS
    Jobs,           \* what the Rust code does
    MaxCalls        \* how many options it sets, and calls it makes, at most

(* To write datum and read it as shape, both under annot; or to read expr   *)
(* under annot, call what it is with args, and turn the result into shape.  *)
Writing(datum, shape, annot) ==
    [does |-> "write", datum |-> datum, expr |-> Refused, needs |-> "nothing",
     annot |-> annot, args |-> {}, shape |-> shape]
Reading(expr, needs, annot, args, shape) ==
    [does |-> "read", datum |-> Refused, expr |-> expr, needs |-> needs,
     annot |-> annot, args |-> args, shape |-> shape]

VARIABLES
    job,
    stage,      \* "datum", "text", "value", "result", "refused" or "aborted"
    expr,       \* what there is to read
    value,      \* what was read or returned, as a set
    printed,    \* the value that was printed, as a set
    applied,    \* the arguments of the calls so far, as they were written
    promised,   \* the types that the last call was to return, as a set
    result
vars == <<job, stage, options, calls, expr, value, printed, applied, promised, result>>

Init ==
    /\ job \in Jobs
    /\ stage = IF job.does = "write" THEN "datum" ELSE "text"
    /\ InitOptions
    /\ expr = job.expr
    /\ value = {} /\ printed = {} /\ applied = <<>> /\ promised = {}
    /\ result = Refused

(***************************************************************************)
(* The options of a deserializer.                                          *)
(***************************************************************************)
IsBuilding == stage = "text" /\ printed = {} /\ job.needs # "nothing" /\ Len(calls) < MaxCalls
SetOption ==
    /\ IsBuilding /\ Configure
    /\ UNCHANGED <<job, stage, expr, value, printed, applied, promised, result>>

(***************************************************************************)
(* Writing and reading.                                                    *)
(***************************************************************************)
Refuse ==
    /\ stage' = "refused"
    /\ UNCHANGED <<job, options, calls, expr, value, printed, applied, promised, result>>
ToString_ ==
    /\ stage = "datum"
    /\ \E written \in {to_dhall(job.datum, job.annot)} :
       \/ written = {} /\ Refuse
       \/ \E v \in written :
             /\ expr' = to_expr(v)
             /\ stage' = "text"
             /\ UNCHANGED <<job, options, calls, value, printed, applied, promised, result>>

Resolves == job.needs = "nothing" \/ printed # {} \/ Admits(job.needs)
Typed(h, annot) == typecheck_with(h, {type_to_hir(t) : t \in annot})
ValueOf(h, annot) ==
    UNION {from_nir_and_ty(Eval(<<>>, h), ty.val) : ty \in {t \in {Typed(h, annot)} : IsTyped(t)}}
parse_to_value ==
    /\ stage = "text"
    /\ \E read \in {IF Resolves THEN ValueOf(expr, job.annot) ELSE {}} :
       \/ read = {} /\ Refuse
       \/ /\ read # {} /\ value' = read
          /\ stage' = "value"
          /\ UNCHANGED <<job, options, calls, expr, printed, applied, promised, result>>

(* A value that cannot be written is printed some other way, which nothing  *)
(* reads.                                                                   *)
Display ==
    /\ stage = "value" /\ printed = {} /\ applied = <<>> /\ job.does = "read"
    /\ printed' = value /\ value' = {}
    /\ expr' = to_expr(The(value))
    /\ stage' = IF expr' = Refused THEN "refused" ELSE "text"
    /\ UNCHANGED <<job, options, calls, applied, promised, result>>

(***************************************************************************)
(* Function::apply.                                                        *)
(***************************************************************************)
IsFunction == stage = "value" /\ The(value).val.k = "V::Function"
(* What a call returns, as a set.                                           *)
apply_value(f, arg) == ValueOf(App(f.expr, arg), {})
Call ==
    /\ IsFunction /\ Len(applied) < MaxCalls
    /\ LET f == The(value).val IN
       \E datum \in job.args :
       \E written \in {{to_expr(arg) : arg \in to_dhall(datum, f.input_ty)}} :
       \E returned \in {UNION {apply_value(f, h) : h \in written}} :
          \/ returned = {} /\ Refuse
          \/ /\ returned # {} /\ value' = returned
             /\ applied' = Append(applied, The(written))
             /\ promised' = f.output_ty
             /\ UNCHANGED <<job, stage, options, calls, expr, printed, result>>

(* A stack that overflows ends the process.                                 *)
FromDhall ==
    /\ stage = "value"
    /\ result' = from_dhall(job.shape, The(value))
    /\ stage' = IF result' = Overflow THEN "aborted" ELSE "result"
    /\ UNCHANGED <<job, options, calls, expr, value, printed, applied, promised>>

Next == SetOption \/ ToString_ \/ parse_to_value \/ Display \/ Call \/ FromDhall
Spec == Init /\ [][Next]_vars

(***************************************************************************)
(* Properties.                                                             *)
(***************************************************************************)
WasWritten == job.does = "write" /\ expr # Refused

(* What was written is read without an error and is the datum it was        *)
(* written from, to the last field and number (to_string, then parse).      *)
ReadsBackWhatWasWritten ==
    WasWritten => stage \notin {"refused", "aborted"} /\ (stage = "result" => result = job.datum)

(* Data of a type are written under the type that StaticType (and its       *)
(* derive macro) says they have, and are read as values of that type.       *)
IsStatic(j) == j.does = "write" /\ j.annot # {} /\ j.annot = {static_type(j.shape)}
StaticTypesFit ==
    IsStatic(job) =>
        /\ stage \notin {"refused", "aborted"}
        /\ stage = "value" => The(value).ty = job.annot

(* A value that was read can be printed with the type it carries (Display   *)
(* for Value), and what is printed reads as that value, with that type.     *)
PrintedValueIsTheSame ==
    printed # {} =>
        /\ stage = "refused" => value # {}
        /\ stage = "value" /\ applied = <<>> => value = printed

(* Calling a function, and then calling what it returned, is as good as     *)
(* applying it to both arguments in Dhall; and a call returns a value of    *)
(* the type that the function was known to return.                          *)
CallsCompose ==
    applied # <<>> /\ stage = "value" =>
        /\ value = ValueOf(FoldLeft(App, job.expr, applied), {})
        /\ promised # {} => The(value).kind = "Val" /\ The(value).ty = promised

(* "Refuse rather than truncate: a silently wrong number is worse than a    *)
(* failed parse" (deserialize_any): numbers, and simple values with numbers *)
(* in them, arrive as they are or not at all.                               *)
RefuseRatherThanTruncate ==
    stage = "result" /\ result # Refused =>
        /\ job.shape.k \in {"uint", "int"} => result.n = The(value).val.n
        /\ job.shape.k = "SimpleValue" => result.sub[1] = The(value).val
=============================================================================
