----------------------------- MODULE OptionsProofs -----------------------------
(***************************************************************************)
(* However often and in whatever order the options of a deserializer are   *)
(* set, an import is admitted exactly if no refusal of it stands.          *)
(***************************************************************************)
EXTENDS ImportOptions, SequenceTheorems, TLAPS

(* What each option is worth after the calls there were: it is off exactly  *)
(* if a call that turned it off has not been overridden.                    *)
Refused(option) ==
    \E i \in DOMAIN calls : calls[i][1] = option /\ Stands(i, "remote")
OptionsInv ==
    /\ options \in [imports : BOOLEAN, remote : BOOLEAN]
    /\ calls \in Seq({"imports", "remote_imports"} \X BOOLEAN)
    /\ options.imports = ~Refused("imports")
    /\ options.remote = ~Refused("remote_imports")

(* One more call: what stood goes on standing unless it is overridden, and  *)
(* the new call stands if it refuses.                                       *)
LEMMA OneMoreCall ==
    ASSUME OptionsInv, NEW option \in {"imports", "remote_imports"},
           NEW b \in BOOLEAN, Called(option, b)
    PROVE  /\ calls' \in Seq({"imports", "remote_imports"} \X BOOLEAN)
           /\ Refused("imports")' =
                 IF b THEN FALSE ELSE Refused("imports") \/ option = "imports"
           /\ Refused("remote_imports")' =
                 IF option = "remote_imports" THEN ~b ELSE Refused("remote_imports")
  <1>0. PICK n : n = Len(calls)
    OBVIOUS
  <1> DEFINE Call == {"imports", "remote_imports"} \X BOOLEAN
  <1>1. /\ calls' \in Seq(Call) /\ n \in Nat /\ DOMAIN calls = 1..n
        /\ DOMAIN calls' = 1..(n + 1)
        /\ \A i \in 1..n : calls'[i] = calls[i] /\ calls[i] \in Call
        /\ calls'[n + 1][1] = option /\ calls'[n + 1][2] = b
    <2>1. <<option, b>> \in Call /\ calls \in Seq(Call) /\ calls' = Append(calls, <<option, b>>)
      BY DEF OptionsInv, Called
    <2> HIDE DEF Call
    <2>2. /\ calls' \in Seq(Call) /\ Len(calls') = n + 1
          /\ \A i \in 1..n : calls'[i] = calls[i]
          /\ calls'[n + 1] = <<option, b>>
      BY <1>0, <2>1, AppendProperties
    <2>3. /\ n \in Nat /\ DOMAIN calls = 1..n /\ DOMAIN calls' = 1..(n + 1)
          /\ \A i \in 1..n : calls[i] \in Call
      BY <1>0, <2>1, <2>2, LenProperties, ElementOfSeq
    <2>4. QED
      BY <2>2, <2>3
  <1>2. \A i \in 1..(n + 1) : i \in 1..n \/ i = n + 1
    BY <1>1
  <1>3. ASSUME NEW i \in 1..n
        PROVE  Stands(i, "remote")' <=>
                  /\ Stands(i, "remote")
                  /\ b => calls[i][1] = "remote_imports" /\ option = "imports"
    <2> DEFINE Lifts(j, opt, c) == j > i /\ c => calls[i][1] = "remote_imports"
                                                    /\ opt = "imports"
    <2>1. n + 1 > i /\ \A j \in 1..n : calls'[j] = calls[j]
      BY <1>1
    <2>2. Stands(i, "remote") <=>
             /\ ~calls[i][2]
             /\ \A j \in 1..n : Lifts(j, calls[j][1], calls[j][2])
      BY <1>1 DEF Stands
    <2>3. Stands(i, "remote")' <=>
             /\ ~calls[i][2]
             /\ \A j \in 1..(n + 1) : Lifts(j, calls'[j][1], calls'[j][2])
      BY <1>1, <2>1 DEF Stands
    <2>4. (\A j \in 1..(n + 1) : Lifts(j, calls'[j][1], calls'[j][2])) <=>
             /\ \A j \in 1..n : Lifts(j, calls[j][1], calls[j][2])
             /\ Lifts(n + 1, option, b)
      <3>1. n + 1 \in 1..(n + 1) /\ \A j \in 1..n : j \in 1..(n + 1)
        BY <1>1
      <3>2. \A j \in 1..n : Lifts(j, calls'[j][1], calls'[j][2])
                               <=> Lifts(j, calls[j][1], calls[j][2])
        BY <2>1
      <3>3. Lifts(n + 1, calls'[n + 1][1], calls'[n + 1][2]) <=> Lifts(n + 1, option, b)
        BY <1>1
      <3> HIDE DEF Lifts
      <3>4. QED
        BY <1>2, <3>1, <3>2, <3>3
    <2>5. QED
      BY <2>1, <2>2, <2>3, <2>4
  <1>4. Stands(n + 1, "remote")' <=> ~b
    <2>1. n + 1 \in 1..(n + 1) /\ \A j \in 1..(n + 1) : ~(j > n + 1)
      BY <1>1
    <2>2. Stands(n + 1, "remote")' <=>
             /\ ~calls'[n + 1][2]
             /\ \A j \in 1..(n + 1) : j > n + 1 /\ calls'[j][2] =>
                   calls'[n + 1][1] = "remote_imports" /\ calls'[j][1] = "imports"
      BY <1>1 DEF Stands
    <2>3. QED
      BY <1>1, <2>1, <2>2
  <1>5. ASSUME NEW kind \in {"imports", "remote_imports"}
        PROVE  Refused(kind)' <=>
                  \/ option = kind /\ ~b
                  \/ \E i \in 1..n : /\ calls[i][1] = kind /\ Stands(i, "remote")
                                     /\ b => kind = "remote_imports" /\ option = "imports"
    <2>1. n + 1 \in 1..(n + 1) /\ \A i \in 1..n : i \in 1..(n + 1)
      BY <1>1
    <2>2. calls'[n + 1][1] = option
      BY <1>1
    <2>3. \A i \in 1..n : calls'[i][1] = calls[i][1]
      BY <1>1
    <2>4. Refused(kind)' <=>
             \E i \in 1..(n + 1) : calls'[i][1] = kind /\ Stands(i, "remote")'
      BY <1>1 DEF Refused
    <2>5. (\E i \in 1..(n + 1) : calls'[i][1] = kind /\ Stands(i, "remote")')
             <=> \/ option = kind /\ ~b
                 \/ \E i \in 1..n : calls[i][1] = kind /\ Stands(i, "remote")'
      BY <1>2, <1>4, <2>1, <2>2, <2>3
    <2>6. QED
      BY <1>3, <2>4, <2>5
  <1>6. ASSUME NEW kind \in {"imports", "remote_imports"}
        PROVE  Refused(kind) <=> \E i \in 1..n : calls[i][1] = kind /\ Stands(i, "remote")
    BY <1>1 DEF Refused
  <1>7. Refused("imports") \in BOOLEAN /\ Refused("remote_imports") \in BOOLEAN
        /\ Refused("imports")' \in BOOLEAN /\ Refused("remote_imports")' \in BOOLEAN
    BY DEF Refused
  <1>8. Refused("imports")' <=> ~b /\ (Refused("imports") \/ option = "imports")
    BY <1>5, <1>6
  <1>9. Refused("remote_imports")' <=>
           IF option = "remote_imports" THEN ~b ELSE Refused("remote_imports")
    <2>1. CASE option = "imports"
      BY <1>5, <1>6, <2>1
    <2>2. CASE option = "remote_imports"
      BY <1>5, <1>6, <2>2
    <2>3. QED
      BY <2>1, <2>2
  <1>10. QED
    BY <1>1, <1>7, <1>8, <1>9

(* Each option keeps saying what its calls amount to.                       *)
LEMMA OptionsStep == OptionsInv /\ [Configure]_optionVars => OptionsInv'
  <1> SUFFICES ASSUME OptionsInv, [Configure]_optionVars
               PROVE  OptionsInv'
    OBVIOUS
  <1>1. CASE UNCHANGED optionVars
    BY <1>1 DEF OptionsInv, optionVars, Refused, Stands
  <1>2. ASSUME NEW b \in BOOLEAN, options' = imports(options, b), Called("imports", b)
        PROVE  OptionsInv'
    <2>1. /\ options' \in [imports : BOOLEAN, remote : BOOLEAN]
          /\ options'.imports = b /\ options'.remote = options.remote
      BY <1>2 DEF OptionsInv, imports
    <2>2. QED
      BY <1>2, <2>1, OneMoreCall DEF OptionsInv
  <1>3. ASSUME NEW b \in BOOLEAN, options' = remote_imports(options, b),
               Called("remote_imports", b)
        PROVE  OptionsInv'
    <2>1. /\ options' \in [imports : BOOLEAN, remote : BOOLEAN]
          /\ options'.imports = (options.imports \/ b) /\ options'.remote = b
      BY <1>3 DEF OptionsInv, remote_imports
    <2>2. QED
      BY <1>3, <2>1, OneMoreCall DEF OptionsInv
  <1>4. QED
    BY <1>1, <1>2, <1>3 DEF Configure

(* After any number of calls of imports and remote_imports, in any order, a *)
(* document is read exactly if no refusal of what it needs stands           *)
(* (parse_to_value).                                                        *)
THEOREM RefusalsAlwaysStand == OptionsSpec => []RefusalsStand
  <1>1. InitOptions => OptionsInv
    <2> SUFFICES ASSUME InitOptions PROVE OptionsInv
      OBVIOUS
    <2>1. calls \in Seq({"imports", "remote_imports"} \X BOOLEAN) /\ DOMAIN calls = {}
      BY EmptySeq DEF InitOptions
    <2>2. ~Refused("imports") /\ ~Refused("remote_imports")
      BY <2>1 DEF Refused
    <2>3. /\ options \in [imports : BOOLEAN, remote : BOOLEAN]
          /\ options.imports = TRUE /\ options.remote = TRUE
      BY DEF InitOptions
    <2>4. QED
      BY <2>1, <2>2, <2>3 DEF OptionsInv
  <1>2. ASSUME OptionsInv
        PROVE  RefusalsStand
    <2>1. DOMAIN calls = 1..Len(calls)
          /\ \A i \in DOMAIN calls : calls[i][1] \in {"imports", "remote_imports"}
      BY <1>2, LenProperties, ElementOfSeq DEF OptionsInv
    <2>2. (\E i \in DOMAIN calls : Stands(i, "remote"))
             <=> Refused("imports") \/ Refused("remote_imports")
      BY <2>1 DEF Refused
    <2>3. \A i \in DOMAIN calls :
             Stands(i, "local") <=> calls[i][1] = "imports" /\ Stands(i, "remote")
      BY <2>1 DEF Stands
    <2>4. (\E i \in DOMAIN calls : Stands(i, "local")) <=> Refused("imports")
      BY <2>3 DEF Refused
    <2>5. Admits("local") <=> ~Refused("imports")
      BY <1>2 DEF OptionsInv, Admits
    <2>6. Admits("remote") <=> ~(Refused("imports") \/ Refused("remote_imports"))
      BY <1>2 DEF OptionsInv, Admits
    <2>7. QED
      BY <2>2, <2>4, <2>5, <2>6 DEF RefusalsStand
  <1>3. QED
    BY <1>1, <1>2, OptionsStep, PTL DEF OptionsSpec
=============================================================================
