------------------------------ MODULE EnvTags -------------------------------
(***************************************************************************)
(* ParseEnvTags: how a configuration struct is filled from environment     *)
(* variables and from the default tags of its fields.  A value is an       *)
(* integer whatever its type; Zero is the zero value of the type, Empty    *)
(* the empty string in the environment and Bad a text the type's parser    *)
(* refuses.                                                                *)
(***************************************************************************)
EXTENDS Integers, Sequences

Zero == 0
Unset == -1
Empty == -2
Bad == -3

FieldKinds == {"string", "int", "duration", "bool", "slice", "other"}

\* A field: its type, tags, environment variable and value before.
Field(kind, tagged, required, default, env, value) ==
  [kind |-> kind, tagged |-> tagged, required |-> required, default |-> default,
   env |-> env, value |-> value]

Result(value, err) == [value |-> value, err |-> err]

\* setFieldValue: a string takes every text; the other types keep their value
\* for the empty text and refuse what does not parse.
SetFieldValue(kind, old, text) ==
  CASE kind = "other" -> Result(old, TRUE)
    [] kind = "string" -> Result(IF text = Empty THEN Zero ELSE text, FALSE)
    [] text = Empty -> Result(old, FALSE)
    [] text = Bad /\ kind # "slice" -> Result(old, TRUE)
    [] OTHER -> Result(text, FALSE)

ParseFieldGetenv(f) ==
  IF ~ f.tagged THEN Result(f.value, FALSE)
  ELSE IF f.env \notin {Unset, Empty} THEN SetFieldValue(f.kind, f.value, f.env)
  ELSE IF f.required THEN Result(f.value, TRUE)
  ELSE IF f.value = Zero /\ f.default # Unset THEN SetFieldValue(f.kind, f.value, f.default)
  ELSE Result(f.value, FALSE)

\* One turn of the loop: the environment, then what is there, then the tag.
ParseField(f) ==
  IF ~ f.tagged THEN Result(f.value, FALSE)
  ELSE IF f.env # Unset THEN SetFieldValue(f.kind, f.value, f.env)
  ELSE IF f.required THEN Result(f.value, TRUE)
  ELSE IF f.value = Zero /\ f.default # Unset THEN SetFieldValue(f.kind, f.value, f.default)
  ELSE Result(f.value, FALSE)

\* The loop ends at the first field that fails; fields before it stay set.
FirstFailure(fields) ==
  LET Failing == {i \in DOMAIN fields : ParseField(fields[i]).err}
  IN IF Failing = {} THEN Len(fields) + 1
     ELSE CHOOSE i \in Failing : \A j \in Failing : i <= j
ParseEnvTags(fields) ==
  [err |-> FirstFailure(fields) <= Len(fields),
   values |-> [i \in DOMAIN fields |->
                 IF i < FirstFailure(fields) THEN ParseField(fields[i]).value
                 ELSE fields[i].value]]
=============================================================================
