----------------------------- MODULE Validation -----------------------------
(***************************************************************************)
(* validate_submission and coerce (app/services/validation.py), and what   *)
(* jsonb takes of their result.  A JSON value is one of a few examples,    *)
(* written as its text; "#" marks a JSON number.  Two texts stand for a    *)
(* length: "long" is longer than a widget's own limit of Short, "longer"   *)
(* than the platform's ceiling.                                            *)
(***************************************************************************)
EXTENDS Naturals

CONSTANT Nothing \* no value: a name that is not there

Kinds == {"text", "email", "textarea", "select", "checkbox", "number"}
Booleans == {"true", "false"}
Numbers == {"#0", "#1", "#nan", "#huge"} \* #huge: an integer no float can hold
Texts == {"", "yes", "no", "0", "1", "nan", "a@b.co", "red", "word", "nul", "long", "longer"}
Values == Booleans \cup Numbers \cup Texts \cup {"null", "list"}

Short == 2
Long == 4
MaxFieldLength == 6
Options == {"red", "1"}
FieldSpecs == [type : Kinds, required : BOOLEAN, maxLength : {Nothing, Short, 9}]

\* str(value).strip() of what is not a list: numbers are written out.
AsText(v) == CASE v = "#0" -> "0" [] v = "#1" -> "1" [] v = "#nan" -> "nan"
               [] v = "#huge" -> "long" [] v \in Booleans -> "word" [] OTHER -> v
Length(text) == CASE text = "long" -> Long [] text = "longer" -> MaxFieldLength + 1 [] OTHER -> 1

Good(v) == [problem |-> FALSE, raises |-> FALSE, value |-> v]
Bad == [problem |-> TRUE, raises |-> FALSE, value |-> Nothing]
Raises == [problem |-> FALSE, raises |-> TRUE, value |-> Nothing]

CoerceCheckbox(v) == CASE v \in Booleans -> Good(v)
                       [] AsText(v) \in {"yes", "1"} -> Good("true")
                       [] AsText(v) \in {"no", "0"} -> Good("false")
                       [] OTHER -> Bad

\* float(value): only TypeError and ValueError are caught.
CoerceNumber(v) == CASE v = "#huge" -> Raises
                     [] v \in {"#nan", "nan"} -> Good("#nan")
                     [] v \in {"#1", "1", "true"} -> Good("#1")
                     [] v \in {"#0", "0", "false"} -> Good("#0")
                     [] OTHER -> Bad

\* Mutant: the widget's own limit wins.
LimitOfWidget(field) == IF field.maxLength = Nothing THEN MaxFieldLength ELSE field.maxLength
LimitOf(field) == IF field.maxLength = Nothing \/ field.maxLength > MaxFieldLength
                  THEN MaxFieldLength ELSE field.maxLength

CoerceText(field, v) ==
  LET text == AsText(v)
      refused == \/ v = "list"
                 \/ Length(text) > LimitOf(field)
                 \/ field.type = "email" /\ text # "a@b.co"
                 \/ field.type = "select" /\ text \notin Options
  IN IF refused THEN Bad ELSE Good(text)

Coerce(field, v) == CASE field.type = "checkbox" -> CoerceCheckbox(v)
                      [] field.type = "number" -> CoerceNumber(v)
                      [] OTHER -> CoerceText(field, v)

Missing(v) == v \in {Nothing, "null", ""}
\* What becomes of one declared field.
Cleaned(field, v) == CASE Missing(v) /\ field.required -> Bad
                       [] Missing(v) /\ ~field.required -> Good(Nothing)
                       [] OTHER -> Coerce(field, v)

\* declared: name -> field; data: name -> value, over the names sent.  The
\* first coercion that raises ends it, in whatever order the fields come.
Sent(data, name) == IF name \in DOMAIN data THEN data[name] ELSE Nothing
ValidationRaises(declared, data) == \E name \in DOMAIN declared : Cleaned(declared[name], Sent(data, name)).raises
ValidationErrors(declared, data) ==
  \/ DOMAIN data \ DOMAIN declared # {}
  \/ \E name \in DOMAIN declared : Cleaned(declared[name], Sent(data, name)).problem
CleanedData(declared, data) ==
  [name \in DOMAIN declared |-> Cleaned(declared[name], Sent(data, name)).value]

\* NaN, infinities, NUL and lone surrogates have no place in jsonb.
Unstorable(v) == v \in {"#nan", "nul"}
-----------------------------------------------------------------------------
(* The reference: what each kind of field takes, and as what it is kept.   *)
(* A number is a finite one, and a text has no NUL.                        *)

Plain == Texts \ {"", "long", "longer", "nul"}
Takes(field) ==
  CASE field.type = "checkbox" -> Booleans \cup {"yes", "no", "0", "1", "#0", "#1"}
    [] field.type = "number" -> Booleans \cup {"0", "1", "#0", "#1"}
    [] field.type = "email" -> {"a@b.co"}
    [] field.type = "select" -> {"red", "1", "#1"}
    [] OTHER -> Plain \cup Booleans \cup {"#0", "#1", "#nan"}
                  \cup IF field.maxLength = Short THEN {} ELSE {"long", "#huge"}
Keeps(field) == CASE field.type = "checkbox" -> Booleans
                  [] field.type = "number" -> {"#0", "#1"}
                  [] field.type = "email" -> {"a@b.co"}
                  [] field.type = "select" -> Options
                  [] OTHER -> Plain \cup IF field.maxLength = Short THEN {} ELSE {"long"}
Fits(field, v) == IF Missing(v) THEN ~field.required ELSE v \in Takes(field)
FitsAll(declared, data) ==
  /\ DOMAIN data \subseteq DOMAIN declared
  /\ \A name \in DOMAIN declared : Fits(declared[name], Sent(data, name))
=============================================================================
