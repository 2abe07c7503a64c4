------------------------------- MODULE Values -------------------------------
(***************************************************************************)
(* Values on their way between a caller of a generated function and a      *)
(* table: Rust to Value, Value to a bound parameter, a parameter to the    *)
(* column that stores it, the column to Value, Value to Rust.  Contents    *)
(* are abstracted to what these conversions tell apart: `whole` numbers    *)
(* and `fraction`s (also as text), other text and bytes (`word`), text     *)
(* with a zero character (`nul`, whose part before it is a `word`) and the *)
(* float that is not a number (`nan`).                                     *)
(***************************************************************************)

Data == {"whole", "fraction", "word", "nul", "nan"}

(* Rust types of arguments and fields; the Value variant of each.          *)
ClassOf == [String |-> "Text", i64 |-> "Integer", f64 |-> "Real", bytes |-> "Blob"]
Bases == DOMAIN ClassOf
RustType == [of : Bases, optional : BOOLEAN]
(* The contents a value of a Rust type can have.                           *)
Contents ==
  [String |-> Data \ {"nan"}, i64 |-> {"whole"}, f64 |-> {"whole", "fraction", "nan"},
   bytes |-> Data \ {"nan"}]
Value == [class : {"Text", "Integer", "Real", "Blob", "Null"}, data : Data \cup {"nothing"}]

None == [of |-> "None"]
Null == [class |-> "Null", data |-> "nothing"]

From(x) == IF x = None THEN Null ELSE [class |-> ClassOf[x.of], data |-> x.data]

Converts_NoNull(v, type) == v.class = ClassOf[type.of] \* no arm for Value::Null

(* TryFrom: whether it succeeds, and what it then returns.                 *)
Converts(v, type) == v.class = ClassOf[type.of] \/ (v = Null /\ type.optional)
TryFrom(v, type) == IF v = Null THEN None ELSE [of |-> type.of, data |-> v.data]

(* sqlite3_bind_double stores NULL for a NaN.                              *)
Bind(v) == IF v.class = "Real" /\ v.data = "nan" THEN Null ELSE v

(* SQLite's column affinity: a number stored in a text column becomes its  *)
(* text, text that reads as a number and a whole float become numbers in a *)
(* numeric column, and an integer becomes a float in a REAL column.        *)
Store(v, column_type) ==
  LET number == v.class \in {"Integer", "Real"}
      reads == v.class = "Text" /\ v.data \in {"whole", "fraction"}
  IN CASE column_type = "TEXT" /\ number -> [v EXCEPT !.class = "Text"]
       [] column_type = "INTEGER" /\ (number \/ reads) ->
            [v EXCEPT !.class = IF v.data = "whole" THEN "Integer" ELSE "Real"]
       [] column_type \in {"REAL", "DOUBLE"} /\ (number \/ reads) ->
            [v EXCEPT !.class = "Real"]
       [] OTHER -> v

(* The variant follows the stored class; text ends at its first zero.      *)
get_column_value(v) ==
  IF v.class = "Text" /\ v.data = "nul" THEN [v EXCEPT !.data = "word"] ELSE v
=============================================================================
