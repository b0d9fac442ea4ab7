------------------------------- MODULE Values -------------------------------
(***************************************************************************)
(* The life of a value: the JSON a client sends becomes a typed row value, *)
(* an SQLite cell, a Tantivy fast field (from the outbox or, in a rebuild, *)
(* from SQLite) and JSON again; a schema change converts it to another     *)
(* type.                                                                   *)
(*                                                                         *)
(* Seven column types stand for all: Timestamp for the types stored as     *)
(* validated text and read back in one canonical spelling (dates, IPs),    *)
(* Container for those carried as they are (arrays, JSON, facets, blobs,   *)
(* points). Numbers are counted in halves, so that reals have fractions.   *)
(***************************************************************************)
EXTENDS Integers

CONSTANT MaxInt   \* i64::MAX: i64 is -MaxInt-1..MaxInt, u64 is 0..2*MaxInt+1

ASSUME MaxIntAssumption == MaxInt \in Nat \ {0}

ColumnType == {"Integer", "Unsigned", "Real", "Text", "Boolean", "Timestamp", "Container"}

\* k is the representation, of what a text spells, n the number (in halves),
\* instant or identity, canon whether a text is spelled as the code spells it.
Val(k, of, n, canon) == [k |-> k, of |-> of, n |-> n, canon |-> canon]
Null       == Val("null", "none", 0, TRUE)
Err        == Val("err", "none", 0, TRUE)
IntVal(n)  == Val("int", "none", 2 * n, TRUE)
RealVal(h) == Val("real", "none", h, TRUE)
BoolVal(b) == Val("bool", "none", b, TRUE)
BoxVal(x)  == Val("box", "none", x, TRUE)
TextVal(of, n, canon) == Val("text", of, n, canon)

\* What a text may spell.
Spelled == {"number", "bool", "time", "word", "box"}

Integral(n) == n % 2 = 0
FitsI64(n) == Integral(n) /\ n \div 2 \in -(MaxInt + 1)..MaxInt
FitsU64(n) == Integral(n) /\ n \div 2 \in 0..(2 * MaxInt + 1)

\* The values a request can hold.
IsJson(v) ==
  /\ v = Val(v.k, v.of, v.n, v.canon) /\ v.n \in Int /\ v.canon \in BOOLEAN
  /\ \/ v = Null
     \/ v.k = "text" /\ v.of \in Spelled /\ (v.of = "bool" => v.n \in {0, 1})
     \/ /\ v.of = "none" /\ v.canon
        /\ \/ v.k \in {"real", "box"}
           \/ v.k = "int" /\ Integral(v.n)
           \/ v.k = "bool" /\ v.n \in {0, 1}

\* External: `as i64' saturates.
Saturate(n) ==
  IF n \div 2 > MaxInt THEN 2 * MaxInt ELSE IF n \div 2 < -(MaxInt + 1) THEN -2 * (MaxInt + 1) ELSE n

---------------------------------------------------------------------------

\* Mutant: any text is a timestamp.
ValidAnyText(col, v) ==
  \/ v.k = "null" /\ col.nullable
  \/ v.k = "int"  /\ col.type \in {"Integer", "Real", "Boolean"}
  \/ v.k = "uint" /\ col.type = "Unsigned"
  \/ v.k = "real" /\ col.type = "Real"
  \/ v.k = "text" /\ col.type \in {"Text", "Timestamp"}
  \/ v.k = "box"  /\ col.type = "Container"

\* validate_row_value
Valid(col, v) ==
  \/ v.k = "null" /\ col.nullable
  \/ v.k = "int"  /\ col.type \in {"Integer", "Real"}
  \/ v.k = "int"  /\ col.type = "Boolean" /\ v.n \in {0, 2}
  \/ v.k = "uint" /\ col.type = "Unsigned"
  \/ v.k = "real" /\ col.type = "Real"
  \/ v.k = "text" /\ col.type = "Text"
  \/ v.k = "text" /\ col.type = "Timestamp" /\ v.of = "time"
  \/ v.k = "box"  /\ col.type = "Container"

Checked(col, v) == IF Valid(col, v) THEN v ELSE Err

\* json_to_row_value
JsonToRow(col, j) ==
  LET t == col.type
      number == j.k \in {"int", "real"}
  IN  CASE j.k = "null" -> Checked(col, Null)
        [] t = "Integer" /\ number ->
             IF j.k = "int" /\ FitsI64(j.n) THEN Checked(col, j) ELSE Err
        [] t = "Unsigned" /\ number ->
             IF j.k = "int" /\ FitsU64(j.n) THEN Checked(col, [j EXCEPT !.k = "uint"]) ELSE Err
        [] t = "Real" /\ number ->
             Checked(col, IF j.k = "int" /\ FitsI64(j.n) THEN j ELSE [j EXCEPT !.k = "real"])
        [] t = "Boolean" /\ j.k = "bool" -> Checked(col, IntVal(j.n))
        [] t \in {"Text", "Timestamp"} /\ j.k = "text" -> Checked(col, j)
        [] t = "Container" /\ j.k = "box" -> Checked(col, j)
        [] OTHER -> Err

\* sqlite_value, and the affinity of the column in a STRICT table.
SqliteValue(col, v) ==
  CASE v.k = "uint" -> TextVal("number", v.n, TRUE)
    [] v.k = "box"  -> TextVal("box", v.n, TRUE)
    [] v.k = "int" /\ col.type = "Real" -> RealVal(v.n)
    [] OTHER -> v

\* SqliteRowValue::to_sql, its twin for bulk statements: only what a JSON encoder
\* may refuse makes a difference, and no row value is refused.
ToSql(col, v) == SqliteValue(col, v)

\* The column types of sqlite_create_sql, its NOT NULL and CHECK constraints.
Storable(col, cell) ==
  CASE cell.k = "null" -> col.nullable
    [] cell.k = "int"  -> \/ col.type = "Integer"
                          \/ col.type = "Boolean" /\ cell.n \in {0, 2}
    [] cell.k = "real" -> col.type = "Real"
    [] cell.k = "text" -> col.type \notin {"Integer", "Real", "Boolean"}
    [] OTHER -> FALSE

\* row_value_from_ref
RowValueFromRef(col, cell) ==
  LET parsed == CASE cell.k = "text" /\ col.type = "Unsigned" ->
                       IF cell.of = "number" /\ FitsU64(cell.n)
                       THEN Val("uint", "none", cell.n, TRUE) ELSE Err
                  [] cell.k = "text" /\ col.type = "Container" ->
                       IF cell.of = "box" THEN BoxVal(cell.n) ELSE Err
                  [] OTHER -> cell
  IN  Checked(col, parsed)

---------------------------------------------------------------------------
(* Tantivy. A fast field keeps instants to the millisecond: half of the    *)
(* instants, those with an odd number, lose their fraction.                *)

Instant(text) == IF text.of = "time" THEN Val("time", "none", text.n - (text.n % 2), TRUE) ELSE Err

\* add_sql_array, with the native values and the canonical bytes of an array
AddSqlArray(cell) == IF cell.of = "box" THEN BoxVal(cell.n) ELSE Err

\* add_row_array encodes the array as SQLite would and goes on from there.
AddRowArray(v) == AddSqlArray(TextVal("box", v.n, TRUE))

\* add_row_value: what the writer is given with an outbox operation.
AddRowValue(col, v) ==
  CASE v.k = "null" -> Null
    [] v.k = "int"  /\ col.type = "Integer"   -> v
    [] v.k = "uint" /\ col.type = "Unsigned"  -> v
    [] v.k \in {"real", "int"} /\ col.type = "Real" -> RealVal(v.n)
    [] v.k = "int"  /\ col.type = "Boolean" /\ v.n \in {0, 2} -> BoolVal(v.n \div 2)
    [] v.k = "text" /\ col.type = "Timestamp" -> Instant(v)
    [] v.k = "text" /\ col.type = "Text"      -> v
    [] v.k = "box"  /\ col.type = "Container" -> AddRowArray(v)
    [] OTHER -> Err

\* add_sql_value: what a rebuild gives the writer.
AddSqlValue(col, cell) ==
  CASE cell.k = "null" -> Null
    [] cell.k = "int"  /\ col.type = "Integer" -> cell
    [] cell.k = "text" /\ col.type = "Unsigned" ->
         IF cell.of = "number" /\ FitsU64(cell.n) THEN Val("uint", "none", cell.n, TRUE) ELSE Err
    [] cell.k \in {"real", "int"} /\ col.type = "Real" -> RealVal(cell.n)
    [] cell.k = "int"  /\ col.type = "Boolean" /\ cell.n \in {0, 2} -> BoolVal(cell.n \div 2)
    [] cell.k = "text" /\ col.type = "Timestamp" -> Instant(cell)
    [] cell.k = "text" /\ col.type = "Text" -> cell
    [] cell.k = "text" /\ col.type = "Container" -> AddSqlArray(cell)
    [] OTHER -> Err

\* owned_to_json: an unsigned is a JSON integer, an instant has one spelling.
OwnedToJson(v) ==
  CASE v.k = "uint" -> Val("int", "none", v.n, TRUE)
    [] v.k = "time" -> TextVal("time", v.n, TRUE)
    [] OTHER -> v

\* ProjectedFastReader::value: a field without a value reads as null.
ReadFast(v) == IF v = Null THEN Null ELSE OwnedToJson(v)

\* Mutant: a Boolean is hashed as the integer SQLite keeps.
EtagValueRaw(col, v) == CASE v.k = "uint" -> Val("int", "none", v.n, TRUE) [] OTHER -> v

\* etag_value
EtagValue(col, v) ==
  CASE v.k = "int" /\ col.type = "Boolean" -> BoolVal(v.n \div 2)
    [] v.k = "uint" -> Val("int", "none", v.n, TRUE)
    [] OTHER -> v

---------------------------------------------------------------------------

\* External: Rust's number and Boolean parsers.
ParseI64(t) == IF t.of = "number" /\ t.canon /\ FitsI64(t.n) THEN Val("int", "none", t.n, TRUE) ELSE Err
ParseF64(t) == IF t.of = "number" THEN RealVal(t.n) ELSE Err
ParseBool(t) == IF t.of = "bool" THEN BoolVal(t.n) ELSE Err

\* convert_value of a schema change
ConvertValue(target, v) ==
  LET spelled == TextVal("number", v.n, TRUE)
      json == CASE v.k = "int" /\ target.type = "Boolean" /\ v.n \in {0, 2} -> BoolVal(v.n \div 2)
                [] v.k \in {"int", "uint", "real"} /\ target.type = "Text" -> spelled
                [] v.k = "uint" /\ target.type # "Text" -> Val("int", "none", v.n, TRUE)
                [] v.k = "real" /\ target.type = "Integer" /\ Integral(v.n) ->
                     Val("int", "none", Saturate(v.n), TRUE)
                [] v.k = "text" /\ target.type = "Integer" -> ParseI64(v)
                [] v.k = "text" /\ target.type = "Real"    -> ParseF64(v)
                [] v.k = "text" /\ target.type = "Boolean" -> ParseBool(v)
                [] OTHER -> v
  IN  IF json = Err THEN Err ELSE JsonToRow(target, json)

=============================================================================
