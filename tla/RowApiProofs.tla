---------------------------- MODULE RowApiProofs ----------------------------
(***************************************************************************)
(* The row API for any table, requests and schema changes: what a writer   *)
(* accepts can be read, the index agrees with SQLite, and a conditional    *)
(* write meets the row its client saw.                                     *)
(***************************************************************************)
EXTENDS RowApi, WellFoundedInduction, TLAPS

(* Values. What a column may hold as a row value, and what as a cell.      *)

Shaped(v) == v = Val(v.k, v.of, v.n, v.canon) /\ v.n \in Int /\ v.canon \in BOOLEAN

IsText(v) == v.k = "text" /\ v.of \in Spelled /\ (v.of = "bool" => v.n \in {0, 1})

Plain(v, k) == v.k = k /\ v.of = "none" /\ v.canon = TRUE

\* The values json_to_row_value accepts for a column.
Accepted(col, v) ==
  /\ Shaped(v)
  /\ \/ v = Null /\ col.nullable
     \/ col.type = "Integer"   /\ Plain(v, "int") /\ FitsI64(v.n)
     \/ col.type = "Unsigned"  /\ Plain(v, "uint") /\ FitsU64(v.n)
     \/ col.type = "Real"      /\ (Plain(v, "real") \/ (Plain(v, "int") /\ FitsI64(v.n)))
     \/ col.type = "Boolean"   /\ Plain(v, "int") /\ v.n \in {0, 2}
     \/ col.type = "Text"      /\ IsText(v)
     \/ col.type = "Timestamp" /\ IsText(v) /\ v.of = "time"
     \/ col.type = "Container" /\ Plain(v, "box")

\* The cells its SQLite column holds.
GoodCell(col, v) ==
  /\ Shaped(v)
  /\ \/ v = Null /\ col.nullable
     \/ col.type = "Integer"   /\ Plain(v, "int") /\ FitsI64(v.n)
     \/ col.type = "Unsigned"  /\ IsText(v) /\ v.of = "number" /\ v.canon = TRUE /\ FitsU64(v.n)
     \/ col.type = "Real"      /\ Plain(v, "real")
     \/ col.type = "Boolean"   /\ Plain(v, "int") /\ v.n \in {0, 2}
     \/ col.type = "Text"      /\ IsText(v)
     \/ col.type = "Timestamp" /\ IsText(v) /\ v.of = "time"
     \/ col.type = "Container" /\ IsText(v) /\ v.of = "box" /\ v.canon = TRUE

\* Instants are sent to the millisecond, and spelled as the code spells them.
Canon(v) == v.k = "text" /\ v.of = "time" => v.canon = TRUE /\ Integral(v.n)

\* Numbers that `as i64' leaves alone.
Small(v) ==
  v.k \in {"int", "uint", "real"} \/ v.of = "number" => v.n \div 2 \in -(MaxInt + 1)..MaxInt

\* The values of all requests.
ValuesOf(body) == {body[f] : f \in DOMAIN body}
BatchValues(batch) == UNION {ValuesOf(batch[i].values) : i \in DOMAIN batch}
DefaultsOf(changes) == {changes[i].default : i \in DOMAIN changes}
SentValues ==
  UNION ({ValuesOf(body) : body \in Bodies \cup Edits}
           \cup {BatchValues(batch) : batch \in Batches}
           \cup {DefaultsOf(changes) : changes \in SchemaChanges})

CanonicalTimes == \A v \in SentValues : Canon(v)
SmallNumbers   == \A v \in SentValues : Small(v)

\* If clients send only such values, the value is one of those.
Kept(v) == (CanonicalTimes => Canon(v)) /\ (SmallNumbers => Small(v))

LEMMA ValFields ==
  ASSUME NEW k, NEW of, NEW n, NEW canon
  PROVE  /\ Val(k, of, n, canon).k = k /\ Val(k, of, n, canon).of = of
         /\ Val(k, of, n, canon).n = n /\ Val(k, of, n, canon).canon = canon
BY DEF Val

LEMMA ValShaped ==
  ASSUME NEW k, NEW of, NEW n \in Int, NEW canon \in BOOLEAN
  PROVE  Shaped(Val(k, of, n, canon))
<1>1. Shaped(Val(k, of, n, canon)) <=>
        Val(k, of, n, canon) = Val(k, of, n, canon) /\ n \in Int /\ canon \in BOOLEAN
  BY ValFields DEF Shaped
<1> QED BY <1>1

LEMMA PlainVal ==
  ASSUME NEW k, NEW n \in Int
  PROVE  /\ Shaped(Val(k, "none", n, TRUE)) /\ Plain(Val(k, "none", n, TRUE), k)
         /\ Val(k, "none", n, TRUE).k = k /\ Val(k, "none", n, TRUE).n = n
<1>1. Shaped(Val(k, "none", n, TRUE))
  BY ValShaped, Zenon
<1>2. /\ Val(k, "none", n, TRUE).k = k /\ Val(k, "none", n, TRUE).n = n
      /\ Val(k, "none", n, TRUE).of = "none" /\ Val(k, "none", n, TRUE).canon = TRUE
  BY DEF Val
<1> QED BY <1>1, <1>2, Zenon DEF Plain

LEMMA TextFields ==
  ASSUME NEW of, NEW n \in Int, NEW canon \in BOOLEAN
  PROVE  /\ Shaped(TextVal(of, n, canon)) /\ TextVal(of, n, canon).k = "text"
         /\ TextVal(of, n, canon).of = of /\ TextVal(of, n, canon).n = n
         /\ TextVal(of, n, canon).canon = canon
BY ValShaped, ValFields DEF TextVal

LEMMA NullVal == Shaped(Null) /\ Null.k = "null" /\ Null.n = 0 /\ Null # Err
<1>1. 0 \in Int
  OBVIOUS
<1>2. Shaped(Null)
  BY <1>1, ValShaped, Zenon DEF Null
<1>3. Null.k = "null" /\ Null.n = 0 /\ Null # Err
  BY DEF Null, Err, Val
<1> QED BY <1>2, <1>3

LEMMA SameVal ==
  ASSUME NEW v, Shaped(v), NEW w, Shaped(w),
         v.k = w.k, v.of = w.of, v.n = w.n, v.canon = w.canon
  PROVE  v = w
BY DEF Shaped

LEMMA WithKind ==
  ASSUME NEW v, Shaped(v), NEW x
  PROVE  [v EXCEPT !.k = x] = Val(x, v.of, v.n, v.canon)
<1> DEFINE of == v.of
           n == v.n
           canon == v.canon
           k == v.k
<1>1. v = Val(k, of, n, canon)
  BY DEF Shaped
<1> HIDE DEF of, n, canon, k
<1>2. [v EXCEPT !.k = x] = [Val(k, of, n, canon) EXCEPT !.k = x]
  BY <1>1
<1>3. [Val(k, of, n, canon) EXCEPT !.k = x] = Val(x, of, n, canon)
  BY DEF Val
<1> QED BY <1>2, <1>3 DEF of, n, canon

LEMMA JsonKinds ==
  ASSUME NEW j, IsJson(j)
  PROVE  /\ Shaped(j)
         /\ j.k \in {"null", "int", "real", "bool", "box", "text"}
         /\ j.k = "null" => j = Null
         /\ j.k = "int"  => Plain(j, "int") /\ Integral(j.n)
         /\ j.k = "real" => Plain(j, "real")
         /\ j.k = "bool" => Plain(j, "bool") /\ j.n \in {0, 1}
         /\ j.k = "box"  => Plain(j, "box")
         /\ j.k = "text" => IsText(j)
<1>1. Shaped(j)
  BY DEF IsJson, Shaped
<1>2. Null.k = "null"
  BY NullVal
<1>3. j.canon \in BOOLEAN
  BY DEF IsJson
<1>4. \/ j = Null
      \/ IsText(j)
      \/ j.k \in {"real", "box"} /\ Plain(j, j.k)
      \/ Plain(j, "int") /\ Integral(j.n)
      \/ Plain(j, "bool") /\ j.n \in {0, 1}
  BY <1>3 DEF IsJson, IsText, Plain
<1> QED BY <1>1, <1>2, <1>4 DEF Plain, IsText

LEMMA StoredAs ==
  ASSUME NEW col, NEW v
  PROVE  SqliteValue(col, v) =
           IF v.k = "uint" THEN TextVal("number", v.n, TRUE)
           ELSE IF v.k = "box" THEN TextVal("box", v.n, TRUE)
           ELSE IF v.k = "int" /\ col.type = "Real" THEN RealVal(v.n)
           ELSE v
BY DEF SqliteValue

LEMMA JsonCases ==
  ASSUME NEW col, NEW j
  PROVE  JsonToRow(col, j) =
           IF j.k = "null" THEN Checked(col, Null)
           ELSE IF col.type = "Integer" /\ j.k \in {"int", "real"}
           THEN IF j.k = "int" /\ FitsI64(j.n) THEN Checked(col, j) ELSE Err
           ELSE IF col.type = "Unsigned" /\ j.k \in {"int", "real"}
           THEN IF j.k = "int" /\ FitsU64(j.n) THEN Checked(col, [j EXCEPT !.k = "uint"]) ELSE Err
           ELSE IF col.type = "Real" /\ j.k \in {"int", "real"}
           THEN Checked(col, IF j.k = "int" /\ FitsI64(j.n) THEN j ELSE [j EXCEPT !.k = "real"])
           ELSE IF col.type = "Boolean" /\ j.k = "bool" THEN Checked(col, IntVal(j.n))
           ELSE IF col.type \in {"Text", "Timestamp"} /\ j.k = "text" THEN Checked(col, j)
           ELSE IF col.type = "Container" /\ j.k = "box" THEN Checked(col, j)
           ELSE Err
BY DEF JsonToRow

LEMMA AcceptedStored ==
  ASSUME NEW col, NEW v, Accepted(col, v)
  PROVE  /\ v # Err
         /\ GoodCell(col, SqliteValue(col, v))
<1>1. v # Err
  BY DEF Accepted, Err, Val, Null, Plain, IsText
<1>2. GoodCell(col, SqliteValue(col, v))
  <2>1. CASE v.k = "uint"
    <3>1. SqliteValue(col, v) = TextVal("number", v.n, TRUE)
      BY <2>1, StoredAs
    <3>2. col.type = "Unsigned" /\ FitsU64(v.n) /\ v.n \in Int
      BY <2>1 DEF Accepted, Null, Val, Shaped, Plain, IsText
    <3> QED BY <3>1, <3>2 DEF GoodCell, TextVal, Val, Shaped, IsText, Spelled
  <2>2. CASE v.k = "box"
    <3>1. SqliteValue(col, v) = TextVal("box", v.n, TRUE)
      BY <2>2, StoredAs
    <3>2. col.type = "Container" /\ v.n \in Int
      BY <2>2 DEF Accepted, Null, Val, Shaped, Plain, IsText
    <3> QED BY <3>1, <3>2 DEF GoodCell, TextVal, Val, Shaped, IsText, Spelled
  <2>3. CASE v.k = "int" /\ col.type = "Real"
    <3>1. SqliteValue(col, v) = RealVal(v.n)
      BY <2>3, StoredAs
    <3>2. v.n \in Int
      BY DEF Accepted, Shaped
    <3> QED BY <2>3, <3>1, <3>2 DEF GoodCell, RealVal, Val, Shaped, Plain
  <2>4. CASE v.k \notin {"uint", "box"} /\ ~(v.k = "int" /\ col.type = "Real")
    <3>1. SqliteValue(col, v) = v
      BY <2>4, StoredAs
    <3> QED BY <2>4, <3>1 DEF Accepted, GoodCell, Plain
  <2> QED BY <2>1, <2>2, <2>3, <2>4
<1> QED BY <1>1, <1>2

LEMMA JsonAccepted ==
  ASSUME NEW col, IsColumn(col), NEW j, IsJson(j), JsonToRow(col, j) # Err
  PROVE  Accepted(col, JsonToRow(col, j))
<1> USE JsonKinds
<1>1. CASE j.k = "null"
  <2>1. JsonToRow(col, j) = Checked(col, Null)
    BY <1>1, JsonCases
  <2> QED BY <2>1, NullVal DEF Checked, Valid, Accepted
<1>2. CASE col.type = "Integer" /\ j.k # "null"
  <2>1. JsonToRow(col, j) = j /\ j.k = "int" /\ FitsI64(j.n)
    BY <1>2, JsonCases DEF Checked
  <2> QED BY <1>2, <2>1 DEF Accepted
<1>3. CASE col.type = "Unsigned" /\ j.k # "null"
  <2>1. JsonToRow(col, j) = [j EXCEPT !.k = "uint"] /\ j.k = "int" /\ FitsU64(j.n)
    BY <1>3, JsonCases DEF Checked
  <2>2. j.of = "none" /\ j.canon = TRUE /\ j.n \in Int
    BY <2>1 DEF Plain, Shaped
  <2>3. [j EXCEPT !.k = "uint"] = Val("uint", "none", j.n, TRUE)
    BY <2>2, WithKind
  <2> DEFINE v == JsonToRow(col, j)
  <2>4. v = Val("uint", "none", j.n, TRUE)
    BY <2>1, <2>3
  <2> HIDE DEF v
  <2>5. Shaped(v) /\ Plain(v, "uint") /\ v.n = j.n
    <3> HIDE JsonKinds
    <3>1. j.n \in Int
      BY <2>2
    <3> QED BY <2>4, <3>1, PlainVal, Zenon
  <2>6. Accepted(col, v)
    BY <1>3, <2>1, <2>5 DEF Accepted
  <2> QED BY <2>6 DEF v
<1>4. CASE col.type = "Real" /\ j.k # "null"
  <2>1. j.k \in {"int", "real"}
    BY <1>4, JsonCases
  <2>2. j.of = "none" /\ j.canon = TRUE /\ j.n \in Int
    BY <2>1 DEF Plain, Shaped
  <2>3. CASE j.k = "int" /\ FitsI64(j.n)
    <3>1. JsonToRow(col, j) = j
      BY <1>4, <2>3, JsonCases DEF Checked
    <3> QED BY <1>4, <2>3, <3>1 DEF Accepted
  <2>4. CASE ~(j.k = "int" /\ FitsI64(j.n))
    <3>1. JsonToRow(col, j) = [j EXCEPT !.k = "real"]
      BY <1>4, <2>1, <2>4, JsonCases DEF Checked
    <3>2. [j EXCEPT !.k = "real"] = Val("real", "none", j.n, TRUE)
      BY <2>2, WithKind
    <3> DEFINE v == JsonToRow(col, j)
    <3>3. v = Val("real", "none", j.n, TRUE)
      BY <3>1, <3>2
    <3> HIDE DEF v
    <3>4. Shaped(v) /\ Plain(v, "real")
      BY <2>2, <3>3, PlainVal
    <3>5. Accepted(col, v)
      BY <1>4, <3>4 DEF Accepted
    <3> QED BY <3>5 DEF v
  <2> QED BY <2>3, <2>4
<1>5. CASE col.type = "Boolean" /\ j.k # "null"
  <2>1. JsonToRow(col, j) = IntVal(j.n) /\ j.k = "bool"
    BY <1>5, JsonCases DEF Checked
  <2>2. j.n \in {0, 1}
    BY <2>1
  <2>3. 2 * j.n \in {0, 2} /\ 2 * j.n \in Int
    BY <2>2
  <2> DEFINE v == JsonToRow(col, j)
  <2>4. v = Val("int", "none", 2 * j.n, TRUE)
    BY <2>1 DEF IntVal
  <2> HIDE DEF v
  <2>5. Shaped(v) /\ Plain(v, "int") /\ v.n = 2 * j.n
    BY <2>3, <2>4, PlainVal, ZenonT(60)
  <2>6. Accepted(col, v)
    BY <1>5, <2>3, <2>5 DEF Accepted
  <2> QED BY <2>6 DEF v
<1>6. CASE col.type \in {"Text", "Timestamp"} /\ j.k # "null"
  <2>1. JsonToRow(col, j) = j /\ j.k = "text" /\ Valid(col, j)
    BY <1>6, JsonCases DEF Checked
  <2> QED BY <1>6, <2>1 DEF Accepted, Valid
<1>7. CASE col.type = "Container" /\ j.k # "null"
  <2>1. JsonToRow(col, j) = j /\ j.k = "box"
    BY <1>7, JsonCases DEF Checked
  <2> QED BY <1>7, <2>1 DEF Accepted
<1> QED BY <1>1, <1>2, <1>3, <1>4, <1>5, <1>6, <1>7 DEF IsColumn, ColumnType

LEMMA RowAdded ==
  ASSUME NEW col, NEW v
  PROVE  AddRowValue(col, v) =
           IF v.k = "null" THEN Null
           ELSE IF v.k = "int" /\ col.type = "Integer" THEN v
           ELSE IF v.k = "uint" /\ col.type = "Unsigned" THEN v
           ELSE IF v.k \in {"real", "int"} /\ col.type = "Real" THEN RealVal(v.n)
           ELSE IF v.k = "int" /\ col.type = "Boolean" /\ v.n \in {0, 2} THEN BoolVal(v.n \div 2)
           ELSE IF v.k = "text" /\ col.type = "Timestamp" THEN Instant(v)
           ELSE IF v.k = "text" /\ col.type = "Text" THEN v
           ELSE IF v.k = "box" /\ col.type = "Container" THEN AddRowArray(v)
           ELSE Err
BY DEF AddRowValue

LEMMA SqlAdded ==
  ASSUME NEW col, NEW v
  PROVE  AddSqlValue(col, v) =
           IF v.k = "null" THEN Null
           ELSE IF v.k = "int" /\ col.type = "Integer" THEN v
           ELSE IF v.k = "text" /\ col.type = "Unsigned"
           THEN IF v.of = "number" /\ FitsU64(v.n) THEN Val("uint", "none", v.n, TRUE) ELSE Err
           ELSE IF v.k \in {"real", "int"} /\ col.type = "Real" THEN RealVal(v.n)
           ELSE IF v.k = "int" /\ col.type = "Boolean" /\ v.n \in {0, 2} THEN BoolVal(v.n \div 2)
           ELSE IF v.k = "text" /\ col.type = "Timestamp" THEN Instant(v)
           ELSE IF v.k = "text" /\ col.type = "Text" THEN v
           ELSE IF v.k = "text" /\ col.type = "Container" THEN AddSqlArray(v)
           ELSE Err
BY DEF AddSqlValue

LEMMA RefParsed ==
  ASSUME NEW col, NEW v
  PROVE  RowValueFromRef(col, v) =
           Checked(col, IF v.k = "text" /\ col.type = "Unsigned"
                        THEN IF v.of = "number" /\ FitsU64(v.n)
                             THEN Val("uint", "none", v.n, TRUE) ELSE Err
                        ELSE IF v.k = "text" /\ col.type = "Container"
                        THEN IF v.of = "box" THEN BoxVal(v.n) ELSE Err
                        ELSE v)
BY DEF RowValueFromRef

LEMMA StorableCases ==
  ASSUME NEW col, NEW v
  PROVE  Storable(col, v) =
           IF v.k = "null" THEN col.nullable
           ELSE IF v.k = "int" THEN col.type = "Integer" \/ (col.type = "Boolean" /\ v.n \in {0, 2})
           ELSE IF v.k = "real" THEN col.type = "Real"
           ELSE IF v.k = "text" THEN col.type \notin {"Integer", "Real", "Boolean"}
           ELSE FALSE
BY DEF Storable

\* A kind other than an error's.
LEMMA KindNotErr ==
  ASSUME NEW v, v.k # "err"
  PROVE  v # Err
BY DEF Err, Val

\* The encoders of the two paths agree.
LEMMA SameDocument ==
  ASSUME NEW col, IsColumn(col), NEW v, Accepted(col, v)
  PROVE  /\ AddRowValue(col, v) = AddSqlValue(col, SqliteValue(col, v))
         /\ AddRowValue(col, v) # Err
<1> DEFINE cell == SqliteValue(col, v)
<1>n. v.n \in Int
  BY DEF Accepted, Shaped
<1>1. CASE v.k = "null"
  <2>1. cell = v
    BY <1>1, StoredAs
  <2> QED BY <1>1, <2>1, RowAdded, SqlAdded, NullVal
<1>2. CASE col.type = "Integer" /\ v.k # "null"
  <2>1. v.k = "int"
    BY <1>2, NullVal DEF Accepted, Plain
  <2>2. cell = v
    BY <1>2, <2>1, StoredAs
  <2> QED BY <1>2, <2>1, <2>2, RowAdded, SqlAdded, KindNotErr
<1>3. CASE col.type = "Unsigned" /\ v.k # "null"
  <2>1. Shaped(v) /\ Plain(v, "uint") /\ FitsU64(v.n) /\ v.k = "uint"
    BY <1>3, NullVal DEF Accepted, Plain
  <2>2. cell = TextVal("number", v.n, TRUE)
    BY <2>1, StoredAs
  <2>3. cell.k = "text" /\ cell.of = "number" /\ cell.n = v.n
    BY <2>2 DEF TextVal, Val
  <2>4. AddSqlValue(col, cell) = Val("uint", "none", v.n, TRUE)
    BY <1>3, <2>1, <2>3, SqlAdded
  <2>5. v = Val("uint", "none", v.n, TRUE)
    BY <2>1 DEF Shaped, Plain
  <2>6. AddRowValue(col, v) = v
    BY <1>3, <2>1, RowAdded
  <2> QED BY <2>1, <2>4, <2>5, <2>6, KindNotErr
<1>4. CASE col.type = "Real" /\ v.k # "null"
  <2>1. v.k \in {"int", "real"}
    BY <1>4, NullVal DEF Accepted, Plain
  <2>2. cell.k = "real" /\ cell.n = v.n
    BY <1>4, <2>1, StoredAs DEF RealVal, Val
  <2>3. AddSqlValue(col, cell) = RealVal(v.n) /\ AddRowValue(col, v) = RealVal(v.n)
    BY <1>4, <2>1, <2>2, SqlAdded, RowAdded
  <2>4. RealVal(v.n) # Err
    BY DEF RealVal, Val, Err
  <2> QED BY <2>3, <2>4
<1>5. CASE col.type = "Boolean" /\ v.k # "null"
  <2>1. v.k = "int" /\ v.n \in {0, 2}
    BY <1>5, NullVal DEF Accepted, Plain
  <2>2. cell = v
    BY <1>5, <2>1, StoredAs
  <2>3. AddSqlValue(col, cell) = BoolVal(v.n \div 2) /\ AddRowValue(col, v) = BoolVal(v.n \div 2)
    BY <1>5, <2>1, <2>2, SqlAdded, RowAdded
  <2>4. BoolVal(v.n \div 2) # Err
    BY DEF BoolVal, Val, Err
  <2> QED BY <2>3, <2>4
<1>6. CASE col.type \in {"Text", "Timestamp"} /\ v.k # "null"
  <2>1. v.k = "text" /\ (col.type = "Timestamp" => v.of = "time")
    BY <1>6, NullVal DEF Accepted, IsText
  <2>2. cell = v
    BY <1>6, <2>1, StoredAs
  <2>3. AddSqlValue(col, cell) = AddRowValue(col, v)
    BY <1>6, <2>1, <2>2, SqlAdded, RowAdded
  <2>4. CASE col.type = "Text"
    BY <2>1, <2>3, <2>4, RowAdded, KindNotErr
  <2>5. CASE col.type = "Timestamp"
    <3>1. AddRowValue(col, v) = Val("time", "none", v.n - (v.n % 2), TRUE)
      BY <2>1, <2>5, RowAdded DEF Instant
    <3> QED BY <2>3, <3>1 DEF Val, Err
  <2> QED BY <1>6, <2>4, <2>5
<1>7. CASE col.type = "Container" /\ v.k # "null"
  <2>1. v.k = "box"
    BY <1>7, NullVal DEF Accepted, Plain
  <2>2. cell = TextVal("box", v.n, TRUE)
    BY <2>1, StoredAs
  <2>3. cell.k = "text" /\ cell.of = "box" /\ cell.n = v.n
    BY <2>2 DEF TextVal, Val
  <2>4. AddSqlValue(col, cell) = AddSqlArray(cell)
    BY <1>7, <2>3, SqlAdded
  <2>5. AddRowValue(col, v) = AddSqlArray(cell)
    BY <1>7, <2>1, <2>2, RowAdded DEF AddRowArray
  <2>6. AddSqlArray(cell) # Err
    BY <2>3 DEF AddSqlArray, BoxVal, Val, Err
  <2> QED BY <2>4, <2>5, <2>6
<1> QED BY <1>1, <1>2, <1>3, <1>4, <1>5, <1>6, <1>7 DEF IsColumn, ColumnType

\* A cell is read back as a value that would be stored as it.
LEMMA CellRead ==
  ASSUME NEW col, IsColumn(col), NEW cell, GoodCell(col, cell)
  PROVE  /\ Accepted(col, RowValueFromRef(col, cell))
         /\ SqliteValue(col, RowValueFromRef(col, cell)) = cell
         /\ Storable(col, cell)
         /\ AddSqlValue(col, cell) # Err
<1> DEFINE v == RowValueFromRef(col, cell)
<1>n. cell.n \in Int
  BY DEF GoodCell, Shaped
<1>1. Accepted(col, v) /\ SqliteValue(col, v) = cell
  <2>1. CASE cell.k = "null"
    <3>1. cell = Null /\ col.nullable
      BY <2>1 DEF GoodCell, Plain, IsText
    <3>2. v = Null
      BY <2>1, <3>1, RefParsed, NullVal DEF Checked, Valid
    <3>3. SqliteValue(col, Null) = Null
      BY NullVal, StoredAs
    <3> QED BY <3>1, <3>2, <3>3, NullVal DEF Accepted
  <2>2. CASE col.type = "Integer" /\ cell.k # "null"
    <3>1. Plain(cell, "int") /\ FitsI64(cell.n) /\ cell.k = "int"
      BY <2>2, NullVal DEF GoodCell, Plain
    <3>2. v = cell
      BY <2>2, <3>1, RefParsed DEF Checked, Valid
    <3>3. SqliteValue(col, cell) = cell
      BY <2>2, <3>1, StoredAs
    <3> QED BY <2>2, <3>1, <3>2, <3>3 DEF Accepted, GoodCell
  <2>3. CASE col.type = "Unsigned" /\ cell.k # "null"
    <3>1. Shaped(cell) /\ cell.k = "text" /\ cell.of = "number" /\ cell.canon = TRUE /\ FitsU64(cell.n)
      BY <2>3, NullVal DEF GoodCell, IsText
    <3> DEFINE w == Val("uint", "none", cell.n, TRUE)
    <3>2. Shaped(w) /\ Plain(w, "uint") /\ w.k = "uint" /\ w.n = cell.n
      BY <1>n, PlainVal, Zenon
    <3> HIDE DEF w
    <3>3. v = w
      BY <2>3, <3>1, <3>2, RefParsed DEF Checked, Valid, w
    <3>4. SqliteValue(col, w) = TextVal("number", cell.n, TRUE)
      BY <3>2, StoredAs
    <3>5. TextVal("number", cell.n, TRUE) = cell
      BY <3>1 DEF TextVal, Shaped
    <3>6. Accepted(col, w)
      BY <2>3, <3>1, <3>2 DEF Accepted
    <3> QED BY <3>3, <3>4, <3>5, <3>6
  <2>4. CASE col.type = "Real" /\ cell.k # "null"
    <3>1. Plain(cell, "real") /\ cell.k = "real"
      BY <2>4, NullVal DEF GoodCell, Plain
    <3>2. v = cell
      BY <2>4, <3>1, RefParsed DEF Checked, Valid
    <3>3. SqliteValue(col, cell) = cell
      BY <2>4, <3>1, StoredAs
    <3> QED BY <2>4, <3>1, <3>2, <3>3 DEF Accepted, GoodCell
  <2>5. CASE col.type = "Boolean" /\ cell.k # "null"
    <3>1. Plain(cell, "int") /\ cell.n \in {0, 2} /\ cell.k = "int"
      BY <2>5, NullVal DEF GoodCell, Plain
    <3>2. v = cell
      BY <2>5, <3>1, RefParsed DEF Checked, Valid
    <3>3. SqliteValue(col, cell) = cell
      BY <2>5, <3>1, StoredAs
    <3> QED BY <2>5, <3>1, <3>2, <3>3 DEF Accepted, GoodCell
  <2>6. CASE col.type \in {"Text", "Timestamp"} /\ cell.k # "null"
    <3>1. IsText(cell) /\ cell.k = "text" /\ (col.type = "Timestamp" => cell.of = "time")
      BY <2>6, NullVal DEF GoodCell, IsText
    <3>2. v = cell
      BY <2>6, <3>1, RefParsed DEF Checked, Valid
    <3>3. SqliteValue(col, cell) = cell
      BY <2>6, <3>1, StoredAs
    <3> QED BY <2>6, <3>1, <3>2, <3>3 DEF Accepted, GoodCell
  <2>7. CASE col.type = "Container" /\ cell.k # "null"
    <3>1. Shaped(cell) /\ cell.k = "text" /\ cell.of = "box" /\ cell.canon = TRUE
      BY <2>7, NullVal DEF GoodCell, IsText
    <3> DEFINE w == Val("box", "none", cell.n, TRUE)
    <3>2. Shaped(w) /\ Plain(w, "box") /\ w.k = "box" /\ w.n = cell.n
      BY <1>n, PlainVal, Zenon
    <3>w. w = BoxVal(cell.n)
      BY DEF BoxVal
    <3> HIDE DEF w
    <3>3. v = w
      BY <2>7, <3>1, <3>2, <3>w, RefParsed DEF Checked, Valid
    <3>4. SqliteValue(col, w) = TextVal("box", cell.n, TRUE)
      BY <3>2, StoredAs
    <3>5. TextVal("box", cell.n, TRUE) = cell
      BY <3>1 DEF TextVal, Shaped
    <3>6. Accepted(col, w)
      BY <2>7, <3>1, <3>2 DEF Accepted
    <3> QED BY <3>3, <3>4, <3>5, <3>6
  <2> QED BY <2>1, <2>2, <2>3, <2>4, <2>5, <2>6, <2>7 DEF IsColumn, ColumnType
<1>2. Storable(col, cell)
  BY StorableCases, NullVal DEF GoodCell, Plain, IsText, IsColumn
<1>3. AddSqlValue(col, cell) # Err
  BY <1>1, SameDocument
<1> QED BY <1>1, <1>2, <1>3

LEMMA Converted ==
  ASSUME NEW target, NEW v
  PROVE  LET json == IF v.k = "int" /\ target.type = "Boolean" /\ v.n \in {0, 2}
                     THEN BoolVal(v.n \div 2)
                     ELSE IF v.k \in {"int", "uint", "real"} /\ target.type = "Text"
                     THEN TextVal("number", v.n, TRUE)
                     ELSE IF v.k = "uint" THEN Val("int", "none", v.n, TRUE)
                     ELSE IF v.k = "real" /\ target.type = "Integer" /\ Integral(v.n)
                     THEN Val("int", "none", Saturate(v.n), TRUE)
                     ELSE IF v.k = "text" /\ target.type = "Integer" THEN ParseI64(v)
                     ELSE IF v.k = "text" /\ target.type = "Real" THEN ParseF64(v)
                     ELSE IF v.k = "text" /\ target.type = "Boolean" THEN ParseBool(v)
                     ELSE v
         IN  ConvertValue(target, v) = IF json = Err THEN Err ELSE JsonToRow(target, json)
<1> DEFINE spelled == TextVal("number", v.n, TRUE)
           json == CASE v.k = "int" /\ target.type = "Boolean" /\ v.n \in {0, 2} -> BoolVal(v.n \div 2)
                     [] v.k \in {"int", "uint", "real"} /\ target.type = "Text" -> spelled
                     [] v.k = "uint" /\ target.type # "Text" -> Val("int", "none", v.n, TRUE)
                     [] v.k = "real" /\ target.type = "Integer" /\ Integral(v.n) ->
                          Val("int", "none", Saturate(v.n), TRUE)
                     [] v.k = "text" /\ target.type = "Integer" -> ParseI64(v)
                     [] v.k = "text" /\ target.type = "Real"    -> ParseF64(v)
                     [] v.k = "text" /\ target.type = "Boolean" -> ParseBool(v)
                     [] OTHER -> v
<1>1. json = IF v.k = "int" /\ target.type = "Boolean" /\ v.n \in {0, 2}
             THEN BoolVal(v.n \div 2)
             ELSE IF v.k \in {"int", "uint", "real"} /\ target.type = "Text" THEN spelled
             ELSE IF v.k = "uint" THEN Val("int", "none", v.n, TRUE)
             ELSE IF v.k = "real" /\ target.type = "Integer" /\ Integral(v.n)
             THEN Val("int", "none", Saturate(v.n), TRUE)
             ELSE IF v.k = "text" /\ target.type = "Integer" THEN ParseI64(v)
             ELSE IF v.k = "text" /\ target.type = "Real" THEN ParseF64(v)
             ELSE IF v.k = "text" /\ target.type = "Boolean" THEN ParseBool(v)
             ELSE v
  OBVIOUS
<1>2. ConvertValue(target, v) = IF json = Err THEN Err ELSE JsonToRow(target, json)
  BY Zenon DEF ConvertValue
<1> HIDE DEF json
<1> QED BY <1>1, <1>2

LEMMA PlainJson ==
  ASSUME NEW v, Shaped(v), NEW k, Plain(v, k),
         \/ k \in {"real", "box"}
         \/ k = "int" /\ Integral(v.n)
         \/ k = "bool" /\ v.n \in {0, 1}
  PROVE  IsJson(v)
BY DEF Shaped, Plain, IsJson

LEMMA TextJson ==
  ASSUME NEW v, Shaped(v), IsText(v)
  PROVE  IsJson(v)
BY DEF Shaped, IsText, IsJson

LEMMA NullJson == IsJson(Null)
BY NullVal DEF IsJson, Shaped

LEMMA AcceptedJson ==
  ASSUME NEW col, NEW v, Accepted(col, v), v.k # "uint"
  PROVE  IsJson(v)
<1>1. Shaped(v)
  BY DEF Accepted
<1>2. \/ v = Null
      \/ Plain(v, "int") /\ Integral(v.n)
      \/ Plain(v, "real")
      \/ Plain(v, "box")
      \/ IsText(v)
  BY DEF Accepted, Plain, FitsI64, Integral
<1>3. CASE Plain(v, "int") /\ Integral(v.n)
  BY <1>1, <1>3, PlainJson
<1>4. CASE Plain(v, "real")
  BY <1>1, <1>4, PlainJson
<1>5. CASE Plain(v, "box")
  BY <1>1, <1>5, PlainJson
<1> QED BY <1>1, <1>2, <1>3, <1>4, <1>5, TextJson, NullJson

LEMMA SaturateIntegral ==
  ASSUME NEW n \in Int, Integral(n)
  PROVE  Saturate(n) \in Int /\ Integral(Saturate(n))
<1>1. MaxInt \in Int
  BY MaxIntAssumption
<1>2. (2 * MaxInt) % 2 = 0 /\ (-2 * (MaxInt + 1)) % 2 = 0
  BY <1>1
<1> QED BY <1>1, <1>2 DEF Saturate, Integral

\* A value made from a value that was kept, without a time in it.
LEMMA SameKept ==
  ASSUME NEW v, Kept(v), NEW w, w.n = v.n, ~(w.k = "text" /\ w.of = "time"),
         w.k \in {"int", "uint", "real"} \/ w.of = "number" =>
           v.k \in {"int", "uint", "real"} \/ v.of = "number"
  PROVE  Kept(w)
BY DEF Kept, Canon, Small

\* The numbers of a Boolean.
LEMMA BitKept ==
  ASSUME NEW w, w.n \in {0, 1, 2}, w.k # "text"
  PROVE  Kept(w)
<1>1. MaxInt \in Nat /\ MaxInt >= 1
  BY MaxIntAssumption
<1>2. w.n \div 2 \in {0, 1}
  OBVIOUS
<1>3. Small(w)
  BY <1>1, <1>2 DEF Small
<1> QED BY <1>3 DEF Kept, Canon

LEMMA NullKept == Kept(Null)
BY NullVal, BitKept

LEMMA JsonKept ==
  ASSUME NEW col, IsColumn(col), NEW j, IsJson(j), Kept(j), JsonToRow(col, j) # Err
  PROVE  Kept(JsonToRow(col, j))
<1> DEFINE v == JsonToRow(col, j)
<1>1. Accepted(col, v)
  BY JsonAccepted
<1>2. CASE j.k = "null"
  <2>1. v = Null
    BY <1>2, JsonCases DEF Checked
  <2> QED BY <2>1, NullKept
<1>3. CASE j.k # "null" /\ col.type \in {"Text", "Timestamp"}
  <2>1. v = j
    BY <1>3, JsonCases DEF Checked
  <2> QED BY <2>1
<1>4. CASE j.k # "null" /\ col.type = "Boolean"
  <2>1. v = IntVal(j.n) /\ j.k = "bool"
    BY <1>4, JsonCases DEF Checked
  <2>2. j.n \in {0, 1}
    BY <2>1, JsonKinds
  <2>3. v.n \in {0, 1, 2} /\ v.k # "text"
    BY <2>1, <2>2 DEF IntVal, Val
  <2> QED BY <2>3, BitKept
<1>5. CASE j.k # "null" /\ col.type \notin {"Text", "Timestamp", "Boolean"}
  <2>1. \/ v = j
        \/ j.k \in {"int", "real"} /\ \E k \in {"uint", "real"} : v = [j EXCEPT !.k = k]
    BY <1>5, JsonCases DEF Checked
  <2>2. CASE v = j
    BY <2>2
  <2>3. ASSUME NEW k \in {"uint", "real"}, j.k \in {"int", "real"}, v = [j EXCEPT !.k = k]
        PROVE  Kept(v)
    <3>1. v = Val(k, j.of, j.n, j.canon)
      BY <2>3, JsonKinds, WithKind
    <3>2. v.n = j.n /\ v.k = k
      BY <3>1, ValFields
    <3> HIDE DEF v
    <3> QED BY <2>3, <3>2, SameKept
  <2> QED BY <2>1, <2>2, <2>3
<1> QED BY <1>2, <1>3, <1>4, <1>5

LEMMA StoredKept ==
  ASSUME NEW col, NEW v, Kept(v)
  PROVE  Kept(SqliteValue(col, v))
<1>1. CASE v.k = "uint"
  <2> DEFINE w == TextVal("number", v.n, TRUE)
  <2>1. w.n = v.n /\ w.of = "number" /\ SqliteValue(col, v) = w
    BY <1>1, StoredAs DEF TextVal, Val
  <2> HIDE DEF w
  <2> QED BY <1>1, <2>1, SameKept
<1>2. CASE v.k = "box"
  <2> DEFINE w == TextVal("box", v.n, TRUE)
  <2>1. w.n = v.n /\ w.of = "box" /\ w.k = "text" /\ SqliteValue(col, v) = w
    BY <1>2, StoredAs DEF TextVal, Val
  <2> HIDE DEF w
  <2> QED BY <1>2, <2>1, SameKept
<1>3. CASE v.k = "int" /\ col.type = "Real"
  <2> DEFINE w == RealVal(v.n)
  <2>1. w.n = v.n /\ w.k = "real" /\ SqliteValue(col, v) = w
    BY <1>3, StoredAs DEF RealVal, Val
  <2> HIDE DEF w
  <2> QED BY <1>3, <2>1, SameKept
<1>4. CASE v.k \notin {"uint", "box"} /\ ~(v.k = "int" /\ col.type = "Real")
  BY <1>4, StoredAs
<1> QED BY <1>1, <1>2, <1>3, <1>4

LEMMA ReadKept ==
  ASSUME NEW col, IsColumn(col), NEW cell, GoodCell(col, cell), Kept(cell)
  PROVE  Kept(RowValueFromRef(col, cell))
<1> DEFINE v == RowValueFromRef(col, cell)
<1>1. Accepted(col, v)
  BY CellRead
<1>2. v # Err
  BY <1>1, AcceptedStored
<1>3. \/ v = cell
      \/ cell.k = "text" /\ cell.of = "number" /\ v = Val("uint", "none", cell.n, TRUE)
      \/ v = BoxVal(cell.n)
  BY <1>2, RefParsed DEF Checked
<1>4. CASE cell.of = "number" /\ v = Val("uint", "none", cell.n, TRUE)
  <2>1. v.n = cell.n /\ v.k = "uint" /\ v.of = "none"
    BY <1>4 DEF Val
  <2> HIDE DEF v
  <2>2. Kept(v)
    BY <1>4, <2>1, SameKept
  <2> QED BY <2>2 DEF v
<1>5. CASE v = BoxVal(cell.n)
  <2>1. v.n = cell.n /\ v.k = "box" /\ v.of = "none"
    BY <1>5 DEF Val, BoxVal
  <2> HIDE DEF v
  <2>2. Kept(v)
    BY <2>1, SameKept
  <2> QED BY <2>2 DEF v
<1> QED BY <1>3, <1>4, <1>5

\* The values and cells of a table, whatever their columns.
Proper(v) ==
  Shaped(v) /\ (v = Null \/ IsText(v) \/ \E k \in {"int", "uint", "real", "bool", "box"} : Plain(v, k))

LEMMA MeaningCases ==
  ASSUME NEW v, Proper(v)
  PROVE  Meaning(v) = IF v.k = "null" THEN <<"null", 0>>
                      ELSE IF v.k \in {"int", "uint", "real"} \/ v.of = "number" THEN <<"number", v.n>>
                      ELSE IF v.k = "bool" \/ v.of = "bool" THEN <<"number", 2 * v.n>>
                      ELSE IF v.k = "box" \/ v.of = "box" THEN <<"box", v.n>>
                      ELSE <<v.of, v.n>>
<1>1. Null.k = "null" /\ Null.of = "none"
  BY DEF Null, Val
<1>2. CASE v = Null
  BY <1>1, <1>2 DEF Meaning
<1>3. CASE IsText(v)
  BY <1>3 DEF Meaning, IsText
<1>4. ASSUME NEW k \in {"int", "uint", "real", "bool", "box"}, Plain(v, k)
      PROVE  Meaning(v) = IF v.k \in {"int", "uint", "real"} THEN <<"number", v.n>>
                          ELSE IF v.k = "bool" THEN <<"number", 2 * v.n>> ELSE <<"box", v.n>>
  BY <1>4 DEF Meaning, Plain
<1> QED BY <1>2, <1>3, <1>4 DEF Proper, Plain

LEMMA AcceptedProper ==
  ASSUME NEW col, NEW v, Accepted(col, v)
  PROVE  Proper(v)
BY DEF Accepted, Proper

LEMMA JsonProper ==
  ASSUME NEW j, IsJson(j)
  PROVE  Proper(j)
BY JsonKinds DEF Proper

LEMMA CellProper ==
  ASSUME NEW col, NEW v, GoodCell(col, v)
  PROVE  Proper(v)
BY DEF GoodCell, Proper

LEMMA StoredMeaning ==
  ASSUME NEW col, NEW v, Accepted(col, v)
  PROVE  Meaning(SqliteValue(col, v)) = Meaning(v)
<1> DEFINE w == SqliteValue(col, v)
<1>1. Proper(v) /\ Proper(w)
  BY AcceptedProper, AcceptedStored, CellProper
<1>2. CASE v.k \in {"uint", "box"} \/ (v.k = "int" /\ col.type = "Real")
  <2>1. v.k # "text" /\ Null.k = "null"
    BY <1>2, NullVal
  <2>2. v.of = "none"
    BY <1>1, <1>2, <2>1 DEF Proper, IsText, Plain
  <2>3. /\ v.k = "uint" => w.k = "text" /\ w.of = "number" /\ w.n = v.n
        /\ v.k = "box" => w.k = "text" /\ w.of = "box" /\ w.n = v.n
        /\ v.k = "int" => w.k = "real" /\ w.of = "none" /\ w.n = v.n
    BY <1>2, StoredAs DEF TextVal, RealVal, Val
  <2> HIDE DEF w
  <2>4. Meaning(w) = Meaning(v)
    BY <1>1, <1>2, <2>2, <2>3, MeaningCases
  <2> QED BY <2>4 DEF w
<1>3. CASE ~(v.k \in {"uint", "box"} \/ (v.k = "int" /\ col.type = "Real"))
  BY <1>3, StoredAs
<1> QED BY <1>2, <1>3

LEMMA ReadMeaning ==
  ASSUME NEW col, IsColumn(col), NEW cell, GoodCell(col, cell)
  PROVE  Meaning(RowValueFromRef(col, cell)) = Meaning(cell)
<1>1. Accepted(col, RowValueFromRef(col, cell)) /\ SqliteValue(col, RowValueFromRef(col, cell)) = cell
  BY CellRead
<1> QED BY <1>1, StoredMeaning

LEMMA JsonMeaning ==
  ASSUME NEW col, IsColumn(col), NEW j, IsJson(j), JsonToRow(col, j) # Err
  PROVE  Meaning(JsonToRow(col, j)) = Meaning(j)
<1> DEFINE v == JsonToRow(col, j)
<1>1. Proper(j) /\ Proper(v)
  BY JsonProper, JsonAccepted, AcceptedProper
<1>2. CASE j.k = "null"
  <2>1. v = Null /\ j = Null
    BY <1>2, JsonCases, JsonKinds DEF Checked
  <2> QED BY <2>1
<1>3. CASE j.k = "bool"
  <2>1. v = IntVal(j.n)
    BY <1>3, JsonCases DEF Checked
  <2>a. j.of = "none"
    BY <1>3, JsonKinds DEF Plain
  <2>2. v.k = "int" /\ v.n = 2 * j.n /\ j.of = "none"
    BY <2>1, <2>a DEF IntVal, Val
  <2> HIDE DEF v
  <2>3. Meaning(v) = Meaning(j)
    BY <1>1, <1>3, <2>2, MeaningCases
  <2> QED BY <2>3 DEF v
<1>4. CASE j.k \notin {"null", "bool"}
  <2>1. \/ v = j
        \/ j.k \in {"int", "real"} /\ \E k \in {"uint", "real"} : v = [j EXCEPT !.k = k]
    BY <1>4, JsonCases DEF Checked
  <2>2. ASSUME NEW k \in {"uint", "real"}, j.k \in {"int", "real"}, v = [j EXCEPT !.k = k]
        PROVE  Meaning(v) = Meaning(j)
    <3>1. v = Val(k, j.of, j.n, j.canon)
      BY <2>2, JsonKinds, WithKind
    <3>2. v.n = j.n /\ v.k = k
      BY <3>1, ValFields
    <3> HIDE DEF v
    <3> QED BY <1>1, <2>2, <3>2, MeaningCases
  <2> HIDE DEF v
  <2>3. Meaning(v) = Meaning(j)
    BY <2>1, <2>2
  <2> QED BY <2>3 DEF v
<1> QED BY <1>2, <1>3, <1>4

\* JSON that says what a value says.
Faithful(json, v) == IsJson(json) /\ Kept(json) /\ (SmallNumbers => Meaning(json) = Meaning(v))

\* A conversion yields a value of the new column, which says the same, or fails.
LEMMA ConvertAccepted ==
  ASSUME NEW col, NEW target, IsColumn(target), NEW v, Accepted(col, v), Kept(v),
         ConvertValue(target, v) # Err
  PROVE  /\ Accepted(target, ConvertValue(target, v)) /\ Kept(ConvertValue(target, v))
         /\ SmallNumbers => Meaning(ConvertValue(target, v)) = Meaning(v)
<1> SUFFICES ASSUME NEW json, Faithful(json, v) \/ json = Err,
                    ConvertValue(target, v) = IF json = Err THEN Err ELSE JsonToRow(target, json)
             PROVE  /\ Accepted(target, ConvertValue(target, v)) /\ Kept(ConvertValue(target, v))
                    /\ SmallNumbers => Meaning(ConvertValue(target, v)) = Meaning(v)
  <2>n. v.n \in Int /\ Shaped(v) /\ Proper(v)
    BY AcceptedProper DEF Accepted, Shaped
  <2>p. v.k \in {"int", "uint", "real"} => v.of = "none"
    BY <2>n, NullVal DEF Proper, Plain, IsText
  <2>1. CASE v.k = "int" /\ target.type = "Boolean" /\ v.n \in {0, 2}
    <3> DEFINE n == v.n \div 2
               w == Val("bool", "none", n, TRUE)
    <3>1. n \in {0, 1} /\ n \in Int
      BY <2>1
    <3>2. ConvertValue(target, v) = IF w = Err THEN Err ELSE JsonToRow(target, w)
      BY <2>1, Converted DEF BoolVal
    <3> HIDE DEF n
    <3>3. Shaped(w) /\ Plain(w, "bool") /\ w.n = n
      BY <3>1, PlainVal, Zenon
    <3> HIDE DEF w
    <3>4. IsJson(w)
      BY <3>1, <3>3, PlainJson
    <3>5. Kept(w)
      BY <3>1, <3>3, BitKept DEF Plain
    <3>6. 2 * n = v.n
      BY <2>1 DEF n
    <3>7. Meaning(w) = Meaning(v)
      BY <2>1, <2>n, <2>p, <3>3, <3>4, <3>6, MeaningCases, JsonProper DEF Plain
    <3> QED BY <3>2, <3>4, <3>5, <3>7 DEF Faithful
  <2>2. CASE v.k \in {"int", "uint", "real"} /\ target.type = "Text"
    <3> DEFINE n == v.n
               w == TextVal("number", n, TRUE)
    <3>1. n \in Int
      BY <2>n
    <3>2. ConvertValue(target, v) = IF w = Err THEN Err ELSE JsonToRow(target, w)
      BY <2>2, Converted
    <3> HIDE DEF n
    <3>3. Shaped(w) /\ w.k = "text" /\ w.of = "number" /\ w.n = n
      BY <3>1, TextFields, Zenon
    <3> HIDE DEF w
    <3>4. IsJson(w)
      BY <3>3, TextJson DEF IsText, Spelled
    <3>5. Kept(w)
      BY <2>2, <3>3, SameKept DEF n
    <3>6. Meaning(w) = Meaning(v)
      BY <2>2, <2>n, <2>p, <3>3, <3>4, MeaningCases, JsonProper DEF n
    <3> QED BY <3>2, <3>4, <3>5, <3>6 DEF Faithful
  <2>3. CASE v.k = "uint" /\ target.type # "Text"
    <3> DEFINE n == v.n
               w == Val("int", "none", n, TRUE)
    <3>1. n \in Int /\ Integral(n)
      BY <2>n, <2>3 DEF Accepted, Null, Val, Plain, IsText, FitsU64
    <3>2. ConvertValue(target, v) = IF w = Err THEN Err ELSE JsonToRow(target, w)
      BY <2>3, Converted
    <3> HIDE DEF n
    <3>3. Shaped(w) /\ Plain(w, "int") /\ w.n = n
      BY <3>1, PlainVal, Zenon
    <3> HIDE DEF w
    <3>4. IsJson(w)
      BY <3>1, <3>3, PlainJson
    <3>5. Kept(w)
      BY <2>3, <3>3, SameKept DEF n, Plain
    <3>6. Meaning(w) = Meaning(v)
      BY <2>3, <2>n, <2>p, <3>3, <3>4, MeaningCases, JsonProper DEF n, Plain
    <3> QED BY <3>2, <3>4, <3>5, <3>6 DEF Faithful
  <2>4. CASE v.k = "real" /\ target.type = "Integer" /\ Integral(v.n)
    <3> DEFINE n == Saturate(v.n)
               w == Val("int", "none", n, TRUE)
    <3>1. n \in Int /\ Integral(n)
      BY <2>n, <2>4, SaturateIntegral
    <3>2. ConvertValue(target, v) = IF w = Err THEN Err ELSE JsonToRow(target, w)
      BY <2>4, Converted
    <3> HIDE DEF n
    <3>3. Shaped(w) /\ Plain(w, "int") /\ w.n = n
      BY <3>1, PlainVal, Zenon
    <3> HIDE DEF w
    <3>4. IsJson(w)
      BY <3>1, <3>3, PlainJson
    <3>5. SmallNumbers => n = v.n
      BY <2>n, <2>4, MaxIntAssumption DEF Kept, Small, Saturate, n
    <3>6. Kept(w)
      BY <2>4, <3>3, <3>5 DEF Kept, Small, Canon, Plain
    <3>7. SmallNumbers => Meaning(w) = Meaning(v)
      BY <2>4, <2>n, <2>p, <3>3, <3>4, <3>5, MeaningCases, JsonProper DEF Plain
    <3> QED BY <3>2, <3>4, <3>6, <3>7 DEF Faithful
  <2>5. CASE v.k = "text" /\ target.type = "Integer"
    <3> DEFINE w == ParseI64(v)
               u == Val("int", "none", v.n, TRUE)
    <3>1. ConvertValue(target, v) = IF w = Err THEN Err ELSE JsonToRow(target, w)
      BY <2>5, Converted
    <3>2. w = Err \/ (w = u /\ Integral(v.n) /\ v.of = "number")
      BY DEF ParseI64, FitsI64
    <3>3. Shaped(u) /\ Plain(u, "int") /\ u.n = v.n
      BY <2>n, PlainVal, Zenon
    <3> HIDE DEF w, u
    <3>4. w # Err => IsJson(w) /\ Kept(w)
      BY <3>2, <3>3, PlainJson, SameKept DEF Plain
    <3>5. w # Err => Meaning(w) = Meaning(v)
      BY <2>5, <2>n, <3>2, <3>3, <3>4, MeaningCases, JsonProper DEF Plain
    <3> QED BY <3>1, <3>4, <3>5 DEF Faithful
  <2>6. CASE v.k = "text" /\ target.type = "Real"
    <3> DEFINE w == ParseF64(v)
               u == Val("real", "none", v.n, TRUE)
    <3>1. ConvertValue(target, v) = IF w = Err THEN Err ELSE JsonToRow(target, w)
      BY <2>6, Converted
    <3>2. w = Err \/ (w = u /\ v.of = "number")
      BY DEF ParseF64, RealVal
    <3>3. Shaped(u) /\ Plain(u, "real") /\ u.n = v.n
      BY <2>n, PlainVal, Zenon
    <3> HIDE DEF w, u
    <3>4. w # Err => IsJson(w) /\ Kept(w)
      BY <3>2, <3>3, PlainJson, SameKept DEF Plain
    <3>5. w # Err => Meaning(w) = Meaning(v)
      BY <2>6, <2>n, <3>2, <3>3, <3>4, MeaningCases, JsonProper DEF Plain
    <3> QED BY <3>1, <3>4, <3>5 DEF Faithful
  <2>7. CASE v.k = "text" /\ target.type = "Boolean"
    <3> DEFINE w == ParseBool(v)
               u == Val("bool", "none", v.n, TRUE)
    <3>1. ConvertValue(target, v) = IF w = Err THEN Err ELSE JsonToRow(target, w)
      BY <2>7, Converted
    <3>2. w = Err \/ (w = u /\ v.of = "bool")
      BY DEF ParseBool, BoolVal
    <3>3. Shaped(u) /\ Plain(u, "bool") /\ u.n = v.n
      BY <2>n, PlainVal, Zenon
    <3>4. v.of = "bool" => v.n \in {0, 1}
      BY <2>7, NullVal DEF Accepted, Plain, IsText
    <3> HIDE DEF w, u
    <3>5. v.of = "bool" => IsJson(u) /\ u.n \in {0, 1, 2} /\ u.k # "text"
      BY <3>3, <3>4, PlainJson DEF Plain
    <3>6. w # Err => IsJson(w) /\ Kept(w)
      BY <3>2, <3>5, BitKept
    <3>7. w # Err => Meaning(w) = Meaning(v)
      BY <2>7, <2>n, <3>2, <3>3, <3>6, MeaningCases, JsonProper DEF Plain
    <3> QED BY <3>1, <3>6, <3>7 DEF Faithful
  <2>8. CASE /\ ~(v.k = "int" /\ target.type = "Boolean" /\ v.n \in {0, 2})
             /\ ~(v.k \in {"int", "uint", "real"} /\ target.type = "Text")
             /\ v.k # "uint"
             /\ ~(v.k = "real" /\ target.type = "Integer" /\ Integral(v.n))
             /\ ~(v.k = "text" /\ target.type \in {"Integer", "Real", "Boolean"})
    <3>1. ConvertValue(target, v) = IF v = Err THEN Err ELSE JsonToRow(target, v)
      BY <2>8, Converted
    <3> QED BY <2>8, <3>1, AcceptedJson DEF Faithful
  <2> QED BY <2>1, <2>2, <2>3, <2>4, <2>5, <2>6, <2>7, <2>8
<1>1. Faithful(json, v) /\ ConvertValue(target, v) = JsonToRow(target, json)
  OBVIOUS
<1>2. Accepted(target, JsonToRow(target, json)) /\ Kept(JsonToRow(target, json))
  BY <1>1, JsonAccepted, JsonKept DEF Faithful
<1>3. Meaning(JsonToRow(target, json)) = Meaning(json)
  BY <1>1, JsonMeaning DEF Faithful
<1> QED BY <1>1, <1>2, <1>3 DEF Faithful

-----------------------------------------------------------------------------
(* What an ETag is computed from, and what a client reads.                 *)

LEMMA EtagCases ==
  ASSUME NEW col, NEW v
  PROVE  EtagValue(col, v) = IF v.k = "int" /\ col.type = "Boolean" THEN BoolVal(v.n \div 2)
                             ELSE IF v.k = "uint" THEN Val("int", "none", v.n, TRUE) ELSE v
BY DEF EtagValue

LEMMA OwnedCases ==
  ASSUME NEW v
  PROVE  ReadFast(v) = IF v = Null THEN Null
                       ELSE IF v.k = "uint" THEN Val("int", "none", v.n, TRUE)
                       ELSE IF v.k = "time" THEN TextVal("time", v.n, TRUE) ELSE v
<1>1. OwnedToJson(v) = IF v.k = "uint" THEN Val("int", "none", v.n, TRUE)
                       ELSE IF v.k = "time" THEN TextVal("time", v.n, TRUE) ELSE v
  BY DEF OwnedToJson
<1> HIDE DEF OwnedToJson
<1> QED BY <1>1 DEF ReadFast

LEMMA ReadsAsHashed ==
  ASSUME NEW col, IsColumn(col), NEW v, Accepted(col, v), Canon(v),
         ~(col.type = "Real" /\ v.k = "int")
  PROVE  EtagValue(col, v) = ReadFast(AddRowValue(col, v))
<1> DEFINE doc == AddRowValue(col, v)
<1>n. v.n \in Int /\ Shaped(v)
  BY DEF Accepted, Shaped
<1>1. CASE v.k = "null"
  <2>1. v = Null
    BY <1>1 DEF Accepted, Plain, IsText
  <2>2. doc = Null /\ EtagValue(col, v) = v
    BY <1>1, RowAdded, EtagCases
  <2> QED BY <2>1, <2>2, OwnedCases
<1>2. CASE col.type \in {"Integer", "Unsigned", "Text"} /\ v.k # "null"
  <2>1. v.k \in {"int", "uint", "text"}
    BY <1>2, NullVal DEF Accepted, Plain, IsText
  <2>2. doc = v
    BY <1>2, <2>1, RowAdded, NullVal DEF Accepted, Plain, IsText
  <2>3. v # Null
    BY <2>1, NullVal
  <2>4. ReadFast(v) = IF v.k = "uint" THEN Val("int", "none", v.n, TRUE) ELSE v
    BY <2>1, <2>3, OwnedCases
  <2>5. EtagValue(col, v) = IF v.k = "uint" THEN Val("int", "none", v.n, TRUE) ELSE v
    BY <1>2, EtagCases
  <2> QED BY <2>2, <2>4, <2>5
<1>3. CASE col.type = "Real" /\ v.k # "null"
  <2>1. v.k = "real" /\ v.of = "none" /\ v.canon = TRUE
    BY <1>3, NullVal DEF Accepted, Plain
  <2>2. v = RealVal(v.n)
    BY <1>n, <2>1 DEF Shaped, RealVal
  <2>3. doc = v
    BY <1>3, <2>1, <2>2, RowAdded
  <2>4. v # Null
    BY <2>1, NullVal
  <2>5. ReadFast(v) = v /\ EtagValue(col, v) = v
    BY <2>1, <2>4, OwnedCases, EtagCases
  <2> QED BY <2>3, <2>5
<1>4. CASE col.type = "Boolean" /\ v.k # "null"
  <2>1. v.k = "int" /\ v.n \in {0, 2}
    BY <1>4, NullVal DEF Accepted, Plain
  <2> DEFINE b == BoolVal(v.n \div 2)
  <2>2. doc = b /\ EtagValue(col, v) = b
    BY <1>4, <2>1, RowAdded, EtagCases
  <2>3. b.k = "bool"
    BY DEF BoolVal, Val
  <2> HIDE DEF b
  <2>4. b # Null
    BY <2>3, NullVal
  <2>5. ReadFast(b) = b
    BY <2>3, <2>4, OwnedCases
  <2> QED BY <2>2, <2>5
<1>5. CASE col.type = "Timestamp" /\ v.k # "null"
  <2>1. v.k = "text" /\ v.of = "time"
    BY <1>5, NullVal DEF Accepted, IsText
  <2>2. v.canon = TRUE /\ v.n % 2 = 0
    BY <2>1 DEF Canon, Integral
  <2>3. v.n - (v.n % 2) = v.n
    BY <1>n, <2>2
  <2> DEFINE t == Val("time", "none", v.n, TRUE)
  <2>4. doc = t
    BY <1>5, <2>1, <2>3, RowAdded DEF Instant
  <2>5. t.k = "time" /\ t.n = v.n
    BY DEF Val
  <2> HIDE DEF t
  <2>6. t # Null
    BY <2>5, NullVal
  <2>7. ReadFast(t) = TextVal("time", v.n, TRUE)
    BY <2>5, <2>6, OwnedCases
  <2>8. TextVal("time", v.n, TRUE) = v
    BY <1>n, <2>1, <2>2 DEF TextVal, Shaped
  <2>9. EtagValue(col, v) = v
    BY <1>5, <2>1, EtagCases
  <2> QED BY <2>4, <2>7, <2>8, <2>9
<1>6. CASE col.type = "Container" /\ v.k # "null"
  <2>1. v.k = "box" /\ v.of = "none" /\ v.canon = TRUE
    BY <1>6, NullVal DEF Accepted, Plain
  <2>2. v = BoxVal(v.n)
    BY <1>n, <2>1 DEF Shaped, BoxVal
  <2>3. AddRowArray(v) = BoxVal(v.n)
    BY DEF AddRowArray, AddSqlArray, TextVal, Val
  <2>4. doc = v
    BY <1>6, <2>1, <2>2, <2>3, RowAdded
  <2>5. v # Null
    BY <2>1, NullVal
  <2>6. ReadFast(v) = v /\ EtagValue(col, v) = v
    BY <2>1, <2>5, OwnedCases, EtagCases
  <2> QED BY <2>4, <2>6
<1> QED BY <1>1, <1>2, <1>3, <1>4, <1>5, <1>6 DEF IsColumn, ColumnType

\* etag_value of a cell and get_row of its document spell the same value.
LEMMA CellReadsAsHashed ==
  ASSUME NEW col, IsColumn(col), NEW cell, GoodCell(col, cell), Canon(cell)
  PROVE  EtagValue(col, RowValueFromRef(col, cell)) = ReadFast(AddSqlValue(col, cell))
<1> DEFINE v == RowValueFromRef(col, cell)
<1>1. Accepted(col, v) /\ SqliteValue(col, v) = cell
  BY CellRead
<1>2. v # Err
  BY <1>1, AcceptedStored
<1>3. AddSqlValue(col, cell) = AddRowValue(col, v)
  BY <1>1, SameDocument
<1>4. col.type \notin {"Unsigned", "Container"} => v = cell
  BY <1>2, RefParsed DEF Checked
<1>5. Canon(v)
  <2>1. CASE col.type \in {"Unsigned", "Container"}
    <3> HIDE DEF v
    <3>1. v.k # "text"
      BY <1>1, <2>1, NullVal DEF Accepted, Plain
    <3> QED BY <3>1 DEF Canon
  <2>2. CASE col.type \notin {"Unsigned", "Container"}
    BY <1>4, <2>2
  <2> QED BY <2>1, <2>2
<1>6. ~(col.type = "Real" /\ v.k = "int")
  <2>1. col.type = "Real" => cell.k # "int"
    BY NullVal DEF GoodCell, Plain
  <2> QED BY <1>4, <2>1
<1> HIDE DEF v
<1>7. EtagValue(col, v) = ReadFast(AddRowValue(col, v))
  BY <1>1, <1>5, <1>6, ReadsAsHashed
<1> QED BY <1>3, <1>7 DEF v

-----------------------------------------------------------------------------
(* Rows, operations and documents.                                         *)

\* The names that definitions and schema changes use for columns.
ColumnNames ==
  {x \in Spellings :
     \/ \E d \in Definitions : x \in DOMAIN d
     \/ \E changes \in SchemaChanges : \E i \in DOMAIN changes : x \in {changes[i].name, changes[i].to}}

IsDefinition(d) == DOMAIN d \subseteq ColumnNames /\ \A c \in DOMAIN d : IsColumn(d[c])

Sent(values) == IsObject(values) /\ \A f \in DOMAIN values : Kept(values[f])

AcceptedRow(d, row) ==
  DOMAIN row \subseteq DOMAIN d /\ \A c \in DOMAIN row : Accepted(d[c], row[c]) /\ Kept(row[c])

GoodRow(d, row) ==
  /\ row = [c \in DOMAIN d |-> row[c]]
  /\ \A c \in DOMAIN d : GoodCell(d[c], row[c]) /\ Kept(row[c])

GoodRows(d, stored) == DOMAIN stored \subseteq Keys /\ \A k \in DOMAIN stored : GoodRow(d, stored[k])

\* An operation says what has become of its row.
Says(d, op, k, stored) ==
  /\ op.live <=> k \in DOMAIN stored
  /\ k \in DOMAIN stored => op.doc = DocOfCells(d, stored[k])
  /\ \A c \in DOMAIN op.doc : op.doc[c] # Err

SameRow(k, old, new) ==
  (k \in DOMAIN new <=> k \in DOMAIN old) /\ (k \in DOMAIN new => new[k] = old[k])

\* The operations account for every difference between the rows.
Follows(d, ops, old, new) ==
  /\ DOMAIN ops \subseteq Keys
  /\ \A k \in DOMAIN ops : Says(d, ops[k], k, new)
  /\ \A k \in Keys : k \in DOMAIN ops \/ SameRow(k, old, new)

Published(d, docs, k, stored) ==
  /\ k \in DOMAIN stored <=> k \in DOMAIN docs
  /\ k \in DOMAIN stored => docs[k] = DocOfCells(d, stored[k])

\* The documents with the operations applied are those of the rows.
Tracks(d, ops, docs, stored) ==
  /\ DOMAIN ops \subseteq Keys /\ DOMAIN docs \subseteq Keys
  /\ \A k \in DOMAIN ops : Says(d, ops[k], k, stored)
  /\ \A k \in Keys : k \in DOMAIN ops \/ Published(d, docs, k, stored)

LEMMA OverApply ==
  ASSUME NEW f, NEW g
  PROVE  /\ DOMAIN Over(f, g) = DOMAIN f \cup DOMAIN g
         /\ \A x \in DOMAIN f : Over(f, g)[x] = f[x]
         /\ \A x \in DOMAIN g \ DOMAIN f : Over(f, g)[x] = g[x]
BY DEF Over

LEMMA SingleApply ==
  ASSUME NEW x, NEW v
  PROVE  DOMAIN Single(x, v) = {x} /\ Single(x, v)[x] = v
BY DEF Single

LEMMA FollowsOver ==
  ASSUME NEW d, NEW first, NEW second, NEW old, NEW mid, NEW new,
         Follows(d, first, old, mid), Follows(d, second, mid, new)
  PROVE  Follows(d, Over(second, first), old, new)
<1> DEFINE ops == Over(second, first)
<1>1. /\ DOMAIN ops = DOMAIN second \cup DOMAIN first
      /\ \A k \in DOMAIN second : ops[k] = second[k]
      /\ \A k \in DOMAIN first \ DOMAIN second : ops[k] = first[k]
  BY OverApply
<1> HIDE DEF ops
<1>2. ASSUME NEW k \in DOMAIN ops PROVE Says(d, ops[k], k, new)
  <2>1. CASE k \in DOMAIN second
    BY <1>1, <2>1 DEF Follows
  <2>2. CASE k \in DOMAIN first \ DOMAIN second
    <3>1. Says(d, first[k], k, mid)
      BY <2>2 DEF Follows
    <3>2. SameRow(k, mid, new)
      BY <2>2 DEF Follows
    <3> QED BY <1>1, <2>2, <3>1, <3>2 DEF Says, SameRow
  <2> QED BY <1>1, <1>2, <2>1, <2>2
<1>3. ASSUME NEW k \in Keys \ DOMAIN ops
      PROVE  SameRow(k, old, new)
  <2>1. SameRow(k, old, mid) /\ SameRow(k, mid, new)
    BY <1>1, <1>3 DEF Follows
  <2> QED BY <2>1 DEF SameRow
<1>4. DOMAIN ops \subseteq Keys
  BY <1>1 DEF Follows
<1>5. Follows(d, ops, old, new)
  BY <1>2, <1>3, <1>4 DEF Follows
<1> QED BY <1>5 DEF ops

LEMMA TracksOver ==
  ASSUME NEW d, NEW first, NEW second, NEW docs, NEW mid, NEW new,
         Tracks(d, first, docs, mid), Follows(d, second, mid, new)
  PROVE  Tracks(d, Over(second, first), docs, new)
<1> DEFINE ops == Over(second, first)
<1>1. /\ DOMAIN ops = DOMAIN second \cup DOMAIN first
      /\ \A k \in DOMAIN second : ops[k] = second[k]
      /\ \A k \in DOMAIN first \ DOMAIN second : ops[k] = first[k]
  BY OverApply
<1> HIDE DEF ops
<1>2. ASSUME NEW k \in DOMAIN ops PROVE Says(d, ops[k], k, new)
  <2>1. CASE k \in DOMAIN second
    BY <1>1, <2>1 DEF Follows
  <2>2. CASE k \in DOMAIN first \ DOMAIN second
    <3>1. Says(d, first[k], k, mid)
      BY <2>2 DEF Tracks
    <3>2. SameRow(k, mid, new)
      BY <2>2 DEF Follows, Tracks
    <3> QED BY <1>1, <2>2, <3>1, <3>2 DEF Says, SameRow
  <2> QED BY <1>1, <1>2, <2>1, <2>2
<1>3. ASSUME NEW k \in Keys \ DOMAIN ops
      PROVE  Published(d, docs, k, new)
  <2>1. k \in Keys \ DOMAIN second /\ k \in Keys \ DOMAIN first
    BY <1>1, <1>3
  <2>2. SameRow(k, mid, new)
    BY <2>1 DEF Follows
  <2>3. Published(d, docs, k, mid)
    BY <2>1 DEF Tracks
  <2> QED BY <2>2, <2>3 DEF SameRow, Published
<1>4. DOMAIN ops \subseteq Keys /\ DOMAIN docs \subseteq Keys
  BY <1>1 DEF Follows, Tracks
<1>5. Tracks(d, ops, docs, new)
  BY <1>2, <1>3, <1>4 DEF Tracks
<1> QED BY <1>5 DEF ops

\* A commit leaves nothing to apply.
LEMMA CommitTracks ==
  ASSUME NEW d, NEW ops, NEW stored, DOMAIN stored \subseteq Keys, Tracks(d, ops, index, stored)
  PROVE  /\ DOMAIN Committed(ops) = DOMAIN stored
         /\ \A k \in DOMAIN stored : Committed(ops)[k] = DocOfCells(d, stored[k])
         /\ Tracks(d, <<>>, Committed(ops), stored)
<1>1. /\ DOMAIN Committed(ops)
           = {k \in Keys : IF k \in DOMAIN ops THEN ops[k].live ELSE k \in DOMAIN index}
      /\ \A k \in DOMAIN Committed(ops) :
           Committed(ops)[k] = IF k \in DOMAIN ops THEN ops[k].doc ELSE index[k]
  BY DEF Committed
<1>2. ASSUME NEW k \in Keys PROVE k \in DOMAIN Committed(ops) <=> k \in DOMAIN stored
  <2>1. CASE k \in DOMAIN ops
    BY <1>1, <2>1 DEF Tracks, Says
  <2>2. CASE k \notin DOMAIN ops
    BY <1>1, <2>2 DEF Tracks, Published
  <2> QED BY <2>1, <2>2
<1>3. DOMAIN Committed(ops) = DOMAIN stored
  BY <1>1, <1>2
<1>4. ASSUME NEW k \in DOMAIN stored PROVE Committed(ops)[k] = DocOfCells(d, stored[k])
  <2>1. CASE k \in DOMAIN ops
    BY <1>1, <1>3, <1>4, <2>1 DEF Tracks, Says
  <2>2. CASE k \notin DOMAIN ops
    BY <1>1, <1>3, <1>4, <2>2 DEF Tracks, Published
  <2> QED BY <2>1, <2>2
<1> DEFINE docs == Committed(ops)
<1> HIDE DEF docs
<1>5. DOMAIN <<>> = {}
  OBVIOUS
<1>6. Tracks(d, <<>>, docs, stored)
  BY <1>3, <1>4, <1>5 DEF Tracks, Published, docs
<1> QED BY <1>3, <1>4, <1>6 DEF docs

\* stage_row_operations, deferred or not.
LEMMA StageTracks ==
  ASSUME Tracks(def, queue, index, rows), NEW ops, NEW new, DOMAIN new \subseteq Keys,
         Follows(def, ops, rows, new), NEW deferred, Stage(ops, deferred)
  PROVE  Tracks(def, queue', index', new)
<1> DEFINE q == Over(ops, queue)
<1>1. Tracks(def, q, index, new)
  BY TracksOver
<1>2. Tracks(def, <<>>, Committed(q), new)
  BY <1>1, CommitTracks
<1>3. \/ queue' = q /\ index' = index
      \/ queue' = <<>> /\ index' = Committed(q)
  BY DEF Stage
<1> QED BY <1>1, <1>2, <1>3

\* What writers let in is stored well, and its document is that of the cells.
LEMMA BoundRow ==
  ASSUME IsDefinition(def), NEW row, DOMAIN row = DOMAIN def, AcceptedRow(def, row)
  PROVE  /\ GoodRow(def, Bound(row))
         /\ Written(row).live = TRUE
         /\ Written(row).doc = DocOfCells(def, Bound(row))
         /\ \A c \in DOMAIN Written(row).doc : Written(row).doc[c] # Err
<1>1. Bound(row) = [c \in DOMAIN def |-> SqliteValue(def[c], row[c])]
  BY DEF Bound, ToSql
<1>2. ASSUME NEW c \in DOMAIN def
      PROVE  /\ GoodCell(def[c], SqliteValue(def[c], row[c])) /\ Kept(SqliteValue(def[c], row[c]))
             /\ AddRowValue(def[c], row[c]) = AddSqlValue(def[c], SqliteValue(def[c], row[c]))
             /\ AddRowValue(def[c], row[c]) # Err
  <2>1. IsColumn(def[c]) /\ Accepted(def[c], row[c]) /\ Kept(row[c])
    BY DEF IsDefinition, AcceptedRow
  <2> QED BY <2>1, AcceptedStored, StoredKept, SameDocument
<1>3. GoodRow(def, Bound(row))
  BY <1>1, <1>2 DEF GoodRow
<1>4. Written(row).live = TRUE /\ Written(row).doc = DocOfRow(row)
  BY DEF Written
<1>5. DocOfRow(row) = [c \in DOMAIN def |-> AddRowValue(def[c], row[c])]
  BY DEF DocOfRow
<1>6. DocOfCells(def, Bound(row)) = [c \in DOMAIN def |-> AddSqlValue(def[c], SqliteValue(def[c], row[c]))]
  BY <1>1 DEF DocOfCells
<1>7. DocOfRow(row) = DocOfCells(def, Bound(row))
  BY <1>2, <1>5, <1>6
<1>8. \A c \in DOMAIN DocOfRow(row) : DocOfRow(row)[c] # Err
  BY <1>2, <1>5
<1> QED BY <1>3, <1>4, <1>7, <1>8

\* fetch_row: a stored row is read as a row that would be stored as it.
LEMMA ReadRow ==
  ASSUME IsDefinition(def), NEW cells, GoodRow(def, cells)
  PROVE  LET row == [c \in DOMAIN def |-> RowValueFromRef(def[c], cells[c])]
         IN  AcceptedRow(def, row) /\ DOMAIN row = DOMAIN def /\ Bound(row) = cells
<1> DEFINE row == [c \in DOMAIN def |-> RowValueFromRef(def[c], cells[c])]
<1>1. ASSUME NEW c \in DOMAIN def
      PROVE  /\ Accepted(def[c], RowValueFromRef(def[c], cells[c]))
             /\ Kept(RowValueFromRef(def[c], cells[c]))
             /\ SqliteValue(def[c], RowValueFromRef(def[c], cells[c])) = cells[c]
  <2>1. IsColumn(def[c]) /\ GoodCell(def[c], cells[c]) /\ Kept(cells[c])
    BY DEF IsDefinition, GoodRow
  <2> QED BY <2>1, CellRead, ReadKept
<1>2. AcceptedRow(def, row)
  BY <1>1 DEF AcceptedRow
<1>3. Bound(row) = [c \in DOMAIN def |-> SqliteValue(def[c], RowValueFromRef(def[c], cells[c]))]
  BY DEF Bound, ToSql
<1>4. Bound(row) = [c \in DOMAIN def |-> cells[c]]
  BY <1>1, <1>3
<1>5. Bound(row) = cells
  BY <1>4 DEF GoodRow
<1> QED BY <1>2, <1>5

LEMMA InsertedRow ==
  ASSUME IsDefinition(def), NEW values, Sent(values), Acceptable(Inserted(values))
  PROVE  DOMAIN Inserted(values) = DOMAIN def /\ AcceptedRow(def, Inserted(values))
<1> DEFINE json(c) == IF c \in DOMAIN values THEN values[c] ELSE Null
<1>1. Inserted(values) = [c \in DOMAIN def |-> JsonToRow(def[c], json(c))]
  BY DEF Inserted
<1>2. ASSUME NEW c \in DOMAIN def PROVE IsJson(json(c)) /\ Kept(json(c))
  BY NullJson, NullKept DEF Sent, IsObject
<1> HIDE DEF json
<1>3. ASSUME NEW c \in DOMAIN def
      PROVE  Accepted(def[c], Inserted(values)[c]) /\ Kept(Inserted(values)[c])
  <2>1. Inserted(values)[c] = JsonToRow(def[c], json(c)) /\ c \in DOMAIN Inserted(values)
    BY <1>1
  <2>2. JsonToRow(def[c], json(c)) # Err
    BY <2>1 DEF Acceptable
  <2>3. IsColumn(def[c])
    BY DEF IsDefinition
  <2> QED BY <1>2, <2>1, <2>2, <2>3, JsonAccepted, JsonKept
<1> QED BY <1>1, <1>3 DEF AcceptedRow

\* One row is written.
LEMMA PutRow ==
  ASSUME IsDefinition(def), NEW stored, GoodRows(def, stored), NEW k \in Keys, NEW row,
         DOMAIN row = DOMAIN def, AcceptedRow(def, row), NEW new,
         DOMAIN new = DOMAIN stored \cup {k}, new[k] = Bound(row),
         \A o \in DOMAIN stored \ {k} : new[o] = stored[o]
  PROVE  GoodRows(def, new) /\ Follows(def, Single(k, Written(row)), stored, new)
<1>1. /\ GoodRow(def, new[k]) /\ Written(row).live = TRUE
      /\ Written(row).doc = DocOfCells(def, new[k])
      /\ \A c \in DOMAIN Written(row).doc : Written(row).doc[c] # Err
  BY BoundRow
<1> DEFINE op == Written(row)
           ops == Single(k, op)
<1> HIDE DEF op
<1>2. DOMAIN ops = {k} /\ ops[k] = op
  BY SingleApply
<1> HIDE DEF ops
<1>3. GoodRows(def, new)
  BY <1>1 DEF GoodRows
<1>4. Says(def, op, k, new)
  BY <1>1 DEF Says, op
<1>5. ASSUME NEW o \in Keys, o # k PROVE SameRow(o, stored, new)
  BY <1>5 DEF SameRow
<1>6. Follows(def, ops, stored, new)
  BY <1>2, <1>4, <1>5 DEF Follows
<1> QED BY <1>3, <1>6 DEF ops, op

LEMMA InsertFollows ==
  ASSUME IsDefinition(def), NEW stored, GoodRows(def, stored), NEW k \in Keys, NEW values,
         Sent(values), InsertWorks(stored, k, values, FALSE)
  PROVE  /\ GoodRows(def, InsertRow(stored, k, Inserted(values)))
         /\ Follows(def, Single(k, Written(Inserted(values))), stored,
                    InsertRow(stored, k, Inserted(values)))
<1> DEFINE row == Inserted(values)
           new == InsertRow(stored, k, row)
           one == Single(k, Bound(row))
<1>1. DOMAIN row = DOMAIN def /\ AcceptedRow(def, row) /\ k \notin DOMAIN stored
  BY InsertedRow DEF InsertWorks
<1>2. DOMAIN one = {k} /\ one[k] = Bound(row)
  BY SingleApply
<1>a. /\ DOMAIN Over(stored, one) = DOMAIN stored \cup DOMAIN one
      /\ \A x \in DOMAIN stored : Over(stored, one)[x] = stored[x]
      /\ \A x \in DOMAIN one \ DOMAIN stored : Over(stored, one)[x] = one[x]
  BY OverApply
<1>b. new = Over(stored, one)
  BY DEF InsertRow
<1> HIDE DEF one, row, new
<1>3. /\ DOMAIN new = DOMAIN stored \cup {k} /\ new[k] = Bound(row)
      /\ \A o \in DOMAIN stored \ {k} : new[o] = stored[o]
  <2>1. /\ DOMAIN new = DOMAIN stored \cup DOMAIN one
        /\ \A x \in DOMAIN stored : new[x] = stored[x]
        /\ \A x \in DOMAIN one \ DOMAIN stored : new[x] = one[x]
    BY <1>a, <1>b
  <2> QED BY <1>1, <1>2, <2>1
<1>4. GoodRows(def, new) /\ Follows(def, Single(k, Written(row)), stored, new)
  BY <1>1, <1>3, PutRow
<1> QED BY <1>4 DEF new, row

LEMMA UpsertFollows ==
  ASSUME IsDefinition(def), NEW stored, GoodRows(def, stored), NEW k \in Keys, NEW values,
         Sent(values), Acceptable(Inserted(values))
  PROVE  /\ GoodRows(def, UpsertRow(stored, k, Inserted(values)))
         /\ Follows(def, Single(k, Written(Inserted(values))), stored,
                    UpsertRow(stored, k, Inserted(values)))
<1> DEFINE row == Inserted(values)
           new == UpsertRow(stored, k, row)
           one == Single(k, Bound(row))
<1>1. DOMAIN row = DOMAIN def /\ AcceptedRow(def, row)
  BY InsertedRow
<1>2. DOMAIN one = {k} /\ one[k] = Bound(row)
  BY SingleApply
<1>a. /\ DOMAIN Over(one, stored) = DOMAIN one \cup DOMAIN stored
      /\ \A x \in DOMAIN one : Over(one, stored)[x] = one[x]
      /\ \A x \in DOMAIN stored \ DOMAIN one : Over(one, stored)[x] = stored[x]
  BY OverApply
<1>b. new = Over(one, stored)
  BY DEF UpsertRow
<1> HIDE DEF one, row, new
<1>3. /\ DOMAIN new = DOMAIN stored \cup {k} /\ new[k] = Bound(row)
      /\ \A o \in DOMAIN stored \ {k} : new[o] = stored[o]
  <2>1. /\ DOMAIN new = DOMAIN one \cup DOMAIN stored
        /\ \A x \in DOMAIN one : new[x] = one[x]
        /\ \A x \in DOMAIN stored \ DOMAIN one : new[x] = stored[x]
    BY <1>a, <1>b
  <2> QED BY <1>2, <2>1
<1>4. GoodRows(def, new) /\ Follows(def, Single(k, Written(row)), stored, new)
  BY <1>1, <1>3, PutRow
<1> QED BY <1>4 DEF new, row

\* Induction over the natural numbers, for a set in place of a predicate.
LEMMA NatSet ==
  ASSUME NEW S, 0 \in S, \A n \in Nat : n \in S => n + 1 \in S
  PROVE  Nat \subseteq S
<1> DEFINE T == Nat \ S
<1> SUFFICES ASSUME T # {} PROVE FALSE
  OBVIOUS
<1>1. PICK x \in T : \A y \in T : ~(<<y, x>> \in OpToRel(<, Nat))
  BY WFMin, NatLessThanWellFounded
<1>2. \A y \in T : ~(y < x)
  BY <1>1 DEF OpToRel
<1>3. x # 0 /\ x \in Nat
  OBVIOUS
<1>4. x - 1 \in Nat /\ x - 1 < x /\ (x - 1) + 1 = x
  BY <1>3
<1>5. x - 1 \in S
  BY <1>2, <1>4
<1> QED BY <1>4, <1>5

LEMMA BoundedMax ==
  ASSUME NEW n \in Nat, NEW S, S \subseteq 0..n, S # {}
  PROVE  \E x \in S : \A y \in S : y <= x
<1> DEFINE T == {m \in Nat : m <= n /\ n - m \in S}
<1>1. T # {}
  <2>1. PICK x \in S : TRUE
    OBVIOUS
  <2>2. n - x \in Nat /\ n - x <= n /\ n - (n - x) = x
    BY <2>1
  <2> QED BY <2>1, <2>2
<1>2. T \subseteq Nat
  OBVIOUS
<1> HIDE DEF T
<1>3. PICK m \in T : \A y \in T : ~(<<y, m>> \in OpToRel(<, Nat))
  BY <1>1, <1>2, WFMin, NatLessThanWellFounded
<1>4. \A y \in T : ~(y < m)
  BY <1>2, <1>3 DEF OpToRel
<1>5. m \in Nat /\ n - m \in S
  BY DEF T
<1>6. ASSUME NEW y \in S PROVE y <= n - m
  <2>1. y \in Nat /\ y <= n /\ n - y \in Nat /\ n - y <= n /\ n - (n - y) = y
    BY <1>6
  <2>2. n - y \in T
    BY <1>6, <2>1 DEF T
  <2>3. ~(n - y < m)
    BY <1>4, <2>2
  <2> QED BY <1>5, <2>1, <2>3
<1> QED BY <1>5, <1>6

LEMMA PositionType ==
  ASSUME NEW f \in Spellings
  PROVE  Position(f) \in 1..Len(Names)
<1>1. DOMAIN Names = 1..Len(Names)
  BY NamesAssumption
<1> QED BY <1>1 DEF Spellings, Position

\* Of the spellings of a column that a request uses, one comes last.
LEMMA LastSpelling ==
  ASSUME NEW S, S \subseteq Spellings, S # {}
  PROVE  \E f \in S : \A g \in S : Position(g) <= Position(f)
<1> DEFINE P == {Position(f) : f \in S}
<1>1. Len(Names) \in Nat
  BY NamesAssumption
<1>2. P \subseteq 0..Len(Names) /\ P # {}
  BY <1>1, PositionType
<1>3. PICK x \in P : \A y \in P : y <= x
  BY <1>1, <1>2, BoundedMax
<1>4. PICK f \in S : x = Position(f)
  BY <1>3
<1>5. \A g \in S : Position(g) \in P
  OBVIOUS
<1> QED BY <1>3, <1>4, <1>5

LEMMA AssignedRow ==
  ASSUME IsDefinition(def), NEW values, Sent(values), KnownFields(values),
         Acceptable(Assignments(values))
  PROVE  AcceptedRow(def, Assignments(values))
<1> DEFINE row == Assignments(values)
           spelled(c) == {f \in DOMAIN values : SameName(f, c)}
           last(c) == CHOOSE f \in spelled(c) : \A g \in spelled(c) : Position(g) <= Position(f)
<1>1. row = [c \in {Stored(def, f) : f \in DOMAIN values} |->
               IF \E f \in spelled(c) : JsonToRow(def[c], values[f]) = Err THEN Err
               ELSE JsonToRow(def[c], values[last(c)])]
  BY DEF Assignments
<1>2. ASSUME NEW c \in DOMAIN row
      PROVE  c \in DOMAIN def /\ Accepted(def[c], row[c]) /\ Kept(row[c])
  <2>1. PICK f \in DOMAIN values : c = Stored(def, f)
    BY <1>1
  <2>2. c \in DOMAIN def /\ SameName(c, f)
    BY <2>1 DEF KnownFields, Known, Stored
  <2>3. f \in spelled(c)
    BY <2>1, <2>2 DEF SameName
  <2>4. spelled(c) \subseteq Spellings
    BY DEF Sent, IsObject
  <2> DEFINE g == last(c)
  <2>5. g \in spelled(c)
    <3> HIDE DEF spelled
    <3>1. \E h \in spelled(c) : \A o \in spelled(c) : Position(o) <= Position(h)
      BY <2>3, <2>4, LastSpelling
    <3> QED BY <3>1
  <2>6. g \in DOMAIN values
    BY <2>5
  <2>7. row[c] # Err
    BY DEF Acceptable
  <2> HIDE DEF g
  <2>8. row[c] = JsonToRow(def[c], values[g])
    BY <1>1, <2>7 DEF g
  <2>9. IsColumn(def[c]) /\ IsJson(values[g]) /\ Kept(values[g])
    BY <2>2, <2>6 DEF IsDefinition, Sent, IsObject
  <2> QED BY <2>2, <2>7, <2>8, <2>9, JsonAccepted, JsonKept
<1> QED BY <1>2 DEF AcceptedRow

\* The rows of an update, and the operations made from what it stored.
LEMMA UpdateFollows ==
  ASSUME IsDefinition(def), NEW stored, GoodRows(def, stored), NEW keys, NEW values,
         Sent(values), UpdateWorks(stored, keys, values)
  PROVE  /\ GoodRows(def, UpdatedRows(stored, keys, values))
         /\ Follows(def, Upserts(UpdatedRows(stored, keys, values), keys), stored,
                    UpdatedRows(stored, keys, values))
<1> DEFINE row == Assignments(values)
           new == UpdatedRows(stored, keys, values)
           read(k) == [c \in DOMAIN def |-> RowValueFromRef(def[c], new[k][c])]
           ops == Upserts(new, keys)
<1>1. AcceptedRow(def, row) /\ keys \subseteq DOMAIN stored
  BY AssignedRow DEF UpdateWorks
<1>2. new = [k \in DOMAIN stored |-> IF k \in keys THEN Over(Cells(row), stored[k]) ELSE stored[k]]
  BY DEF UpdatedRows
<1>3. ops = [k \in keys |-> Written(read(k))]
  BY DEF Upserts
<1>4. Cells(row) = [c \in DOMAIN row |-> SqliteValue(def[c], row[c])]
  BY DEF Cells
<1> HIDE DEF row, ops, new
<1>5. ASSUME NEW k \in DOMAIN stored PROVE GoodRow(def, new[k])
  <2>1. GoodRow(def, stored[k])
    BY DEF GoodRows
  <2>2. CASE k \in keys
    <3> DEFINE cells == Cells(row)
               old == stored[k]
    <3>1. new[k] = Over(cells, old)
      BY <1>2, <2>2
    <3>2. DOMAIN cells \subseteq DOMAIN def /\ DOMAIN old = DOMAIN def
      BY <1>1, <1>4, <2>1 DEF AcceptedRow, GoodRow
    <3>3. ASSUME NEW c \in DOMAIN cells PROVE GoodCell(def[c], cells[c]) /\ Kept(cells[c])
      <4>1. c \in DOMAIN row /\ cells[c] = SqliteValue(def[c], row[c])
        BY <1>4
      <4>2. Accepted(def[c], row[c]) /\ Kept(row[c])
        BY <1>1, <4>1 DEF AcceptedRow
      <4> QED BY <4>1, <4>2, AcceptedStored, StoredKept
    <3>4. \A c \in DOMAIN def : GoodCell(def[c], old[c]) /\ Kept(old[c])
      BY <2>1 DEF GoodRow
    <3> HIDE DEF cells, old
    <3> DEFINE both == Over(cells, old)
    <3>5. both = [c \in DOMAIN cells \cup DOMAIN old |-> IF c \in DOMAIN cells THEN cells[c] ELSE old[c]]
      BY DEF Over
    <3> HIDE DEF both
    <3>6. both = [c \in DOMAIN def |-> IF c \in DOMAIN cells THEN cells[c] ELSE old[c]]
      BY <3>2, <3>5
    <3>7. GoodRow(def, both)
      BY <3>3, <3>4, <3>6 DEF GoodRow
    <3> QED BY <3>1, <3>7 DEF both
  <2>3. CASE k \notin keys
    BY <1>2, <2>1, <2>3
  <2> QED BY <2>2, <2>3
<1>6. GoodRows(def, new)
  BY <1>2, <1>5 DEF GoodRows
<1>7. ASSUME NEW k \in keys PROVE Says(def, ops[k], k, new)
  <2>1. k \in DOMAIN stored /\ k \in DOMAIN new /\ GoodRow(def, new[k])
    BY <1>1, <1>2, <1>5
  <2> DEFINE r == read(k)
  <2>2. AcceptedRow(def, r) /\ DOMAIN r = DOMAIN def /\ Bound(r) = new[k]
    BY <2>1, ReadRow
  <2>3. ops[k] = Written(r)
    BY <1>3
  <2> HIDE DEF r
  <2>4. /\ Written(r).live = TRUE /\ Written(r).doc = DocOfCells(def, Bound(r))
        /\ \A c \in DOMAIN Written(r).doc : Written(r).doc[c] # Err
    BY <2>2, BoundRow
  <2> QED BY <2>1, <2>2, <2>3, <2>4 DEF Says
<1>8. DOMAIN ops = keys /\ keys \subseteq Keys
  BY <1>1, <1>3 DEF GoodRows
<1>9. ASSUME NEW k \in Keys, k \notin keys PROVE SameRow(k, stored, new)
  BY <1>2, <1>9 DEF SameRow
<1>10. Follows(def, ops, stored, new)
  BY <1>7, <1>8, <1>9 DEF Follows
<1> QED BY <1>6, <1>10 DEF ops, new

LEMMA DeleteFollows ==
  ASSUME NEW stored, GoodRows(def, stored), NEW keys, keys \subseteq Keys
  PROVE  /\ GoodRows(def, Remaining(stored, keys))
         /\ Follows(def, Deletes(keys), stored, Remaining(stored, keys))
<1> DEFINE new == Remaining(stored, keys)
           ops == Deletes(keys)
<1>1. new = [k \in DOMAIN stored \ keys |-> stored[k]] /\ ops = [k \in keys |-> [live |-> FALSE, doc |-> <<>>]]
  BY DEF Remaining, Deletes
<1> HIDE DEF new, ops
<1>2. GoodRows(def, new)
  BY <1>1 DEF GoodRows
<1>3. ASSUME NEW k \in keys PROVE Says(def, ops[k], k, new)
  <2>1. ops[k].live = FALSE /\ DOMAIN ops[k].doc = {} /\ k \notin DOMAIN new
    BY <1>1
  <2> QED BY <2>1 DEF Says
<1>4. ASSUME NEW k \in Keys, k \notin keys PROVE SameRow(k, stored, new)
  BY <1>1, <1>4 DEF SameRow
<1>5. Follows(def, ops, stored, new)
  BY <1>1, <1>3, <1>4 DEF Follows
<1> QED BY <1>2, <1>5 DEF new, ops

-----------------------------------------------------------------------------
(* A batch is one transaction, a schema change one plan: both are built    *)
(* step by step.                                                           *)

IsProgress(s) ==
  /\ s = [ok |-> s.ok, rows |-> s.rows, ops |-> s.ops]
  /\ s.ok => GoodRows(def, s.rows) /\ Follows(def, s.ops, rows, s.rows)

LEMMA BatchStepFollows ==
  ASSUME IsDefinition(def), NEW s, IsProgress(s), NEW m, IsMutation(m), Sent(m.values),
         NEW keys, keys \subseteq Keys
  PROVE  IsProgress(BatchStep(s, m, keys))
<1>0. ASSUME NEW a, NEW b, NEW e
      PROVE  /\ [s EXCEPT !.ok = e] = [ok |-> e, rows |-> s.rows, ops |-> s.ops]
             /\ [s EXCEPT !.rows = a, !.ops = b] = [ok |-> s.ok, rows |-> a, ops |-> b]
  <2> DEFINE x == s.ok
             y == s.rows
             z == s.ops
             r == [ok |-> x, rows |-> y, ops |-> z]
  <2>1. s = r
    BY DEF IsProgress
  <2> HIDE DEF x, y, z
  <2>2. [r EXCEPT !.ok = e] = [ok |-> e, rows |-> y, ops |-> z]
    OBVIOUS
  <2>3. [r EXCEPT !.rows = a] = [ok |-> x, rows |-> a, ops |-> z]
    OBVIOUS
  <2>4. [[ok |-> x, rows |-> a, ops |-> z] EXCEPT !.ops = b] = [ok |-> x, rows |-> a, ops |-> b]
    OBVIOUS
  <2> QED BY <2>1, <2>2, <2>3, <2>4 DEF x, y, z
<1>1. CASE ~s.ok
  BY <1>1 DEF BatchStep
<1>2. CASE s.ok /\ m.op = "insert"
  <2> DEFINE ok == InsertWorks(s.rows, m.key, m.values, FALSE)
             new == InsertRow(s.rows, m.key, Inserted(m.values))
             op == Single(m.key, Written(Inserted(m.values)))
             t == [ok |-> ok, rows |-> new, ops |-> Over(op, s.ops)]
  <2>1. BatchStep(s, m, keys) = t
    BY <1>2 DEF BatchStep
  <2>2. ASSUME ok PROVE GoodRows(def, new) /\ Follows(def, op, s.rows, new)
    BY <1>2, <2>2, InsertFollows DEF IsProgress, IsMutation
  <2> HIDE DEF ok, new, op
  <2>3. ok => Follows(def, Over(op, s.ops), rows, new)
    BY <1>2, <2>2, FollowsOver DEF IsProgress
  <2>4. IsProgress(t)
    BY <2>2, <2>3 DEF IsProgress
  <2> QED BY <2>1, <2>4
<1>3. CASE s.ok /\ m.op = "update"
  <2> DEFINE new == UpdatedRows(s.rows, keys, m.values)
             op == Upserts(new, keys)
             t == [ok |-> TRUE, rows |-> new, ops |-> Over(op, s.ops)]
             u == [s EXCEPT !.ok = FALSE]
  <2>1. BatchStep(s, m, keys) = IF ~UpdateWorks(s.rows, keys, m.values) THEN u ELSE t
    BY <1>3 DEF BatchStep
  <2>2. CASE ~UpdateWorks(s.rows, keys, m.values)
    <3>1. u = [ok |-> FALSE, rows |-> s.rows, ops |-> s.ops]
      BY <1>0, Zenon
    <3>2. IsProgress(u)
      BY <3>1 DEF IsProgress
    <3> QED BY <2>1, <2>2, <3>2
  <2>3. CASE UpdateWorks(s.rows, keys, m.values)
    <3>1. GoodRows(def, new) /\ Follows(def, op, s.rows, new)
      BY <1>3, <2>3, UpdateFollows DEF IsProgress
    <3> HIDE DEF new, op
    <3>2. Follows(def, Over(op, s.ops), rows, new)
      BY <1>3, <3>1, FollowsOver DEF IsProgress
    <3>3. IsProgress(t)
      BY <3>1, <3>2 DEF IsProgress
    <3> QED BY <2>1, <2>3, <3>3
  <2> QED BY <2>2, <2>3
<1>4. CASE s.ok /\ m.op = "delete"
  <2> DEFINE new == Remaining(s.rows, keys)
             op == Deletes(keys)
             t == [s EXCEPT !.rows = new, !.ops = Over(op, s.ops)]
  <2>1. BatchStep(s, m, keys) = t
    BY <1>4 DEF BatchStep
  <2>2. GoodRows(def, new) /\ Follows(def, op, s.rows, new)
    BY <1>4, DeleteFollows DEF IsProgress
  <2> HIDE DEF new, op
  <2>3. Follows(def, Over(op, s.ops), rows, new)
    BY <1>4, <2>2, FollowsOver DEF IsProgress
  <2>4. t = [ok |-> s.ok, rows |-> new, ops |-> Over(op, s.ops)]
    BY <1>0
  <2>5. IsProgress(t)
    BY <2>2, <2>3, <2>4 DEF IsProgress
  <2> QED BY <2>1, <2>5
<1> QED BY <1>1, <1>2, <1>3, <1>4 DEF IsMutation

LEMMA TransactionFollows ==
  ASSUME IsDefinition(def), GoodRows(def, rows), NEW batch, Len(batch) \in Nat,
         \A i \in 1..Len(batch) : IsMutation(batch[i]) /\ Sent(batch[i].values)
  PROVE  IsProgress(Transaction(batch))
<1> DEFINE published == DOMAIN Committed(queue)
           planned == \A i \in DOMAIN batch : KnownFields(batch[i].values)
           start == [ok |-> planned, rows |-> rows, ops |-> <<>>]
           Step(s, n) == BatchStep(s, batch[n], {batch[n].key} \cap published)
           F(h, n) == IF n = 0 THEN start ELSE Step(h[n - 1], n)
           Solution(h, k) == h = [n \in 0..k |-> F(h, n)]
           K == {k \in Nat : \E h : Solution(h, k)}
           L == Len(batch)
           done == CHOOSE h : Solution(h, L)
<1>1. Transaction(batch) = done[L]
  BY DEF Transaction
<1>2. IsProgress(start)
  <2>1. DOMAIN <<>> = {}
    OBVIOUS
  <2>2. Follows(def, <<>>, rows, rows)
    BY <2>1 DEF Follows, SameRow
  <2> HIDE DEF planned
  <2> QED BY <2>2 DEF IsProgress
<1>3. ASSUME NEW s, IsProgress(s), NEW n \in 1..L PROVE IsProgress(Step(s, n))
  <2>1. IsMutation(batch[n]) /\ Sent(batch[n].values)
    BY <1>3
  <2>2. {batch[n].key} \cap published \subseteq Keys
    BY <2>1 DEF IsMutation
  <2> QED BY <1>3, <2>1, <2>2, BatchStepFollows
<1>4. L \in Nat
  OBVIOUS
<1> HIDE DEF start, Step, L
<1>5. 0 \in K
  <2>1. Solution([n \in 0..0 |-> start], 0)
    OBVIOUS
  <2> QED BY <2>1
<1>6. ASSUME NEW k \in Nat, k \in K PROVE k + 1 \in K
  <2>1. PICK h : Solution(h, k)
    BY <1>6
  <2> DEFINE g == [n \in 0..(k + 1) |-> IF n <= k THEN h[n] ELSE Step(h[k], n)]
  <2>2. ASSUME NEW n \in 0..(k + 1) PROVE g[n] = F(g, n)
    <3>1. CASE n = 0
      BY <2>1, <3>1
    <3>2. CASE n \in 1..k
      <4>1. n \in 0..k /\ n # 0 /\ n <= k /\ n - 1 \in 0..(k + 1) /\ n - 1 <= k
        BY <3>2
      <4>2. h[n] = Step(h[n - 1], n)
        BY <2>1, <4>1
      <4>3. g[n] = h[n] /\ g[n - 1] = h[n - 1]
        BY <4>1
      <4> HIDE DEF g
      <4> QED BY <4>1, <4>2, <4>3
    <3>3. CASE n = k + 1
      <4>1. n # 0 /\ ~(n <= k) /\ n - 1 = k /\ k \in 0..(k + 1) /\ k <= k
        BY <3>3
      <4>2. g[n] = Step(h[k], n) /\ g[k] = h[k]
        BY <4>1
      <4> HIDE DEF g
      <4> QED BY <4>1, <4>2
    <3> QED BY <3>1, <3>2, <3>3
  <2>3. Solution(g, k + 1)
    BY <2>2
  <2> HIDE DEF g
  <2>4. \E e : Solution(e, k + 1)
    BY <2>3
  <2>5. k + 1 \in Nat
    OBVIOUS
  <2> QED BY <2>4, <2>5
<1>7. Nat \subseteq K
  <2> HIDE DEF K
  <2> QED BY <1>5, <1>6, NatSet
<1>8. Solution(done, L)
  BY <1>4, <1>7
<1> HIDE DEF done
<1> DEFINE R == {n \in Nat : n <= L => IsProgress(done[n])}
<1>9. 0 \in R
  BY <1>2, <1>4, <1>8
<1>10. ASSUME NEW n \in Nat, n \in R PROVE n + 1 \in R
  <2> SUFFICES ASSUME n + 1 <= L PROVE IsProgress(done[n + 1])
    OBVIOUS
  <2>1. IsProgress(done[n]) /\ n + 1 \in 1..L
    BY <1>4, <1>10
  <2>2. done[n + 1] = Step(done[n], n + 1)
    BY <1>4, <1>8
  <2> QED BY <1>3, <2>1, <2>2
<1>11. Nat \subseteq R
  <2> HIDE DEF R
  <2> QED BY <1>9, <1>10, NatSet
<1>12. IsProgress(done[L])
  BY <1>4, <1>11
<1> QED BY <1>1, <1>12

\* SchemaPlan::build, unfolded.
LEMMA BuildSteps ==
  ASSUME NEW d, NEW changes, Len(changes) \in Nat
  PROVE  \E plans : /\ plans[0] = Unchanged(d)
                    /\ \A n \in 1..Len(changes) : plans[n] = PlanChange(plans[n - 1], changes[n])
                    /\ Build(d, changes) = plans[Len(changes)]
<1> DEFINE start == Unchanged(d)
           Step(s, n) == PlanChange(s, changes[n])
           F(h, n) == IF n = 0 THEN start ELSE Step(h[n - 1], n)
           Solution(h, k) == h = [n \in 0..k |-> F(h, n)]
           K == {k \in Nat : \E h : Solution(h, k)}
           L == Len(changes)
           plans == CHOOSE h : Solution(h, L)
<1>1. Build(d, changes) = plans[L]
  BY DEF Build
<1>2. L \in Nat
  OBVIOUS
<1> HIDE DEF start, Step, L
<1>3. 0 \in K
  <2>1. Solution([n \in 0..0 |-> start], 0)
    OBVIOUS
  <2> QED BY <2>1
<1>4. ASSUME NEW k \in Nat, k \in K PROVE k + 1 \in K
  <2>1. PICK h : Solution(h, k)
    BY <1>4
  <2> DEFINE g == [n \in 0..(k + 1) |-> IF n <= k THEN h[n] ELSE Step(h[k], n)]
  <2>2. ASSUME NEW n \in 0..(k + 1) PROVE g[n] = F(g, n)
    <3>1. CASE n = 0
      BY <2>1, <3>1
    <3>2. CASE n \in 1..k
      <4>1. n \in 0..k /\ n # 0 /\ n <= k /\ n - 1 \in 0..(k + 1) /\ n - 1 <= k
        BY <3>2
      <4>2. h[n] = Step(h[n - 1], n)
        BY <2>1, <4>1
      <4>3. g[n] = h[n] /\ g[n - 1] = h[n - 1]
        BY <4>1
      <4> HIDE DEF g
      <4> QED BY <4>1, <4>2, <4>3
    <3>3. CASE n = k + 1
      <4>1. n # 0 /\ ~(n <= k) /\ n - 1 = k /\ k \in 0..(k + 1) /\ k <= k
        BY <3>3
      <4>2. g[n] = Step(h[k], n) /\ g[k] = h[k]
        BY <4>1
      <4> HIDE DEF g
      <4> QED BY <4>1, <4>2
    <3> QED BY <3>1, <3>2, <3>3
  <2>3. Solution(g, k + 1)
    BY <2>2
  <2> HIDE DEF g
  <2>4. \E e : Solution(e, k + 1)
    BY <2>3
  <2>5. k + 1 \in Nat
    OBVIOUS
  <2> QED BY <2>4, <2>5
<1>5. Nat \subseteq K
  <2> HIDE DEF K
  <2> QED BY <1>3, <1>4, NatSet
<1>6. Solution(plans, L)
  BY <1>2, <1>5
<1> HIDE DEF plans
<1>7. plans[0] = start /\ \A n \in 1..L : plans[n] = Step(plans[n - 1], n)
  BY <1>2, <1>6
<1> QED BY <1>1, <1>7 DEF start, Step, L

\* A plan over the definition d: its columns, and where their cells come from.
IsPlan(d, plan) ==
  /\ plan = [target |-> plan.target, sources |-> plan.sources,
             defaults |-> plan.defaults, ok |-> plan.ok]
  /\ plan.ok => /\ IsDefinition(plan.target)
                /\ \A c \in DOMAIN plan.sources : plan.sources[c] \in DOMAIN d
                /\ \A c \in DOMAIN plan.defaults : IsJson(plan.defaults[c]) /\ Kept(plan.defaults[c])

\* A change that a client may have asked for.
Asked(ch) == IsChange(ch) /\ Kept(ch.default) /\ ch.name \in ColumnNames /\ ch.to \in ColumnNames

LEMMA PlanRecord ==
  ASSUME NEW plan, NEW a, NEW b, NEW e,
         plan = [target |-> plan.target, sources |-> plan.sources,
                 defaults |-> plan.defaults, ok |-> plan.ok]
  PROVE  /\ [plan EXCEPT !.target = a]
              = [target |-> a, sources |-> plan.sources, defaults |-> plan.defaults, ok |-> plan.ok]
         /\ [plan EXCEPT !.target = a, !.defaults = e]
              = [target |-> a, sources |-> plan.sources, defaults |-> e, ok |-> plan.ok]
         /\ [plan EXCEPT !.target = a, !.sources = b, !.defaults = e]
              = [target |-> a, sources |-> b, defaults |-> e, ok |-> plan.ok]
<1> DEFINE t == plan.target
           s == plan.sources
           d == plan.defaults
           o == plan.ok
           r == [target |-> t, sources |-> s, defaults |-> d, ok |-> o]
<1>1. plan = r
  OBVIOUS
<1> HIDE DEF t, s, d, o
<1>2. [r EXCEPT !.target = a] = [target |-> a, sources |-> s, defaults |-> d, ok |-> o]
  OBVIOUS
<1>3. [[target |-> a, sources |-> s, defaults |-> d, ok |-> o] EXCEPT !.defaults = e]
        = [target |-> a, sources |-> s, defaults |-> e, ok |-> o]
  OBVIOUS
<1>4. [[target |-> a, sources |-> s, defaults |-> d, ok |-> o] EXCEPT !.sources = b]
        = [target |-> a, sources |-> b, defaults |-> d, ok |-> o]
  OBVIOUS
<1>5. [[target |-> a, sources |-> b, defaults |-> d, ok |-> o] EXCEPT !.defaults = e]
        = [target |-> a, sources |-> b, defaults |-> e, ok |-> o]
  OBVIOUS
<1> QED BY <1>1, <1>2, <1>3, <1>4, <1>5 DEF t, s, d, o

\* What each change makes of a plan, if it accepts the change.
LEMMA PlanFields ==
  ASSUME NEW plan, NEW ch, ch.kind \in {"add", "drop", "rename", "alter", "store"},
         plan = [target |-> plan.target, sources |-> plan.sources,
                 defaults |-> plan.defaults, ok |-> plan.ok], plan.ok
  PROVE  LET c == Stored(plan.target, ch.name)
             next == PlanChange(plan, ch)
         IN  \/ next = NoPlan
             \/ /\ ch.kind = "add" /\ ~Known(plan.target, ch.name)
                /\ next = [target |-> Over(plan.target, Single(ch.name, ch.col)),
                           sources |-> plan.sources,
                           defaults |-> Over(Single(ch.name, ch.default), plan.defaults),
                           ok |-> plan.ok]
             \/ /\ ch.kind = "drop" /\ Known(plan.target, ch.name)
                /\ next = [target |-> Without(plan.target, c), sources |-> Without(plan.sources, c),
                           defaults |-> Without(plan.defaults, c), ok |-> plan.ok]
             \/ /\ ch.kind = "rename" /\ Known(plan.target, ch.name) /\ ~Known(plan.target, ch.to)
                /\ next = [target |-> Moved(plan.target, c, ch.to),
                           sources |-> Moved(plan.sources, ch.name, ch.to),
                           defaults |-> Moved(plan.defaults, ch.name, ch.to), ok |-> plan.ok]
             \/ /\ ch.kind = "alter" /\ Known(plan.target, ch.name) /\ SameName(ch.to, ch.name)
                /\ next = [target |-> Over(Single(ch.to, ch.col), Without(plan.target, c)),
                           sources |-> plan.sources, defaults |-> plan.defaults, ok |-> plan.ok]
             \/ ch.kind = "store" /\ next = plan
<1> DEFINE c == Stored(plan.target, ch.name)
<1>1. CASE ch.kind = "add"
  <2>1. PlanChange(plan, ch) = AddColumn(plan, ch)
    BY <1>1 DEF PlanChange
  <2> QED BY <1>1, <2>1, PlanRecord DEF AddColumn
<1>2. CASE ch.kind = "drop"
  <2>1. PlanChange(plan, ch) = DropColumn(plan, ch)
    BY <1>2 DEF PlanChange
  <2> QED BY <1>2, <2>1, PlanRecord DEF DropColumn
<1>3. CASE ch.kind = "rename"
  <2>1. PlanChange(plan, ch) = RenameColumn(plan, ch)
    BY <1>3 DEF PlanChange
  <2> QED BY <1>3, <2>1, PlanRecord DEF RenameColumn
<1>4. CASE ch.kind = "alter"
  <2>1. PlanChange(plan, ch) = AlterColumn(plan, ch)
    BY <1>4 DEF PlanChange
  <2> QED BY <1>4, <2>1, PlanRecord DEF AlterColumn
<1>5. CASE ch.kind = "store"
  BY <1>5 DEF PlanChange
<1> QED BY <1>1, <1>2, <1>3, <1>4, <1>5

LEMMA WithoutApply ==
  ASSUME NEW f, NEW x
  PROVE  DOMAIN Without(f, x) = DOMAIN f \ {x} /\ \A y \in DOMAIN f \ {x} : Without(f, x)[y] = f[y]
BY DEF Without

LEMMA MovedNot ==
  ASSUME NEW f, NEW a, NEW b, a \notin DOMAIN f
  PROVE  Moved(f, a, b) = f
BY DEF Moved

LEMMA MovedApply ==
  ASSUME NEW f, NEW a, NEW b, a \in DOMAIN f
  PROVE  /\ \A y : y \in DOMAIN Moved(f, a, b) <=> (y \in DOMAIN f /\ y # a) \/ y = b
         /\ Moved(f, a, b)[b] = f[a]
         /\ \A y \in DOMAIN f : y # a /\ y # b => Moved(f, a, b)[y] = f[y]
<1> DEFINE g == Without(f, a)
           h == Single(b, f[a])
<1>1. Moved(f, a, b) = Over(h, g)
  BY DEF Moved
<1>2. DOMAIN g = DOMAIN f \ {a} /\ \A y \in DOMAIN f \ {a} : g[y] = f[y]
  BY WithoutApply
<1>3. DOMAIN h = {b} /\ h[b] = f[a]
  BY SingleApply
<1>4. /\ DOMAIN Over(h, g) = DOMAIN h \cup DOMAIN g
      /\ \A x \in DOMAIN h : Over(h, g)[x] = h[x]
      /\ \A x \in DOMAIN g \ DOMAIN h : Over(h, g)[x] = g[x]
  BY OverApply
<1> HIDE DEF g, h
<1> QED BY <1>1, <1>2, <1>3, <1>4

LEMMA MovedValues ==
  ASSUME NEW f, NEW a, NEW b
  PROVE  /\ DOMAIN Moved(f, a, b) \subseteq DOMAIN f \cup {b}
         /\ \A y \in DOMAIN Moved(f, a, b) : \E x \in DOMAIN f : Moved(f, a, b)[y] = f[x]
<1> DEFINE m == Moved(f, a, b)
<1>2. CASE a \in DOMAIN f
  <2>0. /\ \A y : y \in DOMAIN m <=> (y \in DOMAIN f /\ y # a) \/ y = b
        /\ m[b] = f[a]
        /\ \A y \in DOMAIN f : y # a /\ y # b => m[y] = f[y]
    BY <1>2, MovedApply
  <2> HIDE DEF m
  <2>1. DOMAIN m \subseteq DOMAIN f \cup {b}
    BY <1>2, <2>0
  <2>2. ASSUME NEW y \in DOMAIN m PROVE \E x \in DOMAIN f : m[y] = f[x]
    BY <1>2, <2>0, <2>2
  <2> QED BY <2>1, <2>2 DEF m
<1>3. CASE a \notin DOMAIN f
  <2>1. m = f
    BY <1>3, MovedNot
  <2> HIDE DEF m
  <2>2. DOMAIN m \subseteq DOMAIN f \cup {b} /\ \A y \in DOMAIN m : \E x \in DOMAIN f : m[y] = f[x]
    BY <2>1
  <2> QED BY <2>2 DEF m
<1> QED BY <1>2, <1>3

SourcesIn(d, sources) == \A c \in DOMAIN sources : sources[c] \in DOMAIN d
DefaultsGood(defaults) == \A c \in DOMAIN defaults : IsJson(defaults[c]) /\ Kept(defaults[c])

LEMMA PlanParts ==
  ASSUME NEW d, NEW t, NEW s, NEW e, NEW ok, IsDefinition(t), SourcesIn(d, s), DefaultsGood(e)
  PROVE  IsPlan(d, [target |-> t, sources |-> s, defaults |-> e, ok |-> ok])
BY DEF IsPlan, SourcesIn, DefaultsGood

LEMMA PlanChangeGood ==
  ASSUME NEW d, NEW plan, IsPlan(d, plan), NEW ch, Asked(ch)
  PROVE  IsPlan(d, PlanChange(plan, ch))
<1> DEFINE c == Stored(plan.target, ch.name)
           t == plan.target
           s == plan.sources
           e == plan.defaults
           name == ch.name
           to == ch.to
           next == PlanChange(plan, ch)
<1>1. CASE ~plan.ok
  BY <1>1 DEF PlanChange
<1>2. CASE plan.ok
  <2>1. /\ plan = [target |-> t, sources |-> s, defaults |-> e, ok |-> plan.ok]
        /\ IsDefinition(t) /\ SourcesIn(d, s) /\ DefaultsGood(e)
    BY <1>2 DEF IsPlan, SourcesIn, DefaultsGood
  <2>2. /\ ch.kind \in {"add", "drop", "rename", "alter", "store"}
        /\ name \in ColumnNames /\ to \in ColumnNames /\ IsColumn(ch.col)
        /\ IsJson(ch.default) /\ Kept(ch.default)
    BY DEF IsChange, Asked
  <2>3. \/ next = NoPlan
        \/ next = [target |-> Over(t, Single(name, ch.col)), sources |-> s,
                   defaults |-> Over(Single(name, ch.default), e), ok |-> plan.ok]
        \/ next = [target |-> Without(t, c), sources |-> Without(s, c),
                   defaults |-> Without(e, c), ok |-> plan.ok]
        \/ next = [target |-> Moved(t, c, to), sources |-> Moved(s, name, to),
                   defaults |-> Moved(e, name, to), ok |-> plan.ok]
        \/ next = [target |-> Over(Single(to, ch.col), Without(t, c)), sources |-> s,
                   defaults |-> e, ok |-> plan.ok]
        \/ next = plan
    BY <1>2, <2>1, <2>2, PlanFields
  <2> HIDE DEF c, t, s, e, name, to
  <2>4. IsDefinition(Over(t, Single(name, ch.col)))
    BY <2>1, <2>2 DEF IsDefinition, Over, Single
  <2>5. DefaultsGood(Over(Single(name, ch.default), e))
    BY <2>1, <2>2 DEF DefaultsGood, Over, Single
  <2>6. IsDefinition(Without(t, c)) /\ SourcesIn(d, Without(s, c)) /\ DefaultsGood(Without(e, c))
    BY <2>1 DEF IsDefinition, SourcesIn, DefaultsGood, Without
  <2>7. IsDefinition(Moved(t, c, to))
    <3> DEFINE m == Moved(t, c, to)
    <3>1. DOMAIN m \subseteq DOMAIN t \cup {to} /\ \A y \in DOMAIN m : \E x \in DOMAIN t : m[y] = t[x]
      BY MovedValues
    <3> HIDE DEF m
    <3>2. IsDefinition(m)
      BY <2>1, <2>2, <3>1 DEF IsDefinition
    <3> QED BY <3>2 DEF m
  <2>8. SourcesIn(d, Moved(s, name, to))
    <3> DEFINE m == Moved(s, name, to)
    <3>1. \A y \in DOMAIN m : \E x \in DOMAIN s : m[y] = s[x]
      BY MovedValues
    <3> HIDE DEF m
    <3>2. SourcesIn(d, m)
      BY <2>1, <3>1 DEF SourcesIn
    <3> QED BY <3>2 DEF m
  <2>9. DefaultsGood(Moved(e, name, to))
    <3> DEFINE m == Moved(e, name, to)
    <3>1. \A y \in DOMAIN m : \E x \in DOMAIN e : m[y] = e[x]
      BY MovedValues
    <3> HIDE DEF m
    <3>2. DefaultsGood(m)
      BY <2>1, <3>1 DEF DefaultsGood
    <3> QED BY <3>2 DEF m
  <2>10. IsDefinition(Over(Single(to, ch.col), Without(t, c)))
    BY <2>1, <2>2 DEF IsDefinition, Over, Single, Without
  <2>11. IsPlan(d, NoPlan)
    BY DEF NoPlan, IsPlan
  <2> HIDE DEF next
  <2>12. IsPlan(d, next)
    BY <2>1, <2>3, <2>4, <2>5, <2>6, <2>7, <2>8, <2>9, <2>10, <2>11, PlanParts
  <2> QED BY <2>12 DEF next
<1> QED BY <1>1, <1>2

LEMMA BuildGood ==
  ASSUME NEW d, IsDefinition(d), NEW changes, Len(changes) \in Nat,
         \A i \in 1..Len(changes) : Asked(changes[i])
  PROVE  IsPlan(d, Build(d, changes))
<1> DEFINE L == Len(changes)
<1>1. PICK plans : /\ plans[0] = Unchanged(d)
                   /\ \A n \in 1..L : plans[n] = PlanChange(plans[n - 1], changes[n])
                   /\ Build(d, changes) = plans[L]
  BY BuildSteps
<1>2. L \in Nat
  OBVIOUS
<1> HIDE DEF L
<1> DEFINE R == {n \in Nat : n <= L => IsPlan(d, plans[n])}
<1>3. 0 \in R
  <2>1. IsPlan(d, Unchanged(d))
    BY DEF IsPlan, Unchanged
  <2> QED BY <1>1, <2>1
<1>4. ASSUME NEW n \in Nat, n \in R PROVE n + 1 \in R
  <2> SUFFICES ASSUME n + 1 <= L PROVE IsPlan(d, plans[n + 1])
    OBVIOUS
  <2>1. IsPlan(d, plans[n]) /\ n + 1 \in 1..L /\ (n + 1) - 1 = n
    BY <1>2, <1>4
  <2>2. plans[n + 1] = PlanChange(plans[n], changes[n + 1])
    BY <1>1, <2>1
  <2>3. Asked(changes[n + 1])
    BY <2>1 DEF L
  <2> QED BY <2>1, <2>2, <2>3, PlanChangeGood
<1>5. Nat \subseteq R
  <2> HIDE DEF R
  <2> QED BY <1>3, <1>4, NatSet
<1>6. IsPlan(d, plans[L])
  BY <1>2, <1>5
<1> QED BY <1>1, <1>6

LEMMA ConvertedCell ==
  ASSUME NEW d, IsDefinition(d), NEW plan, IsPlan(d, plan), plan.ok, NEW row, GoodRow(d, row),
         NEW c \in DOMAIN plan.target, ConvertCell(d, plan, row, c) \notin {Err, Panic}
  PROVE  /\ GoodCell(plan.target[c], ConvertCell(d, plan, row, c))
         /\ Kept(ConvertCell(d, plan, row, c))
         /\ SmallNumbers => Meaning(ConvertCell(d, plan, row, c)) =
                             IF c \in DOMAIN plan.sources THEN Meaning(row[plan.sources[c]])
                             ELSE Meaning(plan.defaults[c])
<1> DEFINE col == plan.target[c]
           s == plan.sources[c]
           v == RowValueFromRef(d[s], row[s])
           value == IF c \in DOMAIN plan.sources
                    THEN IF v = Err THEN Err ELSE ConvertValue(col, v)
                    ELSE IF c \in DOMAIN plan.defaults THEN JsonToRow(col, plan.defaults[c])
                    ELSE Panic
<1>1. ConvertCell(d, plan, row, c) = IF value \in {Err, Panic} THEN value ELSE SqliteValue(col, value)
  BY DEF ConvertCell
<1>2. IsColumn(col)
  BY DEF IsPlan, IsDefinition
<1>3. value \notin {Err, Panic}
  <2> HIDE DEF value
  <2> QED BY <1>1
<1> DEFINE said == IF c \in DOMAIN plan.sources THEN Meaning(row[s]) ELSE Meaning(plan.defaults[c])
<1>4. Accepted(col, value) /\ Kept(value) /\ (SmallNumbers => Meaning(value) = said)
  <2>1. CASE c \in DOMAIN plan.sources
    <3>1. s \in DOMAIN d
      BY <2>1 DEF IsPlan
    <3>2. IsColumn(d[s]) /\ GoodCell(d[s], row[s]) /\ Kept(row[s])
      BY <3>1 DEF IsDefinition, GoodRow
    <3>3. Accepted(d[s], v) /\ Kept(v) /\ Meaning(v) = Meaning(row[s])
      BY <3>2, CellRead, ReadKept, ReadMeaning
    <3>4. value = ConvertValue(col, v) /\ ConvertValue(col, v) # Err
      BY <1>3, <2>1
    <3>5. said = Meaning(row[s])
      BY <2>1
    <3> HIDE DEF v, col, s, value, said
    <3> QED BY <1>2, <3>3, <3>4, <3>5, ConvertAccepted
  <2>2. CASE c \notin DOMAIN plan.sources
    <3>1. c \in DOMAIN plan.defaults /\ value = JsonToRow(col, plan.defaults[c])
      BY <1>3, <2>2
    <3>2. IsJson(plan.defaults[c]) /\ Kept(plan.defaults[c])
      BY <3>1 DEF IsPlan
    <3>3. JsonToRow(col, plan.defaults[c]) # Err
      BY <1>3, <3>1
    <3>4. said = Meaning(plan.defaults[c])
      BY <2>2
    <3> HIDE DEF col, value, said
    <3> QED BY <1>2, <3>1, <3>2, <3>3, <3>4, JsonAccepted, JsonKept, JsonMeaning
  <2> QED BY <2>1, <2>2
<1>5. ConvertCell(d, plan, row, c) = SqliteValue(col, value)
  BY <1>1, <1>3
<1> HIDE DEF value, col, said
<1>6. /\ GoodCell(col, SqliteValue(col, value)) /\ Kept(SqliteValue(col, value))
      /\ Meaning(SqliteValue(col, value)) = Meaning(value)
  BY <1>4, AcceptedStored, StoredKept, StoredMeaning
<1> QED BY <1>4, <1>5, <1>6 DEF col, said

\* copy_converted_rows: the shadow table holds good rows of the new definition.
LEMMA ConvertedRow ==
  ASSUME NEW d, IsDefinition(d), NEW plan, IsPlan(d, plan), plan.ok, NEW row, GoodRow(d, row),
         \A c \in DOMAIN plan.target : ConvertRow(d, plan, row)[c] \notin {Err, Panic}
  PROVE  GoodRow(plan.target, ConvertRow(d, plan, row))
<1> DEFINE new == ConvertRow(d, plan, row)
<1>1. new = [c \in DOMAIN plan.target |-> ConvertCell(d, plan, row, c)]
  BY DEF ConvertRow
<1>2. ASSUME NEW c \in DOMAIN plan.target
      PROVE  GoodCell(plan.target[c], new[c]) /\ Kept(new[c])
  <2>1. new[c] = ConvertCell(d, plan, row, c)
    BY <1>1
  <2>2. ConvertCell(d, plan, row, c) \notin {Err, Panic}
    BY <2>1
  <2> QED BY <2>1, <2>2, ConvertedCell
<1> HIDE DEF new
<1>3. GoodRow(plan.target, new)
  BY <1>1, <1>2 DEF GoodRow
<1> QED BY <1>3 DEF new

-----------------------------------------------------------------------------
(* Where the cells of a column come from: a plan followed forwards finds   *)
(* what Origin finds backwards, if a column is always spelled one way.     *)

OneSpelling == \A a, b \in ColumnNames : SameName(a, b) => a = b

\* Every target column has a source or a default, and nothing else has.
Covers(t, s, e) ==
  /\ DOMAIN s \subseteq DOMAIN t /\ DOMAIN e \subseteq DOMAIN t
  /\ \A x \in DOMAIN t : x \in DOMAIN s \/ x \in DOMAIN e

FromColumn(x) == [column |-> x]
FromDefault(v) == [default |-> v]

Where(s, e, x) == IF x \in DOMAIN s THEN FromColumn(s[x]) ELSE FromDefault(e[x])

LEMMA OriginRecords ==
  ASSUME NEW x
  PROVE  /\ "default" \notin DOMAIN FromColumn(x) /\ FromColumn(x).column = x
         /\ "default" \in DOMAIN FromDefault(x) /\ FromDefault(x).default = x
BY DEF FromColumn, FromDefault

LEMMA BackCases ==
  ASSUME NEW ch, NEW x
  PROVE  /\ Back(ch, FromDefault(x)) = FromDefault(x)
         /\ Back(ch, FromColumn(x)) =
              IF ch.kind = "rename" /\ SameName(ch.to, x) THEN FromColumn(ch.name)
              ELSE IF ch.kind = "add" /\ SameName(ch.name, x) THEN FromDefault(ch.default)
              ELSE FromColumn(x)
<1>1. Back(ch, FromDefault(x)) = FromDefault(x)
  BY OriginRecords DEF Back
<1>2. ASSUME NEW o, "default" \notin DOMAIN o
      PROVE  Back(ch, o) = IF ch.kind = "rename" /\ SameName(ch.to, o.column) THEN [column |-> ch.name]
                           ELSE IF ch.kind = "add" /\ SameName(ch.name, o.column)
                           THEN [default |-> ch.default] ELSE o
  BY <1>2 DEF Back
<1>3. Back(ch, FromColumn(x)) =
        IF ch.kind = "rename" /\ SameName(ch.to, FromColumn(x).column) THEN [column |-> ch.name]
        ELSE IF ch.kind = "add" /\ SameName(ch.name, FromColumn(x).column)
        THEN [default |-> ch.default] ELSE FromColumn(x)
  BY <1>2, OriginRecords
<1>4. FromColumn(x).column = x
  BY OriginRecords
<1> QED BY <1>1, <1>3, <1>4 DEF FromColumn, FromDefault

LEMMA AddTraced ==
  ASSUME NEW t, NEW s, NEW e, Covers(t, s, e), NEW name, name \notin DOMAIN t, NEW col, NEW v
  PROVE  LET t2 == Over(t, Single(name, col))
             e2 == Over(Single(name, v), e)
         IN  /\ Covers(t2, s, e2)
             /\ Where(s, e2, name) = FromDefault(v)
             /\ \A x \in DOMAIN t2 : x # name => x \in DOMAIN t /\ Where(s, e2, x) = Where(s, e, x)
<1> DEFINE t2 == Over(t, Single(name, col))
           e2 == Over(Single(name, v), e)
<1>1. /\ \A x : x \in DOMAIN t2 <=> x \in DOMAIN t \/ x = name
      /\ \A x : x \in DOMAIN e2 <=> x \in DOMAIN e \/ x = name
      /\ e2[name] = v
      /\ \A x \in DOMAIN e : x # name => e2[x] = e[x]
  BY DEF Over, Single
<1> HIDE DEF t2, e2
<1>2. Covers(t2, s, e2)
  BY <1>1 DEF Covers
<1>3. Where(s, e2, name) = FromDefault(v)
  BY <1>1 DEF Covers, Where
<1>4. ASSUME NEW x \in DOMAIN t2, x # name
      PROVE  x \in DOMAIN t /\ Where(s, e2, x) = Where(s, e, x)
  <2>1. x \in DOMAIN t
    BY <1>1, <1>4
  <2>2. x \notin DOMAIN s => e2[x] = e[x]
    BY <1>1, <1>4, <2>1 DEF Covers
  <2> QED BY <2>1, <2>2 DEF Where
<1> QED BY <1>2, <1>3, <1>4 DEF t2, e2

LEMMA DropTraced ==
  ASSUME NEW t, NEW s, NEW e, Covers(t, s, e), NEW c
  PROVE  /\ Covers(Without(t, c), Without(s, c), Without(e, c))
         /\ \A x \in DOMAIN Without(t, c) :
              x \in DOMAIN t /\ Where(Without(s, c), Without(e, c), x) = Where(s, e, x)
<1> DEFINE t2 == Without(t, c)
           s2 == Without(s, c)
           e2 == Without(e, c)
<1>1. /\ \A x : x \in DOMAIN t2 <=> x \in DOMAIN t /\ x # c
      /\ \A x : x \in DOMAIN s2 <=> x \in DOMAIN s /\ x # c
      /\ \A x : x \in DOMAIN e2 <=> x \in DOMAIN e /\ x # c
      /\ \A x \in DOMAIN s : x # c => s2[x] = s[x]
      /\ \A x \in DOMAIN e : x # c => e2[x] = e[x]
  BY DEF Without
<1> HIDE DEF t2, s2, e2
<1>2. Covers(t2, s2, e2)
  BY <1>1 DEF Covers
<1>3. ASSUME NEW x \in DOMAIN t2
      PROVE  x \in DOMAIN t /\ Where(s2, e2, x) = Where(s, e, x)
  <2>1. x \in DOMAIN t /\ x # c
    BY <1>1, <1>3
  <2>2. (x \in DOMAIN s2 <=> x \in DOMAIN s) /\ (x \in DOMAIN s => s2[x] = s[x])
    BY <1>1, <2>1
  <2>3. x \notin DOMAIN s => e2[x] = e[x]
    BY <1>1, <2>1 DEF Covers
  <2> QED BY <2>1, <2>2, <2>3 DEF Where
<1> QED BY <1>2, <1>3 DEF t2, s2, e2

\* A map with a key moved, or without the key.
IsMoved(f, a, b, g) ==
  IF a \in DOMAIN f
  THEN /\ \A y : y \in DOMAIN g <=> (y \in DOMAIN f /\ y # a) \/ y = b
       /\ g[b] = f[a]
       /\ \A y \in DOMAIN f : y # a /\ y # b => g[y] = f[y]
  ELSE g = f

LEMMA MovedIs ==
  ASSUME NEW f, NEW a, NEW b
  PROVE  IsMoved(f, a, b, Moved(f, a, b))
<1>1. CASE a \in DOMAIN f
  <2> DEFINE g == Moved(f, a, b)
  <2>1. /\ \A y : y \in DOMAIN g <=> (y \in DOMAIN f /\ y # a) \/ y = b
        /\ g[b] = f[a]
        /\ \A y \in DOMAIN f : y # a /\ y # b => g[y] = f[y]
    BY <1>1, MovedApply
  <2> HIDE DEF g
  <2>2. IsMoved(f, a, b, g)
    BY <1>1, <2>1 DEF IsMoved
  <2> QED BY <2>2 DEF g
<1>2. CASE a \notin DOMAIN f
  BY <1>2, MovedNot DEF IsMoved
<1> QED BY <1>1, <1>2

LEMMA RenameTraced ==
  ASSUME NEW t, NEW s, NEW e, Covers(t, s, e), NEW name \in DOMAIN t, NEW to, to \notin DOMAIN t,
         NEW t2, IsMoved(t, name, to, t2), NEW s2, IsMoved(s, name, to, s2),
         NEW e2, IsMoved(e, name, to, e2)
  PROVE  /\ Covers(t2, s2, e2)
         /\ Where(s2, e2, to) = Where(s, e, name)
         /\ \A x \in DOMAIN t2 : x # to => x \in DOMAIN t /\ Where(s2, e2, x) = Where(s, e, x)
<1>0. name # to /\ to \notin DOMAIN s /\ to \notin DOMAIN e
  BY DEF Covers
<1>1. \A x : x \in DOMAIN t2 <=> (x \in DOMAIN t /\ x # name) \/ x = to
  BY DEF IsMoved
<1>2. /\ to \in DOMAIN s2 <=> name \in DOMAIN s
      /\ name \in DOMAIN s => s2[to] = s[name]
      /\ name \notin DOMAIN s2
      /\ \A x : x # to /\ x # name => (x \in DOMAIN s2 <=> x \in DOMAIN s)
      /\ \A x \in DOMAIN s : x # to /\ x # name => s2[x] = s[x]
  BY <1>0 DEF IsMoved
<1>3. /\ to \in DOMAIN e2 <=> name \in DOMAIN e
      /\ name \in DOMAIN e => e2[to] = e[name]
      /\ name \notin DOMAIN e2
      /\ \A x : x # to /\ x # name => (x \in DOMAIN e2 <=> x \in DOMAIN e)
      /\ \A x \in DOMAIN e : x # to /\ x # name => e2[x] = e[x]
  BY <1>0 DEF IsMoved
<1>4. Covers(t2, s2, e2)
  BY <1>1, <1>2, <1>3 DEF Covers
<1>5. Where(s2, e2, to) = Where(s, e, name)
  BY <1>2, <1>3 DEF Where, Covers
<1>6. ASSUME NEW x \in DOMAIN t2, x # to
      PROVE  x \in DOMAIN t /\ Where(s2, e2, x) = Where(s, e, x)
  <2>1. x \in DOMAIN t /\ x # name
    BY <1>1, <1>6
  <2>2. (x \in DOMAIN s2 <=> x \in DOMAIN s) /\ (x \in DOMAIN s => s2[x] = s[x])
    BY <1>2, <1>6, <2>1
  <2>3. x \notin DOMAIN s => e2[x] = e[x]
    BY <1>3, <1>6, <2>1 DEF Covers
  <2> QED BY <2>1, <2>2, <2>3 DEF Where
<1> QED BY <1>4, <1>5, <1>6

\* An origin o in the plan from which w is reached.
Traced(plan, o, w) ==
  \/ o = w /\ \E v : w = FromDefault(v)
  \/ \E y \in DOMAIN plan.target : o = FromColumn(y) /\ Where(plan.sources, plan.defaults, y) = w

LEMMA StoredAsSpelled ==
  ASSUME OneSpelling, NEW t, DOMAIN t \subseteq ColumnNames, NEW name \in ColumnNames
  PROVE  /\ Known(t, name) <=> name \in DOMAIN t
         /\ name \in DOMAIN t => Stored(t, name) = name
<1>1. \A x \in DOMAIN t : SameName(x, name) <=> x = name
  BY DEF OneSpelling, SameName
<1>2. Known(t, name) <=> name \in DOMAIN t
  BY <1>1 DEF Known
<1>3. ASSUME name \in DOMAIN t PROVE Stored(t, name) = name
  BY <1>1, <1>3 DEF Stored
<1> QED BY <1>2, <1>3

\* One change, backwards.
LEMMA StepTraced ==
  ASSUME OneSpelling, NEW d, NEW plan, IsPlan(d, plan), plan.ok,
         Covers(plan.target, plan.sources, plan.defaults), NEW ch, Asked(ch),
         NEW next, next = PlanChange(plan, ch), next.ok
  PROVE  /\ Covers(next.target, next.sources, next.defaults)
         /\ \A x \in DOMAIN next.target :
              Traced(plan, Back(ch, FromColumn(x)), Where(next.sources, next.defaults, x))
<1> DEFINE t == plan.target
           s == plan.sources
           e == plan.defaults
           name == ch.name
           to == ch.to
           c == Stored(t, name)
           Same == \A x \in DOMAIN next.target :
                     x \in DOMAIN t /\ Where(next.sources, next.defaults, x) = Where(s, e, x)
<1>1. /\ plan = [target |-> t, sources |-> s, defaults |-> e, ok |-> plan.ok]
      /\ DOMAIN t \subseteq ColumnNames
  BY DEF IsPlan, IsDefinition
<1>2. /\ ch.kind \in {"add", "drop", "rename", "alter", "store"}
      /\ name \in ColumnNames /\ to \in ColumnNames
  BY DEF Asked, IsChange
<1>3. next # NoPlan
  BY DEF NoPlan
<1>4. \/ /\ ch.kind = "add" /\ ~Known(t, name)
         /\ next = [target |-> Over(t, Single(name, ch.col)), sources |-> s,
                    defaults |-> Over(Single(name, ch.default), e), ok |-> plan.ok]
      \/ /\ ch.kind = "drop" /\ Known(t, name)
         /\ next = [target |-> Without(t, c), sources |-> Without(s, c),
                    defaults |-> Without(e, c), ok |-> plan.ok]
      \/ /\ ch.kind = "rename" /\ Known(t, name) /\ ~Known(t, to)
         /\ next = [target |-> Moved(t, c, to), sources |-> Moved(s, name, to),
                    defaults |-> Moved(e, name, to), ok |-> plan.ok]
      \/ /\ ch.kind = "alter" /\ Known(t, name) /\ SameName(to, name)
         /\ next = [target |-> Over(Single(to, ch.col), Without(t, c)), sources |-> s,
                    defaults |-> e, ok |-> plan.ok]
      \/ ch.kind = "store" /\ next = plan
  BY <1>1, <1>2, <1>3, PlanFields
<1> HIDE DEF t, s, e, name, to, c
<1>5. Covers(t, s, e)
  BY DEF t, s, e
<1>6. /\ Known(t, name) => name \in DOMAIN t /\ c = name
      /\ ~Known(t, name) => name \notin DOMAIN t
      /\ ~Known(t, to) => to \notin DOMAIN t
  BY <1>1, <1>2, StoredAsSpelled DEF c
<1>7. ASSUME NEW x \in DOMAIN t, Where(next.sources, next.defaults, x) = Where(s, e, x),
             Back(ch, FromColumn(x)) = FromColumn(x)
      PROVE  Traced(plan, Back(ch, FromColumn(x)), Where(next.sources, next.defaults, x))
  BY <1>7 DEF Traced, t, s, e
<1>8. CASE ch.kind = "add"
  <2> DEFINE t2 == Over(t, Single(name, ch.col))
             e2 == Over(Single(name, ch.default), e)
  <2>1. next.target = t2 /\ next.sources = s /\ next.defaults = e2 /\ name \notin DOMAIN t
    BY <1>4, <1>6, <1>8
  <2>2. /\ Covers(t2, s, e2) /\ Where(s, e2, name) = FromDefault(ch.default)
        /\ \A x \in DOMAIN t2 : x # name => x \in DOMAIN t /\ Where(s, e2, x) = Where(s, e, x)
    BY <1>5, <2>1, AddTraced
  <2> HIDE DEF t2, e2
  <2>3. ASSUME NEW x \in DOMAIN t2
        PROVE  Traced(plan, Back(ch, FromColumn(x)), Where(s, e2, x))
    <3>1. CASE x = name
      <4>1. Back(ch, FromColumn(x)) = FromDefault(ch.default)
        BY <1>8, <3>1, BackCases DEF SameName, name
      <4> QED BY <2>2, <3>1, <4>1 DEF Traced
    <3>2. CASE x # name
      <4>1. x \in ColumnNames /\ ~SameName(name, x)
        BY <1>1, <1>2, <2>2, <3>2 DEF OneSpelling
      <4>2. Back(ch, FromColumn(x)) = FromColumn(x)
        BY <1>8, <4>1, BackCases DEF name
      <4> QED BY <1>7, <2>1, <2>2, <3>2, <4>2
    <3> QED BY <3>1, <3>2
  <2> QED BY <2>1, <2>2, <2>3
<1>9. CASE ch.kind = "drop"
  <2> DEFINE t2 == Without(t, c)
             s2 == Without(s, c)
             e2 == Without(e, c)
  <2>1. next.target = t2 /\ next.sources = s2 /\ next.defaults = e2
    BY <1>4, <1>9
  <2>2. /\ Covers(t2, s2, e2)
        /\ \A x \in DOMAIN t2 : x \in DOMAIN t /\ Where(s2, e2, x) = Where(s, e, x)
    BY <1>5, DropTraced
  <2> HIDE DEF t2, s2, e2
  <2>3. \A x : Back(ch, FromColumn(x)) = FromColumn(x)
    BY <1>9, BackCases
  <2> QED BY <1>7, <2>1, <2>2, <2>3
<1>10. CASE ch.kind = "rename"
  <2> DEFINE t2 == Moved(t, name, to)
             s2 == Moved(s, name, to)
             e2 == Moved(e, name, to)
  <2>1. /\ next.target = t2 /\ next.sources = s2 /\ next.defaults = e2
        /\ name \in DOMAIN t /\ to \notin DOMAIN t
    BY <1>4, <1>6, <1>10
  <2>2. IsMoved(t, name, to, t2) /\ IsMoved(s, name, to, s2) /\ IsMoved(e, name, to, e2)
    BY MovedIs
  <2> HIDE DEF t2, s2, e2
  <2>3. /\ Covers(t2, s2, e2) /\ Where(s2, e2, to) = Where(s, e, name)
        /\ \A x \in DOMAIN t2 : x # to => x \in DOMAIN t /\ Where(s2, e2, x) = Where(s, e, x)
    BY <1>5, <2>1, <2>2, RenameTraced
  <2>4. ASSUME NEW x \in DOMAIN t2
        PROVE  Traced(plan, Back(ch, FromColumn(x)), Where(s2, e2, x))
    <3>1. CASE x = to
      <4>1. Back(ch, FromColumn(x)) = FromColumn(name)
        BY <1>10, <3>1, BackCases DEF SameName, to, name
      <4> QED BY <2>1, <2>3, <3>1, <4>1 DEF Traced, t, s, e
    <3>2. CASE x # to
      <4>1. x \in ColumnNames /\ ~SameName(to, x)
        BY <1>1, <1>2, <2>3, <3>2 DEF OneSpelling
      <4>2. Back(ch, FromColumn(x)) = FromColumn(x)
        BY <1>10, <4>1, BackCases DEF to
      <4> QED BY <1>7, <2>1, <2>3, <3>2, <4>2
    <3> QED BY <3>1, <3>2
  <2> QED BY <2>1, <2>3, <2>4
<1>11. CASE ch.kind = "alter"
  <2> DEFINE t2 == Over(Single(to, ch.col), Without(t, c))
  <2>1. /\ next.target = t2 /\ next.sources = s /\ next.defaults = e
        /\ name \in DOMAIN t /\ c = name /\ SameName(to, name)
    BY <1>4, <1>6, <1>11
  <2>2. to = name
    BY <1>2, <2>1 DEF OneSpelling
  <2>3. \A x : x \in DOMAIN t2 <=> x \in DOMAIN t
    BY <2>1, <2>2 DEF Over, Single, Without
  <2> HIDE DEF t2
  <2>4. Covers(t2, s, e)
    BY <1>5, <2>3 DEF Covers
  <2>5. \A x : Back(ch, FromColumn(x)) = FromColumn(x)
    BY <1>11, BackCases
  <2> QED BY <1>7, <2>1, <2>3, <2>4, <2>5
<1>12. CASE ch.kind = "store"
  <2>1. next.target = t /\ next.sources = s /\ next.defaults = e
    BY <1>4, <1>12 DEF t, s, e
  <2>2. \A x : Back(ch, FromColumn(x)) = FromColumn(x)
    BY <1>12, BackCases
  <2> QED BY <1>5, <1>7, <2>1, <2>2
<1> QED BY <1>2, <1>8, <1>9, <1>10, <1>11, <1>12

\* Origin, unfolded.
LEMMA OriginSteps ==
  ASSUME NEW c, NEW changes, Len(changes) \in Nat
  PROVE  \E origin : /\ origin[0] = FromColumn(c)
                     /\ \A n \in 1..Len(changes) :
                          origin[n] = Back(changes[Len(changes) + 1 - n], origin[n - 1])
                     /\ Origin(c, changes) = origin[Len(changes)]
<1> DEFINE start == [column |-> c]
           Step(o, n) == Back(changes[Len(changes) + 1 - n], o)
           F(h, n) == IF n = 0 THEN start ELSE Step(h[n - 1], n)
           Solution(h, k) == h = [n \in 0..k |-> F(h, n)]
           K == {k \in Nat : \E h : Solution(h, k)}
           L == Len(changes)
           origin == CHOOSE h : Solution(h, L)
<1>1. Origin(c, changes) = origin[L]
  BY DEF Origin
<1>2. L \in Nat
  OBVIOUS
<1> HIDE DEF start, Step, L
<1>3. 0 \in K
  <2>1. Solution([n \in 0..0 |-> start], 0)
    OBVIOUS
  <2> QED BY <2>1
<1>4. ASSUME NEW k \in Nat, k \in K PROVE k + 1 \in K
  <2>1. PICK h : Solution(h, k)
    BY <1>4
  <2> DEFINE g == [n \in 0..(k + 1) |-> IF n <= k THEN h[n] ELSE Step(h[k], n)]
  <2>2. ASSUME NEW n \in 0..(k + 1) PROVE g[n] = F(g, n)
    <3>1. CASE n = 0
      BY <2>1, <3>1
    <3>2. CASE n \in 1..k
      <4>1. n \in 0..k /\ n # 0 /\ n <= k /\ n - 1 \in 0..(k + 1) /\ n - 1 <= k
        BY <3>2
      <4>2. h[n] = Step(h[n - 1], n)
        BY <2>1, <4>1
      <4>3. g[n] = h[n] /\ g[n - 1] = h[n - 1]
        BY <4>1
      <4> HIDE DEF g
      <4> QED BY <4>1, <4>2, <4>3
    <3>3. CASE n = k + 1
      <4>1. n # 0 /\ ~(n <= k) /\ n - 1 = k /\ k \in 0..(k + 1) /\ k <= k
        BY <3>3
      <4>2. g[n] = Step(h[k], n) /\ g[k] = h[k]
        BY <4>1
      <4> HIDE DEF g
      <4> QED BY <4>1, <4>2
    <3> QED BY <3>1, <3>2, <3>3
  <2>3. Solution(g, k + 1)
    BY <2>2
  <2> HIDE DEF g
  <2>4. \E x : Solution(x, k + 1)
    BY <2>3
  <2>5. k + 1 \in Nat
    OBVIOUS
  <2> QED BY <2>4, <2>5
<1>5. Nat \subseteq K
  <2> HIDE DEF K
  <2> QED BY <1>3, <1>4, NatSet
<1>6. Solution(origin, L)
  BY <1>2, <1>5
<1> HIDE DEF origin
<1>7. origin[0] = start /\ \A n \in 1..L : origin[n] = Step(origin[n - 1], n)
  BY <1>2, <1>6
<1> QED BY <1>1, <1>7 DEF start, Step, L, FromColumn

\* SchemaPlan::build keeps track of every column.
LEMMA BuildTraced ==
  ASSUME OneSpelling, NEW d, IsDefinition(d), NEW changes, Len(changes) \in Nat,
         \A i \in 1..Len(changes) : Asked(changes[i]), Build(d, changes).ok,
         NEW c \in DOMAIN Build(d, changes).target
  PROVE  /\ Origin(c, changes) = Where(Build(d, changes).sources, Build(d, changes).defaults, c)
         /\ (\E v : Origin(c, changes) = FromDefault(v)) \/ \E x \in DOMAIN d : Origin(c, changes) = FromColumn(x)
<1> DEFINE L == Len(changes)
<1>1. PICK plans : /\ plans[0] = Unchanged(d)
                   /\ \A n \in 1..L : plans[n] = PlanChange(plans[n - 1], changes[n])
                   /\ Build(d, changes) = plans[L]
  BY BuildSteps
<1>2. PICK origin : /\ origin[0] = FromColumn(c)
                    /\ \A n \in 1..L : origin[n] = Back(changes[L + 1 - n], origin[n - 1])
                    /\ Origin(c, changes) = origin[L]
  BY OriginSteps
<1>3. L \in Nat /\ \A n \in 1..L : Asked(changes[n])
  OBVIOUS
<1>4. plans[L].ok /\ c \in DOMAIN plans[L].target
  BY <1>1
<1> HIDE DEF L
<1> DEFINE Sound(p) == IsPlan(d, p) /\ (p.ok => Covers(p.target, p.sources, p.defaults))
           w == Where(plans[L].sources, plans[L].defaults, c)
           R == {n \in Nat : n <= L => Sound(plans[n])}
           B == {m \in Nat : m <= L => plans[L - m].ok /\ Traced(plans[L - m], origin[m], w)}
<1>5. 0 \in R
  <2>1. IsPlan(d, Unchanged(d))
    BY DEF IsPlan, Unchanged
  <2>2. Covers(Unchanged(d).target, Unchanged(d).sources, Unchanged(d).defaults)
    BY DEF Covers, Unchanged
  <2> QED BY <1>1, <2>1, <2>2
<1>6. ASSUME NEW n \in Nat, n \in R PROVE n + 1 \in R
  <2> SUFFICES ASSUME n + 1 <= L PROVE Sound(plans[n + 1])
    OBVIOUS
  <2>1. Sound(plans[n]) /\ n + 1 \in 1..L /\ (n + 1) - 1 = n
    BY <1>3, <1>6
  <2>2. plans[n + 1] = PlanChange(plans[n], changes[n + 1]) /\ Asked(changes[n + 1])
    BY <1>1, <1>3, <2>1
  <2>3. IsPlan(d, plans[n + 1])
    BY <2>1, <2>2, PlanChangeGood
  <2>4. ~plans[n].ok => plans[n + 1] = plans[n]
    BY <2>2 DEF PlanChange
  <2>5. ASSUME plans[n + 1].ok
        PROVE  Covers(plans[n + 1].target, plans[n + 1].sources, plans[n + 1].defaults)
    BY <2>1, <2>2, <2>4, <2>5, StepTraced
  <2> QED BY <2>3, <2>5
<1>7. \A n \in 0..L : Sound(plans[n])
  <2> HIDE DEF R
  <2>1. Nat \subseteq R
    BY <1>5, <1>6, NatSet
  <2> QED BY <1>3, <2>1 DEF R
<1>8. 0 \in B
  <2>1. L - 0 = L
    BY <1>3
  <2> QED BY <1>2, <1>4, <2>1 DEF Traced
<1>9. ASSUME NEW m \in Nat, m \in B PROVE m + 1 \in B
  <2> SUFFICES ASSUME m + 1 <= L
               PROVE  plans[L - (m + 1)].ok /\ Traced(plans[L - (m + 1)], origin[m + 1], w)
    OBVIOUS
  <2> DEFINE n == L - m
             p == plans[L - (m + 1)]
             q == plans[L - m]
             ch == changes[n]
  <2>1. n \in 1..L /\ n - 1 = L - (m + 1) /\ L + 1 - (m + 1) = n /\ m + 1 \in 1..L /\ (m + 1) - 1 = m
        /\ L - (m + 1) \in 0..L
    BY <1>3
  <2>2. q = PlanChange(p, ch) /\ Asked(ch) /\ Sound(p)
    BY <1>1, <1>3, <1>7, <2>1
  <2>3. q.ok /\ Traced(q, origin[m], w)
    BY <1>3, <1>9
  <2>4. origin[m + 1] = Back(ch, origin[m])
    BY <1>2, <2>1
  <2> HIDE DEF p, q, ch, n, w
  <2>5. p.ok
    <3>1. ~p.ok => q = p
      BY <2>2 DEF PlanChange
    <3> QED BY <2>3, <3>1
  <2>6. \A x \in DOMAIN q.target : Traced(p, Back(ch, FromColumn(x)), Where(q.sources, q.defaults, x))
    BY <2>2, <2>3, <2>5, StepTraced
  <2>7. Traced(p, Back(ch, origin[m]), w)
    <3>1. CASE origin[m] = w /\ \E v : w = FromDefault(v)
      BY <3>1, BackCases DEF Traced
    <3>2. CASE \E y \in DOMAIN q.target :
                 origin[m] = FromColumn(y) /\ Where(q.sources, q.defaults, y) = w
      BY <2>6, <3>2
    <3> QED BY <2>3, <3>1, <3>2 DEF Traced
  <2> QED BY <2>4, <2>5, <2>7 DEF p
<1>10. Traced(plans[0], origin[L], w)
  <2> HIDE DEF B
  <2>1. Nat \subseteq B
    BY <1>8, <1>9, NatSet
  <2>2. L - L = 0
    BY <1>3
  <2> QED BY <1>3, <2>1, <2>2 DEF B
<1> HIDE DEF w
<1>11. \A y \in DOMAIN plans[0].target :
         y \in DOMAIN d /\ Where(plans[0].sources, plans[0].defaults, y) = FromColumn(y)
  BY <1>1 DEF Unchanged, Where
<1>12. origin[L] = w /\ ((\E v : w = FromDefault(v)) \/ \E x \in DOMAIN d : w = FromColumn(x))
  BY <1>10, <1>11 DEF Traced
<1> QED BY <1>1, <1>2, <1>12 DEF w

-----------------------------------------------------------------------------
(* The invariant: the rows are good rows of the definition and the index   *)
(* tracks them; what waits, waits with a request that was sent.            *)

DataInv ==
  /\ IsDefinition(def) /\ GoodRows(def, rows)
  /\ Tracks(def, queue, index, rows)
  /\ job \subseteq SchemaChanges

IsClient(r) ==
  /\ r = [pc |-> r.pc, key |-> r.key, seen |-> r.seen, op |-> r.op, values |-> r.values,
          status |-> r.status]
  /\ r.pc \in {"idle", "read", "waiting"}
  /\ r.status \in {0, 200, 400, 404, 412, 423, 500}
  /\ r.pc = "waiting" => Sent(r.values)

ClientInv ==
  client = [c \in Clients |-> client[c]] /\ \A c \in Clients : IsClient(client[c])

CountInv ==
  /\ locked \in BOOLEAN /\ poisoned \in BOOLEAN /\ (job # {} => locked)
  /\ writes \in 0..MaxWrites /\ migrations \in 0..MaxMigrations

IInv == DataInv /\ ClientInv /\ CountInv

LEMMA SentKept ==
  ASSUME NEW v \in SentValues
  PROVE  Kept(v)
BY DEF Kept, CanonicalTimes, SmallNumbers

LEMMA InUnion ==
  ASSUME NEW S, NEW x \in S
  PROVE  x \subseteq UNION S
OBVIOUS

LEMMA SentSets ==
  /\ \A body \in Bodies \cup Edits : ValuesOf(body) \subseteq SentValues
  /\ \A batch \in Batches : BatchValues(batch) \subseteq SentValues
  /\ \A changes \in SchemaChanges : DefaultsOf(changes) \subseteq SentValues
<1> DEFINE A == {ValuesOf(body) : body \in Bodies \cup Edits}
           B == {BatchValues(batch) : batch \in Batches}
           C == {DefaultsOf(changes) : changes \in SchemaChanges}
<1>1. /\ \A body \in Bodies \cup Edits : ValuesOf(body) \in A
      /\ \A batch \in Batches : BatchValues(batch) \in B
      /\ \A changes \in SchemaChanges : DefaultsOf(changes) \in C
  OBVIOUS
<1> DEFINE S == A \cup B \cup C
<1>2. SentValues = UNION S
  BY DEF SentValues
<1> HIDE DEF A, B, C
<1>3. \A x \in S : x \subseteq UNION S
  BY InUnion
<1> QED BY <1>1, <1>2, <1>3

LEMMA BodySent ==
  ASSUME NEW body \in Bodies \cup Edits
  PROVE  Sent(body)
<1>1. IsObject(body)
  BY RequestsAssumption
<1>2. ValuesOf(body) \subseteq SentValues /\ \A f \in DOMAIN body : body[f] \in ValuesOf(body)
  BY SentSets DEF ValuesOf
<1>3. \A f \in DOMAIN body : Kept(body[f])
  BY <1>2, SentKept
<1> QED BY <1>1, <1>3 DEF Sent

LEMMA BatchSent ==
  ASSUME NEW batch \in Batches
  PROVE  /\ Len(batch) \in Nat
         /\ \A i \in 1..Len(batch) : IsMutation(batch[i]) /\ Sent(batch[i].values)
<1>1. batch \in Seq({batch[i] : i \in DOMAIN batch}) /\ \A i \in DOMAIN batch : IsMutation(batch[i])
  BY RequestsAssumption
<1>2. Len(batch) \in Nat /\ DOMAIN batch = 1..Len(batch)
  BY <1>1
<1>3. ASSUME NEW i \in DOMAIN batch PROVE Sent(batch[i].values)
  <2>1. IsObject(batch[i].values)
    BY <1>1 DEF IsMutation
  <2>2. BatchValues(batch) \subseteq SentValues
    BY SentSets
  <2>3. ValuesOf(batch[i].values) \subseteq BatchValues(batch)
    BY DEF BatchValues
  <2>4. \A f \in DOMAIN batch[i].values : batch[i].values[f] \in ValuesOf(batch[i].values)
    BY DEF ValuesOf
  <2>5. \A f \in DOMAIN batch[i].values : Kept(batch[i].values[f])
    BY <2>2, <2>3, <2>4, SentKept
  <2> QED BY <2>1, <2>5 DEF Sent
<1> QED BY <1>1, <1>2, <1>3

LEMMA ChangesSent ==
  ASSUME NEW changes \in SchemaChanges
  PROVE  /\ Len(changes) \in Nat
         /\ \A i \in 1..Len(changes) : Asked(changes[i])
<1>1. /\ changes \in Seq({changes[i] : i \in DOMAIN changes})
      /\ \A i \in DOMAIN changes : IsChange(changes[i])
  BY RequestsAssumption
<1>2. Len(changes) \in Nat /\ DOMAIN changes = 1..Len(changes)
  BY <1>1
<1>3. ASSUME NEW i \in DOMAIN changes PROVE Asked(changes[i])
  <2>1. changes[i].default \in DefaultsOf(changes) /\ DefaultsOf(changes) \subseteq SentValues
    BY SentSets DEF DefaultsOf
  <2>2. changes[i].name \in Spellings /\ changes[i].to \in Spellings
    BY <1>1 DEF IsChange
  <2>3. changes[i].name \in ColumnNames /\ changes[i].to \in ColumnNames
    BY <2>2 DEF ColumnNames
  <2> QED BY <1>1, <2>1, <2>3, SentKept DEF Asked
<1> QED BY <1>2, <1>3

\* Writes that stage the operations they made.
LEMMA StagedData ==
  ASSUME DataInv, UNCHANGED <<def, job>>, NEW ops, NEW deferred, GoodRows(def, rows'),
         Follows(def, ops, rows, rows'), Stage(ops, deferred)
  PROVE  DataInv'
<1>1. Tracks(def, queue', index', rows')
  <2> DEFINE new == rows'
  <2>1. DOMAIN new \subseteq Keys /\ Follows(def, ops, rows, new)
    BY DEF GoodRows
  <2>2. Tracks(def, queue, index, rows)
    BY DEF DataInv
  <2> HIDE DEF new
  <2>3. Tracks(def, queue', index', new)
    BY <2>1, <2>2, StageTracks
  <2> QED BY <2>3 DEF new
<1> QED BY <1>1 DEF DataInv

LEMMA FlushData ==
  ASSUME DataInv
  PROVE  Tracks(def, <<>>, Committed(queue), rows)
BY CommitTracks DEF DataInv, GoodRows

LEMMA UpdateData ==
  ASSUME DataInv, UNCHANGED <<def, job>>, NEW keys, NEW values, NEW deferred, Sent(values),
         UpdateWorks(rows, keys, values), Update(keys, values, deferred)
  PROVE  DataInv'
<1> DEFINE new == UpdatedRows(rows, keys, values)
<1>1. rows' = new /\ Stage(Upserts(new, keys), deferred)
  BY DEF Update
<1>2. GoodRows(def, new) /\ Follows(def, Upserts(new, keys), rows, new)
  BY UpdateFollows DEF DataInv
<1> HIDE DEF new
<1>3. GoodRows(def, rows') /\ Follows(def, Upserts(new, keys), rows, rows')
  BY <1>1, <1>2
<1> QED BY <1>1, <1>3, StagedData

LEMMA DeleteData ==
  ASSUME DataInv, UNCHANGED <<def, job>>, NEW keys, keys \subseteq Keys, NEW deferred,
         DeleteRows(keys, deferred)
  PROVE  DataInv'
<1>1. rows' = Remaining(rows, keys) /\ Stage(Deletes(keys), deferred)
  BY DEF DeleteRows
<1>2. GoodRows(def, Remaining(rows, keys)) /\ Follows(def, Deletes(keys), rows, Remaining(rows, keys))
  BY DeleteFollows DEF DataInv
<1>3. GoodRows(def, rows') /\ Follows(def, Deletes(keys), rows, rows')
  BY <1>1, <1>2
<1> QED BY <1>1, <1>3, StagedData

LEMMA BulkWriteData ==
  ASSUME DataInv, NEW k \in Keys, NEW body \in Bodies, NEW upsert \in BOOLEAN,
         NEW deferred \in BOOLEAN, BulkWrite(k, body, upsert, deferred)
  PROVE  DataInv'
<1> DEFINE op == Single(k, Written(Inserted(body)))
<1>1. Sent(body) /\ IsDefinition(def) /\ GoodRows(def, rows)
  BY BodySent DEF DataInv
<1>2. Stage(op, deferred) /\ UNCHANGED <<def, job>>
  BY DEF BulkWrite, Others
<1>3. CASE upsert
  <2>1. Acceptable(Inserted(body)) /\ rows' = UpsertRow(rows, k, Inserted(body))
    BY <1>3 DEF BulkWrite, InsertWorks
  <2>2. GoodRows(def, rows') /\ Follows(def, op, rows, rows')
    BY <1>1, <2>1, UpsertFollows
  <2> QED BY <1>2, <2>2, StagedData
<1>4. CASE ~upsert
  <2>1. InsertWorks(rows, k, body, FALSE) /\ rows' = InsertRow(rows, k, Inserted(body))
    BY <1>4 DEF BulkWrite, InsertWorks
  <2>2. GoodRows(def, rows') /\ Follows(def, op, rows, rows')
    BY <1>1, <2>1, InsertFollows
  <2> QED BY <1>2, <2>2, StagedData
<1> QED BY <1>3, <1>4

LEMMA MutateBatchData ==
  ASSUME DataInv, NEW batch \in Batches, MutateBatch(batch)
  PROVE  DataInv'
<1> DEFINE done == Transaction(batch)
           q == Over(done.ops, queue)
<1>1. IsDefinition(def) /\ GoodRows(def, rows) /\ Tracks(def, queue, index, rows)
  BY DEF DataInv
<1>2. IsProgress(done)
  BY <1>1, BatchSent, TransactionFollows
<1>3. /\ rows' = IF done.ok THEN done.rows ELSE rows
      /\ index' = Committed(IF done.ok THEN q ELSE queue)
      /\ queue' = <<>> /\ UNCHANGED <<def, job>>
  BY DEF MutateBatch, Others
<1> HIDE DEF done
<1>4. CASE done.ok
  <2> DEFINE new == done.rows
  <2>1. GoodRows(def, new) /\ Follows(def, done.ops, rows, new)
    BY <1>2, <1>4 DEF IsProgress
  <2>2. Tracks(def, q, index, new)
    BY <1>1, <2>1, TracksOver
  <2>3. rows' = new /\ index' = Committed(q)
    BY <1>3, <1>4
  <2> HIDE DEF new, q
  <2>4. Tracks(def, <<>>, Committed(q), new)
    BY <2>1, <2>2, CommitTracks DEF GoodRows
  <2> QED BY <1>1, <1>3, <2>1, <2>3, <2>4 DEF DataInv
<1>5. CASE ~done.ok
  <2>1. rows' = rows /\ index' = Committed(queue)
    BY <1>3, <1>5
  <2> QED BY <1>1, <1>3, <2>1, FlushData DEF DataInv
<1> QED BY <1>4, <1>5

LEMMA ApplyData ==
  ASSUME DataInv, ClientInv, NEW c \in Clients, NEW deferred \in BOOLEAN, Apply(c, deferred)
  PROVE  DataInv'
<1> DEFINE keys == Matching(client[c].key)
<1>1. UNCHANGED <<def, job>> /\ client[c].pc = "waiting"
  BY DEF Apply
<1>2. \/ UNCHANGED <<rows, index, queue>>
      \/ DeleteRows(keys, deferred)
      \/ UpdateWorks(rows, keys, client[c].values) /\ Update(keys, client[c].values, deferred)
  BY DEF Apply
<1>3. CASE UNCHANGED <<rows, index, queue>>
  BY <1>1, <1>3 DEF DataInv
<1>4. CASE DeleteRows(keys, deferred)
  <2>1. keys \subseteq Keys
    BY DEF Matching, DataInv, Tracks
  <2> QED BY <1>1, <1>4, <2>1, DeleteData
<1>5. CASE UpdateWorks(rows, keys, client[c].values) /\ Update(keys, client[c].values, deferred)
  <2>1. Sent(client[c].values)
    BY <1>1 DEF ClientInv, IsClient
  <2> QED BY <1>1, <1>5, <2>1, UpdateData
<1> QED BY <1>2, <1>3, <1>4, <1>5

LEMMA MigrateData ==
  ASSUME DataInv, NEW changes \in job, NEW outcome \in {"ok", "error", "panic"},
         Migrate(changes, outcome)
  PROVE  DataInv'
<1> DEFINE plan == Build(def, changes)
           converted(k) == ConvertRow(def, plan, rows[k])
           cells == {converted(k)[c] : k \in DOMAIN rows, c \in DOMAIN plan.target}
           possible == (IF ~plan.ok \/ Err \in cells THEN {"error"} ELSE {})
                         \cup (IF plan.ok /\ Panic \in cells THEN {"panic"} ELSE {})
<1>1. changes \in SchemaChanges /\ IsDefinition(def) /\ GoodRows(def, rows)
  BY DEF DataInv
<1>2. IsPlan(def, plan)
  BY <1>1, ChangesSent, BuildGood
<1>3. queue' = <<>> /\ job' = {}
  BY DEF Migrate
<1>4. outcome \in IF possible = {} THEN {"ok"} ELSE possible
  BY DEF Migrate
<1>5. CASE outcome = "ok"
  <2>1. /\ def' = plan.target
        /\ rows' = [k \in DOMAIN rows |-> converted(k)]
        /\ index' = [k \in DOMAIN rows |-> DocOfCells(plan.target, converted(k))]
    BY <1>5 DEF Migrate
  <2>2. plan.ok /\ Err \notin cells /\ Panic \notin cells
    <3> HIDE DEF cells, plan
    <3> QED BY <1>4, <1>5
  <2>3. \A k \in DOMAIN rows : \A c \in DOMAIN plan.target : converted(k)[c] \notin {Err, Panic}
    BY <2>2
  <2> HIDE DEF cells, plan, possible
  <2>4. ASSUME NEW k \in DOMAIN rows PROVE GoodRow(plan.target, converted(k))
    BY <1>1, <1>2, <2>2, <2>3, ConvertedRow DEF GoodRows
  <2> HIDE DEF converted
  <2>5. GoodRows(def', rows')
    BY <1>1, <2>1, <2>4 DEF GoodRows
  <2>6. IsDefinition(def')
    BY <1>2, <2>1, <2>2 DEF IsPlan
  <2>7. Tracks(def', queue', index', rows')
    <3>1. DOMAIN <<>> = {}
      OBVIOUS
    <3>2. DOMAIN rows \subseteq Keys
      BY <1>1 DEF GoodRows
    <3>3. ASSUME NEW k \in Keys PROVE Published(def', index', k, rows')
      BY <2>1 DEF Published
    <3> QED BY <1>3, <2>1, <3>1, <3>2, <3>3 DEF Tracks
  <2> QED BY <1>3, <2>5, <2>6, <2>7 DEF DataInv
<1>6. CASE outcome # "ok"
  <2>1. index' = Committed(queue) /\ UNCHANGED <<def, rows>>
    BY <1>6 DEF Migrate
  <2> QED BY <1>1, <1>3, <2>1, FlushData DEF DataInv
<1> QED BY <1>5, <1>6

LEMMA NextData ==
  ASSUME DataInv, ClientInv, [Next]_vars
  PROVE  DataInv'
<1>1. CASE UNCHANGED vars
  BY <1>1 DEF vars, DataInv
<1>2. ASSUME NEW k \in Keys, NEW deferred \in BOOLEAN, NEW body \in Bodies,
             NEW upsert \in BOOLEAN, BulkWrite(k, body, upsert, deferred)
      PROVE  DataInv'
  BY <1>2, BulkWriteData
<1>3. ASSUME NEW body \in Edits, NEW n \in 1..Cardinality(Keys), NEW deferred \in BOOLEAN,
             UpdateRows(body, n, deferred)
      PROVE  DataInv'
  <2>1. Sent(body)
    BY BodySent
  <2>2. /\ UNCHANGED <<def, job>> /\ UpdateWorks(rows, DOMAIN index, body)
        /\ Update(DOMAIN index, body, deferred)
    BY <1>3 DEF UpdateRows, Others
  <2> QED BY <2>1, <2>2, UpdateData
<1>4. ASSUME NEW batch \in Batches, MutateBatch(batch) PROVE DataInv'
  BY <1>4, MutateBatchData
<1>5. ASSUME NEW k \in Keys, NEW deferred \in BOOLEAN, RemoveRows(k, deferred) PROVE DataInv'
  <2>1. UNCHANGED <<def, job>> /\ DeleteRows(Matching(k), deferred)
    BY <1>5 DEF RemoveRows, Others
  <2>2. Matching(k) \subseteq Keys
    BY DEF Matching
  <2> QED BY <2>1, <2>2, DeleteData
<1>6. CASE Flush
  <2>1. queue' = <<>> /\ index' = Committed(queue) /\ UNCHANGED <<rows, def, job>>
    BY <1>6 DEF Flush, Others
  <2> QED BY <2>1, FlushData DEF DataInv
<1>7. ASSUME NEW c \in Clients, NEW k \in Keys, GetRow(c, k) PROVE DataInv'
  BY <1>7 DEF GetRow, DataInv
<1>8. ASSUME NEW c \in Clients, NEW op \in {"put", "patch", "delete"}, NEW body \in Edits,
             Request(c, op, body)
      PROVE  DataInv'
  <2>1. UNCHANGED <<def, rows, index, queue, job>>
    BY <1>8 DEF Request
  <2> QED BY <2>1 DEF DataInv
<1>9. ASSUME NEW c \in Clients, NEW deferred \in BOOLEAN, Apply(c, deferred) PROVE DataInv'
  BY <1>9, ApplyData
<1>10. ASSUME NEW changes \in SchemaChanges, ChangeSchema(changes) PROVE DataInv'
  <2>1. UNCHANGED <<def, rows, index, queue>> /\ job' = {changes}
    BY <1>10 DEF ChangeSchema
  <2> QED BY <2>1 DEF DataInv
<1>11. ASSUME NEW changes \in job, NEW outcome \in {"ok", "error", "panic"},
              Migrate(changes, outcome)
       PROVE  DataInv'
  BY <1>11, MigrateData
<1> QED
  BY <1>1, <1>2, <1>3, <1>4, <1>5, <1>6, <1>7, <1>8, <1>9, <1>10, <1>11 DEF Next

LEMMA IdleClient == IsClient(Idle)
BY DEF Idle, IsClient

\* replace_row: the body completed with NULLs is still an object.
LEMMA CompletedSent ==
  ASSUME IsDefinition(def), NEW body, Sent(body)
  PROVE  Sent(Completed(body))
<1> DEFINE rest == [c \in DOMAIN def \ DOMAIN body |-> Null]
           all == Over(body, rest)
<1>1. all = [x \in DOMAIN body \cup DOMAIN rest |-> IF x \in DOMAIN body THEN body[x] ELSE rest[x]]
  BY DEF Over
<1>2. DOMAIN rest \subseteq Spellings /\ \A x \in DOMAIN rest : rest[x] = Null
  BY DEF IsDefinition, ColumnNames
<1> HIDE DEF rest
<1>3. DOMAIN all \subseteq Spellings /\ \A f \in DOMAIN all : IsJson(all[f]) /\ Kept(all[f])
  <2> HIDE DEF all
  <2> QED BY <1>1, <1>2, NullJson, NullKept DEF Sent, IsObject
<1>4. Sent(all)
  BY <1>3 DEF Sent, IsObject
<1> QED BY <1>4 DEF Completed, rest

LEMMA ClientStep ==
  ASSUME ClientInv, NEW c \in Clients, NEW r, IsClient(r), client' = [client EXCEPT ![c] = r]
  PROVE  ClientInv'
<1>1. client' = [o \in Clients |-> IF o = c THEN r ELSE client[o]]
  BY DEF ClientInv
<1>2. client' = [o \in Clients |-> client'[o]]
  BY <1>1
<1>3. \A o \in Clients : IsClient(client'[o])
  BY <1>1 DEF ClientInv
<1> QED BY <1>2, <1>3 DEF ClientInv

LEMMA NextClient ==
  ASSUME DataInv, ClientInv, [Next]_vars
  PROVE  ClientInv'
<1>1. CASE UNCHANGED client
  BY <1>1 DEF ClientInv
<1>2. ASSUME NEW c \in Clients, NEW k \in Keys, GetRow(c, k) PROVE ClientInv'
  <2> DEFINE r == IF k \in DOMAIN index
                  THEN [Idle EXCEPT !.pc = "read", !.key = k, !.seen = View(index[k])]
                  ELSE [Idle EXCEPT !.status = 404]
  <2>1. client' = [client EXCEPT ![c] = r]
    BY <1>2 DEF GetRow
  <2>2. IsClient(r)
    BY ZenonT(60) DEF IsClient, Idle
  <2> HIDE DEF r
  <2> QED BY <2>1, <2>2, ClientStep
<1>3. ASSUME NEW c \in Clients, NEW op \in {"put", "patch", "delete"}, NEW body \in Edits,
             Request(c, op, body)
      PROVE  ClientInv'
  <2> DEFINE missing == {x \in DOMAIN def \ DOMAIN body : ~def[x].nullable}
             refused == locked \/ (op = "put" /\ missing # {})
             values == IF op = "put" THEN Completed(body) ELSE body
             code == IF locked THEN 423 ELSE 400
             a == [Idle EXCEPT !.status = code]
             b == [client[c] EXCEPT !.pc = "waiting", !.op = op, !.values = values]
  <2>1. client' = [client EXCEPT ![c] = IF refused THEN a ELSE b]
    BY <1>3 DEF Request, ClientInv
  <2>2. Sent(values)
    BY BodySent, CompletedSent DEF DataInv
  <2>3. code \in {400, 423}
    OBVIOUS
  <2> HIDE DEF refused, values, code
  <2>4. IsClient(a)
    BY <2>3 DEF IsClient, Idle
  <2>5. IsClient(b)
    <3>1. IsClient(client[c])
      BY DEF ClientInv
    <3> DEFINE key == client[c].key
               seen == client[c].seen
               status == client[c].status
    <3>2. b = [pc |-> "waiting", key |-> key, seen |-> seen, op |-> op, values |-> values,
               status |-> status]
      <4> DEFINE pc == client[c].pc
                 was == client[c].op
                 had == client[c].values
                 r(x, y, z) == [pc |-> x, key |-> key, seen |-> seen, op |-> y, values |-> z,
                                status |-> status]
      <4>1. client[c] = r(pc, was, had)
        BY <3>1 DEF IsClient
      <4> HIDE DEF pc, was, had, key, seen, status
      <4>2. [r(pc, was, had) EXCEPT !.pc = "waiting"] = r("waiting", was, had)
        OBVIOUS
      <4>3. [r("waiting", was, had) EXCEPT !.op = op] = r("waiting", op, had)
        OBVIOUS
      <4>4. [r("waiting", op, had) EXCEPT !.values = values] = r("waiting", op, values)
        OBVIOUS
      <4> QED BY <4>1, <4>2, <4>3, <4>4
    <3>3. status \in {0, 200, 400, 404, 412, 423, 500}
      BY <3>1 DEF IsClient
    <3> HIDE DEF key, seen, status, b
    <3> QED BY <2>2, <3>2, <3>3 DEF IsClient
  <2> HIDE DEF a, b
  <2> QED BY <2>1, <2>4, <2>5, ClientStep
<1>4. ASSUME NEW c \in Clients, NEW deferred \in BOOLEAN, Apply(c, deferred) PROVE ClientInv'
  <2> DEFINE k == client[c].key
             keys == Matching(k)
             status == IF poisoned THEN 500
                       ELSE IF k \notin DOMAIN rows THEN 404
                       ELSE IF RowEtag(k) # client[c].seen THEN 412
                       ELSE IF client[c].op # "delete" /\ ~UpdateWorks(rows, keys, client[c].values) THEN 400
                       ELSE IF keys = {} THEN 404 ELSE 200
  <2>1. client' = [client EXCEPT ![c] = [Idle EXCEPT !.status = status]]
    BY <1>4 DEF Apply
  <2>s. status \in {200, 400, 404, 412, 500}
    OBVIOUS
  <2> HIDE DEF status
  <2> DEFINE r == [Idle EXCEPT !.status = status]
  <2>2. IsClient(r)
    BY <2>s DEF IsClient, Idle
  <2> HIDE DEF r
  <2> QED BY <2>1, <2>2, ClientStep DEF r
<1>5. ASSUME ~UNCHANGED client
      PROVE  \/ \E c \in Clients, k \in Keys : GetRow(c, k)
             \/ \E c \in Clients, op \in {"put", "patch", "delete"}, body \in Edits : Request(c, op, body)
             \/ \E c \in Clients, deferred \in BOOLEAN : Apply(c, deferred)
  BY <1>5 DEF Next, vars, BulkWrite, UpdateRows, MutateBatch, RemoveRows, Flush, Others,
              ChangeSchema, Migrate
<1> QED BY <1>1, <1>2, <1>3, <1>4, <1>5

LEMMA NextCount ==
  ASSUME CountInv, [Next]_vars
  PROVE  CountInv'
<1>1. MaxWrites \in Nat /\ MaxMigrations \in Nat
  BY RequestsAssumption
<1>2. CASE UNCHANGED <<locked, poisoned, job, writes, migrations>>
  BY <1>2 DEF CountInv
<1>3. CASE UNCHANGED <<locked, poisoned, job, migrations>> /\ writes < MaxWrites /\ writes' = writes + 1
  BY <1>1, <1>3 DEF CountInv
<1>4. ASSUME NEW changes, ChangeSchema(changes) PROVE CountInv'
  BY <1>1, <1>4 DEF ChangeSchema, CountInv
<1>5. ASSUME NEW changes, NEW outcome, Migrate(changes, outcome) PROVE CountInv'
  <2>1. /\ job' = {} /\ poisoned' = (outcome = "panic") /\ locked' = (outcome = "panic")
        /\ UNCHANGED <<writes, migrations>>
    BY <1>5, SMTT(30) DEF Migrate
  <2> QED BY <2>1 DEF CountInv
<1>6. \/ UNCHANGED <<locked, poisoned, job, writes, migrations>>
      \/ UNCHANGED <<locked, poisoned, job, migrations>> /\ writes < MaxWrites /\ writes' = writes + 1
      \/ \E changes : ChangeSchema(changes)
      \/ \E changes, outcome : Migrate(changes, outcome)
  BY ZenonT(60) DEF Next, vars, BulkWrite, UpdateRows, MutateBatch, RemoveRows, Flush, Others, Writable,
         GetRow, Request, Apply
<1> QED BY <1>2, <1>3, <1>4, <1>5, <1>6

LEMMA InitInv == Init => IInv
<1> SUFFICES ASSUME Init PROVE IInv
  OBVIOUS
<1>1. DOMAIN <<>> = {}
  OBVIOUS
<1>2. IsDefinition(def)
  <2>1. def \in Definitions /\ DOMAIN def \subseteq Spellings /\ \A c \in DOMAIN def : IsColumn(def[c])
    BY RequestsAssumption DEF Init
  <2>2. DOMAIN def \subseteq ColumnNames
    BY <2>1 DEF ColumnNames
  <2> QED BY <2>1, <2>2 DEF IsDefinition
<1>3. GoodRows(def, rows) /\ Tracks(def, queue, index, rows)
  BY <1>1 DEF Init, GoodRows, Tracks, Published
<1>4. DataInv
  BY <1>2, <1>3 DEF Init, DataInv
<1>5. ClientInv
  BY IdleClient DEF Init, ClientInv
<1>6. CountInv
  <2>1. locked \in BOOLEAN /\ poisoned \in BOOLEAN /\ (job # {} => locked)
    BY Zenon DEF Init
  <2>2. writes \in 0..MaxWrites /\ migrations \in 0..MaxMigrations
    BY RequestsAssumption DEF Init
  <2> QED BY <2>1, <2>2 DEF CountInv
<1> QED BY <1>4, <1>5, <1>6 DEF IInv

LEMMA Invariance == Spec => []IInv
<1>1. IInv /\ [Next]_vars => IInv'
  BY NextData, NextClient, NextCount DEF IInv
<1> QED BY <1>1, InitInv, PTL DEF Spec

-----------------------------------------------------------------------------
(* The theorems.                                                           *)

LEMMA CellType ==
  ASSUME NEW col, NEW v, GoodCell(col, v)
  PROVE  v \in [k : {"null", "int", "real", "text"}, of : Spelled \cup {"none"},
                n : Int, canon : BOOLEAN]
<1>1. v = Val(v.k, v.of, v.n, v.canon) /\ v.n \in Int /\ v.canon \in BOOLEAN
  BY DEF GoodCell, Shaped
<1>2. v.k \in {"null", "int", "real", "text"} /\ v.of \in Spelled \cup {"none"}
  <2>1. Null.k = "null" /\ Null.of = "none"
    BY DEF Null, Val
  <2> QED BY <2>1 DEF GoodCell, Plain, IsText
<1> DEFINE a == v.k
           b == v.of
           n == v.n
           e == v.canon
<1>3. /\ a \in {"null", "int", "real", "text"} /\ b \in Spelled \cup {"none"}
      /\ n \in Int /\ e \in BOOLEAN
  BY <1>1, <1>2
<1>4. v = [k |-> a, of |-> b, n |-> n, canon |-> e]
  BY <1>1 DEF Val
<1> HIDE DEF a, b, n, e
<1> QED BY <1>3, <1>4

\* The row API keeps every variable in its type: a table of any definition holds rows of it,
\* and no more than the writes and migrations allowed are made.
THEOREM TypeCorrect == Spec => []TypeOK
<1>1. IInv => TypeOK
  <2> SUFFICES ASSUME IInv PROVE TypeOK
    OBVIOUS
  <2>1. \A c \in DOMAIN def : def[c].type \in ColumnType /\ def[c].nullable \in BOOLEAN
    BY DEF IInv, DataInv, IsDefinition, IsColumn
  <2>2. DOMAIN rows \subseteq Keys
    BY DEF IInv, DataInv, GoodRows
  <2>3. ASSUME NEW k \in DOMAIN rows PROVE rows[k] \in Row
    <3> DEFINE row == rows[k]
    <3>1. GoodRow(def, row)
      BY DEF IInv, DataInv, GoodRows
    <3> HIDE DEF row
    <3>2. row = [c \in DOMAIN def |-> row[c]]
      BY <3>1 DEF GoodRow
    <3>3. ASSUME NEW c \in DOMAIN def
          PROVE  row[c] \in [k : {"null", "int", "real", "text"}, of : Spelled \cup {"none"},
                             n : Int, canon : BOOLEAN]
      <4>1. GoodCell(def[c], row[c])
        BY <3>1 DEF GoodRow
      <4> QED BY <4>1, CellType
    <3> DEFINE T == [k : {"null", "int", "real", "text"}, of : Spelled \cup {"none"},
                     n : Int, canon : BOOLEAN]
    <3>4. Row = [DOMAIN def -> T]
      BY DEF Row
    <3> HIDE DEF T
    <3>5. \A c \in DOMAIN def : row[c] \in T
      BY <3>3 DEF T
    <3>6. row \in Row
      BY <3>2, <3>4, <3>5
    <3> QED BY <3>6 DEF row
  <2>4. DOMAIN index \cup DOMAIN queue \subseteq Keys
    BY DEF IInv, DataInv, Tracks
  <2>5. /\ locked \in BOOLEAN /\ poisoned \in BOOLEAN /\ (job # {} => locked)
        /\ writes \in 0..MaxWrites /\ migrations \in 0..MaxMigrations
    BY DEF IInv, CountInv
  <2>6. \A c \in Clients : /\ client[c].pc \in {"idle", "read", "waiting"}
                           /\ client[c].status \in {0, 200, 400, 404, 412, 423, 500}
    BY DEF IInv, ClientInv, IsClient
  <2> QED BY <2>1, <2>2, <2>3, <2>4, <2>5, <2>6 DEF TypeOK
<1> QED BY <1>1, Invariance, PTL

\* A cell that json_to_row_value let in, or that convert_value made, stays readable for the
\* readers of SQLite rows and for both encoders, whatever writes and schema changes follow.
THEOREM Readable == Spec => []RowsReadable
<1>1. IInv => RowsReadable
  <2> SUFFICES ASSUME IInv PROVE RowsReadable
    OBVIOUS
  <2>1. ASSUME NEW k \in DOMAIN rows, NEW c \in DOMAIN def
        PROVE  /\ Storable(def[c], rows[k][c])
               /\ RowValueFromRef(def[c], rows[k][c]) # Err
               /\ AddSqlValue(def[c], rows[k][c]) # Err
    <3>1. IsColumn(def[c]) /\ GoodCell(def[c], rows[k][c])
      BY DEF IInv, DataInv, IsDefinition, GoodRows, GoodRow
    <3>2. Accepted(def[c], RowValueFromRef(def[c], rows[k][c]))
      BY <3>1, CellRead
    <3>3. RowValueFromRef(def[c], rows[k][c]) # Err
      BY <3>2, AcceptedStored
    <3> QED BY <3>1, <3>3, CellRead
  <2>2. ASSUME NEW k \in DOMAIN queue, NEW c \in DOMAIN queue[k].doc
        PROVE  queue[k].doc[c] # Err
    BY DEF IInv, DataInv, Tracks, Says
  <2> QED BY <2>1, <2>2 DEF RowsReadable
<1> QED BY <1>1, Invariance, PTL

\* The documents of the index, with the operations its writer still holds, are those a rebuild
\* from SQLite would encode: document_from_row and rebuild_table agree on every row the API
\* can make.
THEOREM Agrees == Spec => []IndexAgrees
<1>1. IInv => IndexAgrees
  <2> SUFFICES ASSUME IInv PROVE IndexAgrees
    OBVIOUS
  <2>1. DOMAIN rows \subseteq Keys /\ Tracks(def, queue, index, rows)
    BY DEF IInv, DataInv, GoodRows
  <2>2. /\ DOMAIN Committed(queue) = DOMAIN rows
        /\ \A k \in DOMAIN rows : Committed(queue)[k] = DocOfCells(def, rows[k])
    BY <2>1, CommitTracks
  <2> QED BY <2>2 DEF IndexAgrees
<1> QED BY <1>1, Invariance, PTL

\* What ensure_row_etag hashes is what get_row would answer from the row's document.
LEMMA EtagOfRow ==
  ASSUME CanonicalTimes, DataInv, NEW k \in DOMAIN rows
  PROVE  RowEtag(k) = View(DocOfCells(def, rows[k]))
<1> DEFINE row == rows[k]
           doc == DocOfCells(def, row)
<1>1. IsDefinition(def) /\ GoodRow(def, row)
  BY DEF DataInv, GoodRows
<1>2. RowEtag(k) = [c \in DOMAIN def |-> EtagValue(def[c], RowValueFromRef(def[c], row[c]))]
  BY DEF RowEtag, FetchRow
<1> HIDE DEF row
<1>3. DOMAIN row = DOMAIN def
  BY <1>1 DEF GoodRow
<1>4. doc = [c \in DOMAIN def |-> AddSqlValue(def[c], row[c])]
  BY <1>3 DEF DocOfCells
<1> HIDE DEF doc
<1>5. View(doc) = [c \in DOMAIN def |-> ReadFast(AddSqlValue(def[c], row[c]))]
  BY <1>4 DEF View
<1>6. ASSUME NEW c \in DOMAIN def
      PROVE  EtagValue(def[c], RowValueFromRef(def[c], row[c])) = ReadFast(AddSqlValue(def[c], row[c]))
  <2>1. IsColumn(def[c]) /\ GoodCell(def[c], row[c]) /\ Canon(row[c])
    BY <1>1 DEF IsDefinition, GoodRow, Kept
  <2> QED BY <2>1, CellReadsAsHashed
<1>7. RowEtag(k) = View(doc)
  BY <1>2, <1>5, <1>6
<1> QED BY <1>7 DEF doc, row

\* Only apply_key_mutation answers a waiting client.
LEMMA AnsweredByApply ==
  ASSUME ClientInv, [Next]_vars, NEW c \in Clients, client[c].pc = "waiting",
         client'[c].pc = "idle"
  PROVE  \E deferred \in BOOLEAN : Apply(c, deferred)
<1>1. ASSUME NEW o \in Clients, NEW r, client' = [client EXCEPT ![o] = r], o # c
      PROVE  client'[c] = client[c]
  BY <1>1 DEF ClientInv
<1>2. ~UNCHANGED client
  OBVIOUS
<1>3. \/ \E o \in Clients, k \in Keys : GetRow(o, k)
      \/ \E o \in Clients, op \in {"put", "patch", "delete"}, body \in Edits : Request(o, op, body)
      \/ \E o \in Clients, deferred \in BOOLEAN : Apply(o, deferred)
  BY <1>2 DEF Next, vars, BulkWrite, UpdateRows, MutateBatch, RemoveRows, Flush, Others,
              ChangeSchema, Migrate
<1>4. ASSUME NEW o \in Clients, NEW k \in Keys, GetRow(o, k) PROVE FALSE
  <2>1. o # c /\ \E r : client' = [client EXCEPT ![o] = r]
    BY <1>4 DEF GetRow
  <2> QED BY <1>1, <2>1
<1>5. ASSUME NEW o \in Clients, NEW op, NEW body, Request(o, op, body) PROVE FALSE
  <2>1. client[o].pc = "read"
    BY <1>5 DEF Request
  <2>2. \E r : client' = [client EXCEPT ![o] = r]
    BY <1>5 DEF Request
  <2> QED BY <1>1, <2>1, <2>2
<1>6. ASSUME NEW o \in Clients, NEW deferred \in BOOLEAN, Apply(o, deferred) PROVE o = c
  <2> DEFINE k == client[o].key
             keys == Matching(k)
             status == IF poisoned THEN 500
                       ELSE IF k \notin DOMAIN rows THEN 404
                       ELSE IF RowEtag(k) # client[o].seen THEN 412
                       ELSE IF client[o].op # "delete" /\ ~UpdateWorks(rows, keys, client[o].values)
                       THEN 400
                       ELSE IF keys = {} THEN 404 ELSE 200
  <2>1. client' = [client EXCEPT ![o] = [Idle EXCEPT !.status = status]]
    BY <1>6 DEF Apply
  <2> HIDE DEF status
  <2> QED BY <1>1, <2>1
<1> QED BY <1>3, <1>4, <1>5, <1>6

\* Its answer, by the row that it met.
LEMMA Answer ==
  ASSUME ClientInv, NEW c \in Clients, NEW deferred, Apply(c, deferred)
  PROVE  /\ client'[c].status = 200 =>
              client[c].key \in DOMAIN rows /\ RowEtag(client[c].key) = client[c].seen
         /\ client'[c].status = 412 =>
              client[c].key \in DOMAIN rows /\ RowEtag(client[c].key) # client[c].seen
<1> DEFINE k == client[c].key
           keys == Matching(k)
           rest == IF client[c].op # "delete" /\ ~UpdateWorks(rows, keys, client[c].values) THEN 400
                   ELSE IF keys = {} THEN 404 ELSE 200
           status == IF poisoned THEN 500
                     ELSE IF k \notin DOMAIN rows THEN 404
                     ELSE IF RowEtag(k) # client[c].seen THEN 412 ELSE rest
           r == [Idle EXCEPT !.status = status]
<1>1. client' = [client EXCEPT ![c] = r]
  BY DEF Apply
<1>2. rest \in {200, 400, 404}
  OBVIOUS
<1> HIDE DEF rest
<1>3. /\ status = 200 => k \in DOMAIN rows /\ RowEtag(k) = client[c].seen
      /\ status = 412 => k \in DOMAIN rows /\ RowEtag(k) # client[c].seen
  BY <1>2
<1> HIDE DEF status
<1>4. r.status = status
  BY DEF Idle
<1> HIDE DEF r
<1>5. client'[c] = r
  BY <1>1 DEF ClientInv
<1> QED BY <1>3, <1>4, <1>5

\* A reply, and the row that the client's write met.
LEMMA RowMet ==
  ASSUME CanonicalTimes, IInv, [Next]_vars, NEW c \in Clients
  PROVE  /\ Replied(c, 200) => /\ client[c].key \in DOMAIN rows
                               /\ View(DocOfCells(def, rows[client[c].key])) = client[c].seen
         /\ Replied(c, 412) => View(DocOfCells(def, rows[client[c].key])) # client[c].seen
<1>1. ASSUME NEW status, Replied(c, status)
      PROVE  \E deferred \in BOOLEAN : Apply(c, deferred)
  BY <1>1, AnsweredByApply DEF Replied, IInv
<1>2. ASSUME Replied(c, 200)
      PROVE  client[c].key \in DOMAIN rows /\ RowEtag(client[c].key) = client[c].seen
  BY <1>1, <1>2, Answer DEF Replied, IInv
<1>3. ASSUME Replied(c, 412)
      PROVE  client[c].key \in DOMAIN rows /\ RowEtag(client[c].key) # client[c].seen
  BY <1>1, <1>3, Answer DEF Replied, IInv
<1> QED BY <1>2, <1>3, EtagOfRow DEF IInv

\* No lost update: apply_key_mutation accepts a conditional write only if the row it replaces reads
\* as the client saw it, for any table and any interleaving of writers, batches and migrations, when
\* clients spell instants as the code does.
THEOREM ConditionalWrites ==
  ASSUME CanonicalTimes
  PROVE  Spec => NoLostUpdate
<1>1. IInv /\ [Next]_vars =>
        [\A c \in Clients : Replied(c, 200) =>
           /\ client[c].key \in DOMAIN rows
           /\ View(DocOfCells(def, rows[client[c].key])) = client[c].seen]_vars
  BY RowMet
<1> QED BY <1>1, Invariance, PTL DEF Spec, NoLostUpdate

\* A client is told that its row is stale (412) only if the row differs from what it saw, under the
\* same hypothesis: ensure_row_etag spells an unchanged row as get_row did.
THEOREM NoFalseConflict ==
  ASSUME CanonicalTimes
  PROVE  Spec => UnchangedAccepted
<1>1. IInv /\ [Next]_vars =>
        [\A c \in Clients : Replied(c, 412) =>
           View(DocOfCells(def, rows[client[c].key])) # client[c].seen]_vars
  BY RowMet
<1> QED BY <1>1, Invariance, PTL DEF Spec, UnchangedAccepted

\* What MigrationFollowsColumns asks of one cell of the shadow table.
SaysOrigin(changes, cell, row, c) ==
  LET o == Origin(c, changes)
  IN  Meaning(cell) = IF "default" \in DOMAIN o THEN Meaning(o.default)
                      ELSE Meaning(row[Stored(def, o.column)])

LEMMA ConvertedSaysOrigin ==
  ASSUME OneSpelling, SmallNumbers, IsDefinition(def), NEW changes \in SchemaChanges,
         NEW plan, plan = Build(def, changes), plan.ok, NEW row, GoodRow(def, row),
         NEW c \in DOMAIN plan.target, ConvertCell(def, plan, row, c) \notin {Err, Panic}
  PROVE  SaysOrigin(changes, ConvertCell(def, plan, row, c), row, c)
<1> DEFINE o == Origin(c, changes)
           cell == ConvertCell(def, plan, row, c)
<1>1. Len(changes) \in Nat /\ \A i \in 1..Len(changes) : Asked(changes[i])
  BY ChangesSent
<1>2. IsPlan(def, plan)
  BY <1>1, BuildGood
<1>3. /\ o = Where(plan.sources, plan.defaults, c)
      /\ (\E v : o = FromDefault(v)) \/ \E x \in DOMAIN def : o = FromColumn(x)
  BY <1>1, BuildTraced
<1>4. Meaning(cell) = IF c \in DOMAIN plan.sources THEN Meaning(row[plan.sources[c]])
                      ELSE Meaning(plan.defaults[c])
  BY <1>2, ConvertedCell
<1> HIDE DEF o, cell
<1>5. CASE c \in DOMAIN plan.sources
  <2> DEFINE x == plan.sources[c]
  <2>1. o = FromColumn(x) /\ Meaning(cell) = Meaning(row[x])
    BY <1>3, <1>4, <1>5 DEF Where
  <2>2. x \in DOMAIN def
    BY <1>2, <1>5 DEF IsPlan
  <2> HIDE DEF x
  <2>3. "default" \notin DOMAIN o /\ o.column = x
    BY <2>1, OriginRecords
  <2>4. Stored(def, x) = x
    BY <2>2, StoredAsSpelled DEF IsDefinition
  <2> QED BY <2>1, <2>3, <2>4 DEF SaysOrigin, o, cell
<1>6. CASE c \notin DOMAIN plan.sources
  <2> DEFINE v == plan.defaults[c]
  <2>1. o = FromDefault(v) /\ Meaning(cell) = Meaning(v)
    BY <1>3, <1>4, <1>6 DEF Where
  <2> HIDE DEF v
  <2>2. "default" \in DOMAIN o /\ o.default = v
    BY <2>1, OriginRecords
  <2> QED BY <2>1, <2>2 DEF SaysOrigin, o, cell
<1> QED BY <1>5, <1>6

\* A migration that succeeds keeps every row, and every cell says what the column it was renamed
\* from, or its default, said: for any table and changes, in any interleaving, when a column is
\* spelled one way in definitions and changes, and the numbers clients send fit i64.
THEOREM MigrationKeepsMeaning ==
  ASSUME OneSpelling, SmallNumbers
  PROVE  Spec => MigrationFollowsColumns
<1> DEFINE Followed(changes) == \A k \in DOMAIN rows, c \in DOMAIN def' :
                                  SaysOrigin(changes, rows'[k][c], rows[k], c)
           Settled == \/ UNCHANGED <<def, rows>>
                      \/ DOMAIN rows' = DOMAIN rows /\ \E changes \in job : Followed(changes)
<1>1. ASSUME IInv, [Next]_vars, locked, ~locked'
      PROVE  \E changes \in job, outcome \in {"ok", "error", "panic"} : Migrate(changes, outcome)
  BY <1>1 DEF Next, vars, BulkWrite, UpdateRows, MutateBatch, RemoveRows, Flush, Others, GetRow,
              Request, Apply, ChangeSchema
<1>2. ASSUME IInv, NEW changes \in job, NEW outcome \in {"ok", "error", "panic"},
             Migrate(changes, outcome)
      PROVE  Settled
  <2> DEFINE plan == Build(def, changes)
             converted(k) == ConvertRow(def, plan, rows[k])
             cells == {converted(k)[c] : k \in DOMAIN rows, c \in DOMAIN plan.target}
             possible == (IF ~plan.ok \/ Err \in cells THEN {"error"} ELSE {})
                           \cup (IF plan.ok /\ Panic \in cells THEN {"panic"} ELSE {})
  <2>1. changes \in SchemaChanges /\ IsDefinition(def) /\ GoodRows(def, rows)
    BY <1>2 DEF IInv, DataInv
  <2>2. outcome \in IF possible = {} THEN {"ok"} ELSE possible
    BY <1>2 DEF Migrate
  <2>3. CASE outcome = "ok"
    <3>1. def' = plan.target /\ rows' = [k \in DOMAIN rows |-> converted(k)]
      BY <1>2, <2>3 DEF Migrate
    <3>2. plan.ok /\ Err \notin cells /\ Panic \notin cells
      <4> HIDE DEF cells, plan
      <4> QED BY <2>2, <2>3
    <3>3. ASSUME NEW k \in DOMAIN rows, NEW c \in DOMAIN plan.target
          PROVE  SaysOrigin(changes, converted(k)[c], rows[k], c)
      <4>1. converted(k)[c] \notin {Err, Panic}
        BY <3>2
      <4>2. converted(k)[c] = ConvertCell(def, plan, rows[k], c)
        BY DEF ConvertRow
      <4>3. GoodRow(def, rows[k])
        BY <2>1 DEF GoodRows
      <4> QED BY <2>1, <3>2, <4>1, <4>2, <4>3, ConvertedSaysOrigin
    <3> HIDE DEF plan, converted, cells, possible
    <3>4. Followed(changes) /\ DOMAIN rows' = DOMAIN rows
      BY <3>1, <3>3
    <3> QED BY <1>2, <3>4
  <2>4. CASE outcome # "ok"
    BY <1>2, <2>4 DEF Migrate
  <2> QED BY <2>3, <2>4
<1>3. IInv /\ [Next]_vars => [locked /\ ~locked' => Settled]_vars
  <2> HIDE DEF Settled
  <2> QED BY <1>1, <1>2
<1> QED BY <1>3, Invariance, PTL DEF Spec, MigrationFollowsColumns, SaysOrigin

=============================================================================
