------------------------------ MODULE MCRowApi ------------------------------
(* One column of every type, values that fit some types and not others, and *)
(* changes that rename, swap, replace and convert it.                       *)
EXTENDS RowApi, TLC

CONSTANT Times   \* timestamps clients send: <<instant, canonical>>

MCTimes == {<<2, TRUE>>}
MCOtherTimes == {<<2, FALSE>>}   \* an offset spelled another way

Col(type, nullable) == [type |-> type, nullable |-> nullable]

MCNames == <<"A", "a", "b", "t">>
MCLower == ("A" :> "a") @@ ("a" :> "a") @@ ("b" :> "b") @@ ("t" :> "t")

MCDefinitions ==
  {"a" :> Col(t, t \in {"Text", "Integer"}) : t \in ColumnType}

Inputs ==
  {Null, IntVal(1), IntVal(2), RealVal(1), RealVal(2), BoolVal(1), BoxVal(1),
   TextVal("number", 2, TRUE), TextVal("word", 0, TRUE), TextVal("bool", 1, TRUE)}
   \cup {TextVal("time", t[1], t[2]) : t \in Times}

MCBodies == {<<>>} \cup {"a" :> v : v \in Inputs} \cup {"A" :> IntVal(1)}

MCEdits == {<<>>, "A" :> Null} \cup {"a" :> v : v \in {IntVal(0), BoolVal(0), TextVal("word", 1, TRUE)}}

Op(op, k, values) == [op |-> op, key |-> k, values |-> values]

MCBatches ==
  UNION {
    {<<Op("insert", k, "a" :> v), Op("update", k, "a" :> IntVal(0))>> : v \in {IntVal(1), BoolVal(1)}}
    \cup {<<Op("update", k, "a" :> IntVal(0)), Op("delete", k, <<>>)>>,
          <<Op("delete", k, <<>>), Op("update", k, "a" :> IntVal(0))>>,
          <<Op("delete", k, <<>>), Op("insert", k, "a" :> IntVal(0))>>} : k \in Keys}

Change(kind, name, to, col, default) ==
  [kind |-> kind, name |-> name, to |-> to, col |-> col, default |-> default]
Rename(from, to)    == Change("rename", from, to, Col("Text", TRUE), Null)
Drop(name)          == Change("drop", name, name, Col("Text", TRUE), Null)
Alter(name, to, t)  == Change("alter", name, to, Col(t, TRUE), Null)
Add(name, t, value) == Change("add", name, name, Col(t, value = Null), value)
Store               == Change("store", "a", "a", Col("Text", TRUE), Null)

MCSchemaChanges ==
  {<<Alter("a", "a", t)>> : t \in ColumnType}
  \cup {<<Rename("a", "b")>>, <<Rename("A", "b")>>, <<Alter("a", "A", "Text")>>,
        <<Rename("a", "b"), Add("a", "Integer", IntVal(0))>>,
        <<Drop("a"), Add("a", "Integer", IntVal(0))>>,
        <<Add("b", "Text", TextVal("word", 1, TRUE)), Rename("a", "t"), Rename("b", "a")>>,
        <<Add("b", "Integer", Null), Drop("A")>>, <<Add("A", "Integer", Null)>>, <<Store>>, <<>>}

MCSymmetry == Permutations(Keys)
=============================================================================
