--------------------------- MODULE MCAggregations ---------------------------
(* One column of every kind the compilers treat differently, eight documents *)
(* of which two are deleted, and filters nested up to three levels.          *)
EXTENDS Aggregations, TLC

Column(type, indexed, nullable) == [type |-> type, indexed |-> indexed, nullable |-> nullable]

MCDefinition ==
  "id" :> Column("integer", TRUE, FALSE) @@ "n" :> Column("integer", TRUE, TRUE) @@
  "m" :> Column("integer", TRUE, FALSE) @@ "a" :> Column("integers", TRUE, TRUE) @@
  "t" :> Column("text", TRUE, TRUE) @@ "f" :> Column("facet", TRUE, TRUE) @@
  "j" :> Column("json", TRUE, TRUE) @@ "u" :> Column("integer", FALSE, TRUE)

MCWords == <<{"x"}, {"x", "y"}>>

Number(v) == [type |-> "number", v |-> v]
String(v) == [type |-> "string", v |-> v]
Bool(v)   == [type |-> "bool", v |-> v]

Json(p, q) == [path \in {"p", "q"} |-> IF path = "p" THEN Number(p) ELSE q]

D1 == "id" :> 1 @@ "n" :> 1 @@ "m" :> 0 @@ "a" :> {1, 2} @@ "t" :> 1 @@ "f" :> 1 @@ "j" :> Json(1, Bool(0))
D2 == "id" :> 2 @@ "n" :> 2 @@ "m" :> 0 @@ "a" :> {} @@ "t" :> 2
D3 == "id" :> 3 @@ "m" :> 1 @@ "f" :> 1 @@ "j" :> ("p" :> Number(0))
D4 == "id" :> 4 @@ "n" :> 1 @@ "m" :> 1 @@ "a" :> {2} @@ "t" :> 2 @@ "f" :> 2
D5 == "id" :> 5 @@ "m" :> 1 @@ "f" :> 2 @@ "j" :> ("p" :> Number(0))
D6 == "id" :> 6 @@ "n" :> 2 @@ "m" :> 0 @@ "j" :> Json(0, Bool(1))
D7 == "id" :> 7 @@ "m" :> 1 @@ "j" :> ("p" :> Number(0))
D8 == "id" :> 8 @@ "m" :> 1 @@ "j" :> ("p" :> Bool(1))   \* another type at the same path

Live(d) == [doc |-> d, alive |-> TRUE]
Dead(d) == [doc |-> d, alive |-> FALSE]

Together == <<<<Live(D1), Live(D2), Live(D3), Dead(D6), Live(D4), Live(D5), Live(D7)>>>>
Split    == <<<<Live(D1), Live(D2), Dead(D6)>>, <<Live(D3), Live(D4), Live(D5), Live(D7)>>>>
Few      == <<<<Live(D3), Live(D4), Dead(D8)>>>>
MCLayouts == {Together, Split, Few, <<>>}

Compare(c, op, x) == [kind |-> "compare", column |-> c, op |-> op, value |-> x]
IsNull(c, negated) == [kind |-> "null", column |-> c, negated |-> negated]
JsonCompare(p, type, op, v) == [kind |-> "json_compare", column |-> "j", path |-> p, type |-> type,
                                op |-> op, value |-> [type |-> type, v |-> v]]

Search == [kind |-> "search", columns |-> {}, word |-> "x"]
Leaves ==
  {Search, [kind |-> "search", columns |-> {"t"}, word |-> "y"],
   [kind |-> "search", columns |-> {"n"}, word |-> "x"],
   [kind |-> "regex", column |-> "t", words |-> {"y"}],
   Compare("n", "equal", Number(1)), Compare("n", "not_equal", Number(1)),
   Compare("n", "greater", Number(1)), Compare("a", "less_or_equal", Number(1)),
   Compare("t", "greater_or_equal", String(2)), Compare("f", "equal", String(1)),
   Compare("n", "less", String(1)), Compare("u", "equal", Number(1)), Compare("j", "equal", Number(1)),
   [kind |-> "between", column |-> "a", lower |-> Number(2), upper |-> Number(3)],
   [kind |-> "in", column |-> "n", values |-> {Number(1), Number(2)}],
   [kind |-> "in", column |-> "f", values |-> {String(2)}],
   [kind |-> "in", column |-> "f", values |-> {}],
   IsNull("n", FALSE), IsNull("a", FALSE), IsNull("a", TRUE), IsNull("f", FALSE), IsNull("t", TRUE),
   JsonCompare("p", "number", "equal", 0), JsonCompare("p", "number", "not_equal", 0),
   JsonCompare("p", "number", "greater", 0), JsonCompare("q", "bool", "equal", 1),
   JsonCompare("q", "bool", "less", 1), JsonCompare("p", "bool", "equal", 1),
   [kind |-> "json_between", column |-> "j", path |-> "p", type |-> "number", lower |-> 1, upper |-> 2],
   [kind |-> "json_exists", column |-> "j", path |-> "q", type |-> {}, negated |-> TRUE],
   [kind |-> "json_exists", column |-> "j", path |-> "p", type |-> {"number"}, negated |-> FALSE]}

Not(f) == [kind |-> "not", filter |-> f]
Tree(kind, filters) == [kind |-> kind, filters |-> filters]

Pairs(first, second) == {Tree(kind, <<f, g>>) : kind \in {"all", "any"}, f \in first, g \in second}

Core == {Search, Compare("n", "not_equal", Number(1)), Compare("f", "equal", String(1)), IsNull("f", FALSE)}

MCFilters ==
  LET level2 == Leaves \cup {Not(f) : f \in Leaves} \cup Pairs(Leaves, Leaves)
                \cup {Tree("all", <<>>), Tree("any", <<Search>>)}
      deep   == Pairs(Core, Core) \cup {Not(f) : f \in Core \cup Pairs(Core, Core)}
  IN  level2 \cup {Not(f) : f \in Pairs(Leaves, Core)} \cup Pairs(deep, Core) \cup Pairs(Core, deep)

Terms_(c) == [kind |-> "terms", column |-> c]
FilterAgg(f) == [kind |-> "filter", filter |-> f]

Order(key, asc) == [key |-> key, asc |-> asc]

Typed(filter, groups, metric, only, order, limit, offset) ==
  [kind |-> "typed", filter |-> filter, groups |-> groups, metric |-> metric, only |-> only,
   order |-> order, limit |-> limit, offset |-> offset, aggs |-> <<>>]

Simple(kind, filter) == [kind |-> kind, filter |-> filter, aggs |-> <<>>]

SomeFilters == {{}, {IsNull("f", TRUE)}, {Not(Search)}}

MCRequests ==
  {Simple("read", {f}) : f \in MCFilters} \cup {Simple("read", {})}
  \cup {[kind |-> "facets", filter |-> {f}, column |-> "f", aggs |-> <<>>] : f \in MCFilters}
  \cup {[kind |-> "named", filter |-> {}, aggs |-> <<FilterAgg(f)>>] : f \in MCFilters}
  \cup {[kind |-> kind, filter |-> filter, aggs |-> <<Terms_("n"), FilterAgg(Not(Search)), Terms_("f")>>] :
          kind \in {"named", "shards"}, filter \in SomeFilters}
  \cup {Typed(filter, groups, metric, FALSE, order, limit, offset) :
          filter \in SomeFilters, groups \in {<<"n">>, <<"m">>, <<"n", "m">>, <<"f", "n">>},
          metric \in {"id", "n"},
          order \in {<<>>, <<Order("key", TRUE)>>, <<Order("key", FALSE)>>, <<Order("count", TRUE)>>,
                     <<Order("count", FALSE), Order("key", TRUE)>>},
          limit \in {0, 1, 2, 5}, offset \in 0..2}
  \cup {Typed(filter, <<>>, metric, only, <<>>, limit, offset) :
          filter \in SomeFilters, metric \in {"id", "n"}, only \in BOOLEAN,
          limit \in 0..1, offset \in 0..1}

MCOtherAggs == <<Terms_("m")>>
=============================================================================
