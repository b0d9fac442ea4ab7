------------------------------ MODULE Filters ------------------------------
(***************************************************************************)
(* Filter trees and the Tantivy queries they are compiled to: by the       *)
(* compiler of searches (src/query/typed_compiler.rs, typed_values.rs,     *)
(* compiler.rs, filter_score.rs, json_path.rs), by the second compiler of  *)
(* filter aggregations (src/aggregation_api/filter.rs) and with the        *)
(* predicates of a facet column removed (src/filter.rs).                   *)
(*                                                                         *)
(* A document is a partial function from columns to values; a column that  *)
(* is NULL is not in its domain. Numbers stand for numbers and, in byte    *)
(* order, for texts and facets; an array is a set; a JSON value is a       *)
(* partial function from paths to [type, v]. What Tantivy does with a      *)
(* query is Matches and Score.                                             *)
(*                                                                         *)
(* Of the text predicates, "search" stands for those both compilers know   *)
(* (search, fuzzy, prefix) and "regex" for those of searches only. Geo     *)
(* predicates are left out.                                                *)
(***************************************************************************)
EXTENDS Integers, Sequences, FiniteSets, FiniteSetsExt, SequencesExt

CONSTANTS Definition,   \* column -> [type, indexed]
          Words         \* text -> the set of words its analyzer makes of it

TextKinds       == {"search", "regex"}
StructuralKinds == {"compare", "between", "in", "null"}

IsArray(c) == Definition[c].type = "integers"
Indexed(c) == c \in DOMAIN Definition /\ Definition[c].indexed

---------------------------------------------------------------------------
(* Tantivy: the terms a document has in a field, what a query matches and  *)
(* what it scores.                                                         *)

Terms(doc, field) ==
  LET c == field.column
  IN  IF c \notin DOMAIN doc THEN {}
      ELSE CASE field.kind = "value" -> IF IsArray(c) THEN doc[c] ELSE {doc[c]}
             [] field.kind = "raw"   -> {doc[c]}
             [] field.kind = "array" -> {0}      \* the stored array, which may be empty
             [] field.kind = "words" -> Words[doc[c]]
             [] field.kind = "json"  -> IF field.path \in DOMAIN doc[c]
                                        THEN {doc[c][field.path].v} ELSE {}

\* A bound is the empty set or {[v, strict]}.
Within(v, lower, upper) ==
  /\ \A b \in lower : v > b.v \/ (v = b.v /\ ~b.strict)
  /\ \A b \in upper : v < b.v \/ (v = b.v /\ ~b.strict)

RECURSIVE Matches(_, _)
Matches(q, doc) ==
  CASE q.kind = "everything" -> TRUE
    [] q.kind = "term"   -> q.v \in Terms(doc, q.field)
    [] q.kind = "terms"  -> q.vs \cap Terms(doc, q.field) # {}
    [] q.kind = "range"  -> \E v \in Terms(doc, q.field) : Within(v, q.lower, q.upper)
    [] q.kind = "exists" -> Terms(doc, q.field) # {}
    [] q.kind = "words"  -> \E f \in q.fields : q.vs \cap Terms(doc, f) # {}
    [] q.kind = "const0" -> Matches(q.query, doc)
    [] q.kind = "bool"   ->
         LET of(occur) == {i \in DOMAIN q.clauses : q.clauses[i].occur = occur}
             hit(i) == Matches(q.clauses[i].query, doc)
         IN  /\ \A i \in of("must") : hit(i)
             /\ \A i \in of("must_not") : ~hit(i)
             /\ of("must") # {} \/ \E i \in of("should") : hit(i)

\* The score of a match: BM25 weights stand apart from the 1 of everything else.
RECURSIVE Score(_, _)
Score(q, doc) ==
  CASE q.kind = "const0" -> 0
    [] q.kind = "words"  -> 10 * Cardinality({f \in q.fields : q.vs \cap Terms(doc, f) # {}})
    [] q.kind = "bool"   ->
         FoldLeft(LAMBDA sum, clause :
                    IF clause.occur # "must_not" /\ Matches(clause.query, doc)
                    THEN sum + Score(clause.query, doc) ELSE sum, 0, q.clauses)
    [] OTHER             -> 1

---------------------------------------------------------------------------
(* Queries of one predicate.                                               *)

AllQuery == [kind |-> "everything"]

\* Mutant: a Boolean query of exclusions only, which matches nothing.
NegateBare(q) == [kind |-> "bool", clauses |-> <<[occur |-> "must_not", query |-> q]>>]

Negate(q) == [kind |-> "bool", clauses |-> <<[occur |-> "must", query |-> AllQuery],
                                             [occur |-> "must_not", query |-> q]>>]

\* fields.raw for text, fields.values for the rest.
ValueField(c) == [kind |-> IF Definition[c].type = "text" THEN "raw" ELSE "value", column |-> c]

ExistenceField(c) ==
  IF IsArray(c) THEN [kind |-> "array", column |-> c] ELSE ValueField(c)

JsonPathField(c, path) == [kind |-> "json", column |-> c, path |-> path]

\* A comparison as the bounds of a range.
Bounds(op, v) ==
  CASE op = "greater"          -> [lower |-> {[v |-> v, strict |-> TRUE]}, upper |-> {}]
    [] op = "greater_or_equal" -> [lower |-> {[v |-> v, strict |-> FALSE]}, upper |-> {}]
    [] op = "less"             -> [lower |-> {}, upper |-> {[v |-> v, strict |-> TRUE]}]
    [] op = "less_or_equal"    -> [lower |-> {}, upper |-> {[v |-> v, strict |-> FALSE]}]

RangeQuery(field, lower, upper) ==
  [kind |-> "range", field |-> field, lower |-> lower, upper |-> upper]

Closed(v) == {[v |-> v, strict |-> FALSE]}

CompileTypedComparison(c, op, v) ==
  LET term == [kind |-> "term", field |-> ValueField(c), v |-> v]
  IN  CASE op = "equal"     -> term
        [] op = "not_equal" -> Negate(term)
        [] OTHER            -> RangeQuery(ValueField(c), Bounds(op, v).lower, Bounds(op, v).upper)

CompileJsonComparison(f) ==
  LET field == JsonPathField(f.column, f.path)
      v     == f.value.v
      same  == IF f.type = "bool" THEN [kind |-> "term", field |-> field, v |-> v]
               ELSE RangeQuery(field, Closed(v), Closed(v))
  IN  CASE f.op = "equal"     -> same
        [] f.op = "not_equal" -> Negate(same)
        [] OTHER              -> RangeQuery(field, Bounds(f.op, v).lower, Bounds(f.op, v).upper)

\* No column named: every indexed text column.
SearchColumns(columns) ==
  IF columns # {} THEN columns
  ELSE {c \in DOMAIN Definition : Indexed(c) /\ Definition[c].type = "text"}

WordsQuery(columns, vs) ==
  [kind |-> "words", fields |-> {[kind |-> "words", column |-> c] : c \in columns}, vs |-> vs]

CompileLeaf(f) ==
  CASE f.kind = "compare" -> CompileTypedComparison(f.column, f.op, f.value.v)
    [] f.kind = "between" -> RangeQuery(ValueField(f.column), Closed(f.lower.v), Closed(f.upper.v))
    [] f.kind = "in"      -> [kind |-> "terms", field |-> ValueField(f.column),
                              vs |-> {x.v : x \in f.values}]
    [] f.kind = "null"    -> LET q == [kind |-> "exists", field |-> ExistenceField(f.column)]
                             IN  IF f.negated THEN q ELSE Negate(q)
    [] f.kind = "search"  -> WordsQuery(SearchColumns(f.columns), {f.word})
    [] f.kind = "regex"   -> WordsQuery({f.column}, f.words)
    [] f.kind = "json_compare" -> CompileJsonComparison(f)
    [] f.kind = "json_between" -> RangeQuery(JsonPathField(f.column, f.path), Closed(f.lower), Closed(f.upper))
    [] f.kind = "json_exists"  ->
         LET q == [kind |-> "exists", field |-> JsonPathField(f.column, f.path)]
         IN  IF f.negated THEN Negate(q) ELSE q

---------------------------------------------------------------------------
(* What is refused.                                                        *)

\* term_for_value: the literal has the type of the column.
TermForValue(c, x) ==
  CASE Definition[c].type \in {"integer", "integers"} -> x.type = "number"
    [] Definition[c].type \in {"text", "facet"}       -> x.type = "string"
    [] OTHER                                          -> FALSE

SearchableColumn(c) == Indexed(c) /\ Definition[c].type = "text"

JsonColumn(c) == c \in DOMAIN Definition /\ Definition[c].type = "json"

\* json_path_term: the value is of the declared type of the path.
JsonPathTerm(f) == Indexed(f.column) /\ JsonColumn(f.column) /\ f.value.type = f.type

LeafCompiles(f) ==
  CASE f.kind = "compare" -> Indexed(f.column) /\ TermForValue(f.column, f.value)
    [] f.kind = "between" -> /\ Indexed(f.column)
                             /\ TermForValue(f.column, f.lower) /\ TermForValue(f.column, f.upper)
    [] f.kind = "in"      -> /\ f.values # {} /\ Indexed(f.column)
                             /\ \A x \in f.values : TermForValue(f.column, x)
    [] f.kind = "null"    -> Indexed(f.column)
    [] f.kind = "search"  -> LET columns == SearchColumns(f.columns)
                             IN  columns # {} /\ \A c \in columns : SearchableColumn(c)
    [] f.kind = "regex"   -> SearchableColumn(f.column)
    [] f.kind = "json_compare" ->
         JsonPathTerm(f) /\ (f.type = "bool" => f.op \in {"equal", "not_equal"})
    [] f.kind = "json_between" -> Indexed(f.column) /\ JsonColumn(f.column)
    [] f.kind = "json_exists"  -> JsonColumn(f.column)

\* kinds: the predicates the compiler knows.
RECURSIVE Compiles(_, _)
Compiles(f, kinds) ==
  CASE f.kind \in {"all", "any"} -> f.filters # <<>> /\ \A i \in DOMAIN f.filters :
                                                          Compiles(f.filters[i], kinds)
    [] f.kind = "not"            -> Compiles(f.filter, kinds)
    [] OTHER                     -> f.kind \in kinds /\ LeafCompiles(f)

SearchKinds == StructuralKinds \cup TextKinds \cup {"json_compare", "json_between", "json_exists"}

\* Regular expressions and the other advanced text predicates are not supported
\* inside a filter aggregation.
AggregationKinds == SearchKinds \ {"regex"}

\* validate_filter_paths: observed[c, path] is the set of dynamic types in all
\* segments, deleted documents included.
RECURSIVE ValidateFilterPaths(_, _)
ValidateFilterPaths(f, observed) ==
  CASE f.kind \in {"json_compare", "json_between"} -> observed[f.column, f.path] = {f.type}
    [] f.kind = "json_exists"  -> f.type = {} \/ observed[f.column, f.path] = f.type
    [] f.kind \in {"all", "any"} -> \A i \in DOMAIN f.filters :
                                      ValidateFilterPaths(f.filters[i], observed)
    [] f.kind = "not"            -> ValidateFilterPaths(f.filter, observed)
    [] OTHER                     -> TRUE

---------------------------------------------------------------------------
(* Trees.                                                                  *)

RECURSIVE FilterContributesScore(_)
FilterContributesScore(f) ==
  CASE f.kind \in {"all", "any"} -> \E i \in DOMAIN f.filters : FilterContributesScore(f.filters[i])
    [] OTHER                     -> f.kind \in TextKinds

Occur(f) == IF f.kind = "all" THEN "must" ELSE "should"

RECURSIVE CompileFilterNodeRaw(_)

\* Mutant: structural predicates keep the score Tantivy gives them.
CompileFilterNodeScored(f) == CompileFilterNodeRaw(f)

CompileFilterNode(f) ==
  IF FilterContributesScore(f) THEN CompileFilterNodeRaw(f)
  ELSE [kind |-> "const0", query |-> CompileFilterNodeRaw(f)]

CompileFilterNodeRaw(f) ==
  CASE f.kind \in {"all", "any"} ->
         [kind |-> "bool",
          clauses |-> [i \in DOMAIN f.filters |->
                         [occur |-> Occur(f),
                          query |-> IF FilterContributesScore(f) THEN CompileFilterNode(f.filters[i])
                                    ELSE CompileFilterNodeRaw(f.filters[i])]]]
    [] f.kind = "not" -> Negate(CompileFilterNodeRaw(f.filter))
    [] OTHER          -> CompileLeaf(f)

\* An optional filter is a set of at most one.
CompileFilter(optional) ==
  IF optional = {} THEN AllQuery ELSE CompileFilterNode(CHOOSE f \in optional : TRUE)

RECURSIVE CompileAggregationFilter(_)
CompileAggregationFilter(f) ==
  CASE f.kind \in {"all", "any"} ->
         [kind |-> "bool",
          clauses |-> [i \in DOMAIN f.filters |->
                         [occur |-> Occur(f), query |-> CompileAggregationFilter(f.filters[i])]]]
    [] f.kind = "not" -> Negate(CompileAggregationFilter(f.filter))
    [] OTHER          -> CompileLeaf(f)

\* Mutant: IS NULL on the column stays.
StructuralColumnNoNull(f) == IF f.kind \in StructuralKinds \ {"null"} THEN {f.column} ELSE {}

StructuralColumn(f) == IF f.kind \in StructuralKinds THEN {f.column} ELSE {}

SimplifyBoolean(f, filters) ==
  CASE Len(filters) = 0 -> {}
    [] Len(filters) = 1 -> {filters[1]}
    [] OTHER            -> {[f EXCEPT !.filters = filters]}

RECURSIVE FilterWithoutColumn(_, _)
FilterWithoutColumn(f, c) ==
  CASE c \in StructuralColumn(f)  -> {}
    [] f.kind \in {"all", "any"} ->
         SimplifyBoolean(f, FoldLeft(LAMBDA acc, child : acc \o SetToSeq(FilterWithoutColumn(child, c)),
                                     <<>>, f.filters))
    [] f.kind = "not" -> {[f EXCEPT !.filter = g] : g \in FilterWithoutColumn(f.filter, c)}
    [] OTHER          -> {f}

---------------------------------------------------------------------------
(* What a filter says about a document.                                    *)

Compares(v, op, w) ==
  CASE op = "equal" -> v = w
    [] op = "greater" -> v > w   [] op = "greater_or_equal" -> v >= w
    [] op = "less"    -> v < w   [] op = "less_or_equal"    -> v <= w

\* The value of a column, every element of an array, nothing for NULL.
ValuesOf(doc, c) ==
  IF c \notin DOMAIN doc THEN {} ELSE IF IsArray(c) THEN doc[c] ELSE {doc[c]}

WordsOf(doc, columns) == UNION {Words[doc[c]] : c \in columns \cap DOMAIN doc}

JsonOf(doc, c, path) ==
  IF c \in DOMAIN doc /\ path \in DOMAIN doc[c] THEN {doc[c][path].v} ELSE {}

Some(values, op, v) == IF op = "not_equal" THEN v \notin values
                       ELSE \E w \in values : Compares(w, op, v)

RECURSIVE Holds(_, _)
Holds(f, doc) ==
  CASE f.kind = "compare" -> Some(ValuesOf(doc, f.column), f.op, f.value.v)
    [] f.kind = "between" -> \E v \in ValuesOf(doc, f.column) : v >= f.lower.v /\ v <= f.upper.v
    [] f.kind = "in"      -> \E x \in f.values : x.v \in ValuesOf(doc, f.column)
    [] f.kind = "null"    -> f.negated <=> f.column \in DOMAIN doc
    [] f.kind = "search"  -> f.word \in WordsOf(doc, SearchColumns(f.columns))
    [] f.kind = "regex"   -> f.words \cap WordsOf(doc, {f.column}) # {}
    [] f.kind = "json_compare" -> Some(JsonOf(doc, f.column, f.path), f.op, f.value.v)
    [] f.kind = "json_between" -> \E v \in JsonOf(doc, f.column, f.path) : v >= f.lower /\ v <= f.upper
    [] f.kind = "json_exists"  -> f.negated <=> JsonOf(doc, f.column, f.path) = {}
    [] f.kind = "all"     -> \A i \in DOMAIN f.filters : Holds(f.filters[i], doc)
    [] f.kind = "any"     -> \E i \in DOMAIN f.filters : Holds(f.filters[i], doc)
    [] f.kind = "not"     -> ~Holds(f.filter, doc)

\* The text predicates outside negations that hold, and nothing else, score.
RECURSIVE TextScore(_, _)
TextScore(f, doc) ==
  IF ~Holds(f, doc) THEN 0
  ELSE CASE f.kind \in TextKinds      -> Score(CompileLeaf(f), doc)
         [] f.kind \in {"all", "any"} ->
              FoldLeft(LAMBDA sum, child : sum + TextScore(child, doc), 0, f.filters)
         [] OTHER                     -> 0

=============================================================================
