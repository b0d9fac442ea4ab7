---------------------------- MODULE MCTypedReads ----------------------------
(* Requests that reach every collector, with and without a cursor.         *)
EXTENDS TypedReads

Sort(key, asc) == <<[key |-> key, asc |-> asc]>>
Plain(order) == [order |-> order, limit |-> 1, minScore |-> FALSE, showScore |-> FALSE,
                 scoring |-> FALSE]
Col(type, nullable) == [type |-> type, nullable |-> nullable, indexed |-> TRUE]
Pair(def, r) == [def |-> def, req |-> r]

MCCases ==
  { Pair(Col("Integer", FALSE), Plain(Sort("val", TRUE))),
    Pair(Col("Integer", FALSE), Plain(Sort("val", FALSE))),
    Pair(Col("Integer", TRUE),  Plain(Sort("val", FALSE))),
    Pair([Col("Integer", FALSE) EXCEPT !.indexed = FALSE], Plain(Sort("val", TRUE))),
    Pair(Col("Text", FALSE),    [Plain(Sort("val", FALSE)) EXCEPT !.limit = 2]),
    Pair(Col("Text", TRUE),     [Plain(Sort("val", TRUE)) EXCEPT !.minScore = TRUE, !.scoring = TRUE]),
    Pair(Col("Ip", FALSE),      Plain(Sort("val", TRUE))),
    Pair(Col("Json", TRUE),     Plain(Sort("val", TRUE))),
    Pair(Col("Text", FALSE),    [Plain(Sort("_score", FALSE)) EXCEPT !.scoring = TRUE]),
    Pair(Col("Text", FALSE),    [Plain(<<>>) EXCEPT !.limit = 2]) }
=============================================================================
