----------------------------- MODULE MCScanPlan -----------------------------
(* One conjunct of each kind, all settings, every shape of a query, and    *)
(* one aggregate for each way the rewrite can go.                          *)
EXTENDS ScanPlan

CONSTANTS e1, i1, l1, raw, alt

MCExact   == {e1}
MCInexact == {i1}
MCLocal   == {l1}

Single(terms) == [shape |-> "single", terms |-> terms]
Nested(term)  == [shape |-> "nested", terms |-> {term}]

Term(fun, field) == [fun |-> fun, distinct |-> FALSE, filtered |-> FALSE, field |-> field]

DistinctCount(field) == [Term("count", field) EXCEPT !.distinct = TRUE]

WithCondition(term) == [term EXCEPT !.filtered = TRUE]

MCAggregates ==
  { Single({Term("count", "text"), DistinctCount("number")}),
    Single({Term("min", "number"), Term("max", "number")}),
    Single({Term("count", "number"), Term("min", "text")}),
    Single({Term("sum", "number"), Term("count", "number")}),
    Single({Term("count_star", "number")}),
    Single({Term("count", "base64")}),
    Single({Term("max", "unsortable")}),
    Single({WithCondition(Term("count", "number"))}),
    Nested(Term("count", "text")),
    Nested(WithCondition(Term("count", "text"))),
    Nested(Term("count", "other")),
    Nested(Term("count_star", "number")) }
=============================================================================
