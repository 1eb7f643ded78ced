--------------------------- MODULE MCReportBridge ---------------------------
(* A diamond, a cycle of three, a reference to itself, a polymorphic field,*)
(* an unnamed child and an object that is not queryable; reports over them *)
(* that meet every way a report may block, alone and together.             *)
EXTENDS ReportBridge

CONSTANTS acc, con, usr, log, own, who, hist

MCObjects == {acc, con, usr, log}

To(n, o) == [ name |-> n, refs |-> << o >> ]

MCParents ==
  [ o \in MCObjects |->
      CASE o = acc -> << To(own, usr), To(con, con), To(acc, acc) >>
        [] o = con -> << To(own, usr), [ name |-> who, refs |-> << acc, usr >> ], To(hist, log) >>
        [] o = usr -> << To(acc, acc), To(con, con) >>
        [] o = log -> << To(own, usr) >> ]

Child(o) == [ named |-> TRUE, object |-> o ]

MCChildren ==
  [ o \in MCObjects |->
      CASE o = acc -> << Child(con), Child(acc), [ named |-> FALSE, object |-> usr ] >>
        [] o = con -> << Child(log), Child(usr) >>
        [] o = usr -> << Child(acc), Child(con) >>
        [] o = log -> << >> ]

MCQueryable == {acc, con, usr}
MCFlaky == {con, usr}

(* name is everywhere, note only where it cannot be filtered. *)
MCSchema == [ o \in MCObjects |-> IF o = con THEN {"name"} ELSE {"name", "note"} ]
MCDroppable == { << acc, "name" >> }
MCFilterable == { << o, "name" >> : o \in MCObjects }
MCReadings ==
  [ t \in {"NAME", "NOTE", "ADDR"} |->
      CASE t = "NAME" -> << "full", "name" >> [] t = "NOTE" -> << "note" >> [] t = "ADDR" -> << "addr" >> ]
MCTokenMap == { << acc, "ADDR", "NAME" >> }
MCSafe == {acc, con, usr, log, own, who}

NAME == << "NAME" >>
Filter(token, op, value) == [ field |-> token, op |-> op, value |-> value ]

Plain ==
  [ tabular |-> TRUE, cross |-> FALSE, suffix |-> acc, categories |-> {}, builtin |-> None,
    columns |-> << NAME >>, filters |-> << Filter(NAME, "compare", "text") >>, logic |-> << >> ]

(* The root: its sources, and a prefix that is a guess. *)
Rooted ==
  { [Plain EXCEPT !.suffix = s, !.categories = c, !.builtin = b, !.columns = << << con, "NAME" >> >>] :
      s \in {None, hist, con}, c \in {{}, {log}, {acc}, {acc, con}}, b \in {None, acc} }

(* The columns, on both roots. *)
Columns ==
  { [Plain EXCEPT !.suffix = s, !.columns = c] : s \in {acc, con},
      c \in { << >>, << << "NOTE" >>, NAME >>, << << "ADDR" >> >>, << << own, "NOTE" >>, << own, "NAME" >> >>,
              << << who, "NAME" >> >>, << << hist, "NAME" >> >>, << << acc, own, "NAME" >>, << "NOTE" >> >> } }

SomeFilters ==
  { Filter(NAME, "compare", "numeric"), Filter(NAME, "compare", "ambiguous"), Filter(NAME, "like", "ambiguous"),
    Filter(NAME, "between", "text"), Filter(<< "NOTE" >>, "compare", "text"), Filter(<< who, "NAME" >>, "like", "text") }

(* Two filters and their logic. *)
Filtered ==
  { [Plain EXCEPT !.suffix = s, !.filters = << f, g >>, !.logic = w] : s \in {con},
      f \in SomeFilters, g \in SomeFilters, w \in { << 1, AndWord, 2 >>, << 1, OtherWord, 2 >> } }

(* The shape, and a report blocked in several ways. *)
Shaped ==
  { [Plain EXCEPT !.tabular = t, !.cross = c, !.columns = << << "NOTE" >> >>, !.suffix = s,
                  !.filters = << Filter(<< "NOTE" >>, "between", "text") >>, !.logic = w] :
      t \in BOOLEAN, c \in BOOLEAN, s \in {acc, con}, w \in { << >>, << 2 >>, << 1, AndWord >> } }

MCReports == {Plain} \union Rooted \union Columns \union Filtered \union Shaped

Item(role, field, pushed) == [ role |-> role, field |-> field, pushed |-> pushed ]

(* No scan yet, a scan of rows, a pushed aggregate of a detached catalog. *)
MCSnapshots ==
  { [ object |-> None, attached |-> FALSE, count |-> FALSE, items |-> << >> ],
    [ object |-> acc, attached |-> TRUE, count |-> FALSE,
      items |-> << Item("projection", "name", TRUE), Item("relationship", own, FALSE), Item("filter", "name", TRUE),
                   Item("filter", None, FALSE), Item("filter", "note", FALSE), Item("filter", "name", FALSE) >> ],
    [ object |-> usr, attached |-> TRUE, count |-> TRUE, items |-> << Item("aggregate", "note", TRUE) >> ],
    [ object |-> acc, attached |-> FALSE, count |-> FALSE, items |-> << Item("projection", "name", TRUE) >> ] }

(* A label without the last underscore of the prefix is not reserved, but  *)
(* it is with a number after it.                                           *)
MCReserved == { << "__sf_report_truncated" >>, << "__sf_report", "2" >> }
MCDiagnostic == { << "__sf_report_truncated" >> }
Column(l, a) == [ label |-> l, api |-> a ]
Labels == { << >>, << "A" >>, << "A", "2" >>, << "__sf_report_truncated" >>, << "__sf_report" >> }

MCSamples ==
  { [ tabular |-> t, columns |-> << Column(k, << "A" >>), Column(l, << "A" >>), Column(m, << "B" >>), Column(l, << >>) >>,
      rows |-> << 1, 5 >>, allData |-> "false" ] : t \in BOOLEAN, k \in {<< >>, << "A" >>}, l \in Labels, m \in Labels }
    \union { [ tabular |-> TRUE, columns |-> << >>, rows |-> << 1 >>, allData |-> a ] : a \in {"true", "false", "absent"} }
=============================================================================
