------------------------------ MODULE ScanPlan ------------------------------
(***************************************************************************)
(* How a scan is planned: the filter hook that DuckDB's optimizer calls    *)
(* (ScanPushdownComplexFilter), the aggregate rewrite of the optimizer     *)
(* extension (salesforce_agg_optimizer.cpp) and SalesforceScanInitGlobal,  *)
(* which settles the transport and decides which WHERE is sent to the org. *)
(*                                                                         *)
(* Of the conjuncts of the query, an exact one is translated to SOQL and   *)
(* removed from the plan, an inexact one is translated and kept, any other *)
(* one is only kept.  The raw filter of salesforce_scan(..., filter := ...) *)
(* is text that DuckDB never sees, and may hold an OR.  A WHERE that is    *)
(* sent is the set of its alternatives, each the set of its conjuncts.     *)
(*                                                                         *)
(* What salesforce_last_soql() and the cost functions report of a scan is  *)
(* in Diagnostics.                                                         *)
(***************************************************************************)
EXTENDS Naturals, FiniteSets, FiniteSetsExt

CONSTANTS
  Exact, Inexact, Local,   \* the conjuncts a query may have, by translation
  Raw, Alternative,        \* a raw filter is Raw, or Raw OR Alternative
  Aggregates,              \* the aggregates a query may have
  MaxHooks,                \* bound: calls of the filter hook for one query
  MaxRows                  \* bound: rows an aggregate is compared over

ASSUME PlanAssumption ==
  /\ IsFiniteSet(Exact \cup Inexact \cup Local)
  /\ Exact \cap Inexact = {} /\ Exact \cap Local = {} /\ Inexact \cap Local = {}
  /\ Raw # Alternative
  /\ {Raw, Alternative} \cap (Exact \cup Inexact \cup Local) = {}
  /\ MaxHooks \in Nat /\ MaxRows \in Nat

Conjuncts == Exact \cup Inexact \cup Local

(* The settings a scan reads.  "other" stands for a value it rejects; the  *)
(* per-catalog override was validated when it was given, "" is none.       *)
Settings ==
  [ force_transport   : {"rest", "bulk", "auto", "other"},
    override          : {"", "rest", "bulk", "auto"},
    query_mode_ok     : BOOLEAN,
    auto_probe        : BOOLEAN,
    require_predicate : BOOLEAN,
    agg_pushdown      : BOOLEAN ]

(* A term of an aggregate: the function, its FILTER (WHERE ...) or ORDER   *)
(* BY, and the field below it.  "other" is a relationship, an expression,  *)
(* or a virtual column.                                                    *)
Terms ==
  [ fun      : {"count", "min", "max", "sum", "count_star"},
    distinct : BOOLEAN,
    filtered : BOOLEAN,
    field    : {"number", "text", "unsortable", "base64", "other"} ]

(* The aggregate of a query and how DuckDB plans it: one aggregate node on *)
(* the scan, or (DuckDB 2.0, for COUNT(DISTINCT x)) an aggregate over a    *)
(* GROUP BY x on the scan.  Any other plan, a GROUP BY of the query among  *)
(* them, is left as it is, and is not among the queries.                   *)
Aggregate == [ shape : {"single", "nested"}, terms : SUBSET Terms ]

NoAggregate == [shape |-> "single", terms |-> {}]

ASSUME AggregatesAssumption == Aggregates \subseteq Aggregate

(* The query: its WHERE, its raw filter, what it projects ("none" for a    *)
(* COUNT( * ), "blob" when a base64 field is among the fields), and the    *)
(* aggregate above the scan.                                               *)
Queries ==
  [ where     : SUBSET Conjuncts,
    raw       : {"none", "plain", "or"},
    projected : {"none", "fields", "blob"},
    aggregate : Aggregates \cup {NoAggregate} ]

(* An aggregate scans the fields below it. *)
Projects(aggregate) ==
  CASE \E t \in aggregate.terms : t.field = "base64" -> "blob"
    [] \A t \in aggregate.terms : t.fun = "count_star" /\ aggregate.shape = "single" -> "none"
    [] OTHER -> "fields"

VARIABLES
  settings, query,
  filters,                 \* the conjuncts left in DuckDB's plan
  hooks,                   \* calls of the filter hook so far
  pushed_where,            \* bind.pushed_where
  residual_filter_count,   \* bind.residual_filter_count
  pushed_aggregates,       \* bind.pushed_aggregates: what the org computes, per term
  pc,                      \* the step of InitGlobal, or how the scan runs
  effective,               \* the transport, once it is settled
  sent_where               \* the WHERE of the requests that fetch the answer

vars == <<settings, query, filters, hooks, pushed_where, residual_filter_count,
          pushed_aggregates, pc, effective, sent_where>>

bindVars == <<settings, query, filters, hooks, pushed_where, residual_filter_count,
              pushed_aggregates>>

rewritten == pushed_aggregates # {}

Init ==
  /\ settings \in Settings
  /\ query \in Queries
  /\ query.aggregate # NoAggregate => query.projected = Projects(query.aggregate)
  /\ filters = query.where
  /\ hooks = 0
  /\ pushed_where = {} /\ residual_filter_count = 0 /\ pushed_aggregates = {}
  /\ pc = "planning" /\ effective = "none"
  /\ sent_where = {}

-----------------------------------------------------------------------------
(* Planning.                                                               *)

(* A mutant of FilterHook: an empty call is not skipped and every call     *)
(* overwrites the WHERE of the last one.                                   *)
FilterHookOverwrites ==
  /\ pc = "planning" /\ hooks < MaxHooks
  /\ hooks' = hooks + 1
  /\ pushed_where' = filters \cap (Exact \cup Inexact)
  /\ filters' = filters \ Exact
  /\ residual_filter_count' = Cardinality(filters \ Exact)
  /\ UNCHANGED <<settings, query, pushed_aggregates, pc, effective, sent_where>>

(***************************************************************************)
(* DuckDB may call the hook more than once, with the filters still in the  *)
(* plan: what an earlier call left is presented again.  A call without     *)
(* filters changes nothing.                                                *)
(***************************************************************************)
FilterHook ==
  /\ pc = "planning" /\ hooks < MaxHooks
  /\ hooks' = hooks + 1
  /\ IF filters = {}
       THEN UNCHANGED <<filters, pushed_where, residual_filter_count>>
       ELSE /\ pushed_where' = pushed_where \cup (filters \cap (Exact \cup Inexact))
            /\ filters' = filters \ Exact
            /\ residual_filter_count' = Cardinality(filters \ Exact)
  /\ UNCHANGED <<settings, query, pushed_aggregates, pc, effective, sent_where>>

(* MIN and MAX keep to types both engines order alike, and to sortable     *)
(* fields.                                                                 *)
AggPushableMinMaxType(field) == field = "number"

(* TryRewriteCountAggregate: the guards on one term. *)
TermPushable(t) ==
  /\ ~ t.filtered
  /\ t.fun \in {"count", "min", "max"}
  /\ t.distinct => t.fun = "count"
  /\ t.field \notin {"base64", "other"}
  /\ t.fun # "count" => AggPushableMinMaxType(t.field)

(* The function the org computes for a term. *)
PushedFunction(t) ==
  IF t.fun = "count" THEN IF t.distinct THEN "COUNT_DISTINCT" ELSE "COUNT"
  ELSE IF t.fun = "min" THEN "MIN" ELSE "MAX"

(* A mutant of NestedPushable: COUNT( * ) over the groups is taken too. *)
NestedPushableCountStar(terms) ==
  /\ Cardinality(terms) = 1
  /\ \A t \in terms : /\ ~ t.distinct /\ ~ t.filtered /\ t.fun \in {"count", "count_star"}
                       /\ t.field \notin {"base64", "other"}

(* TryRewriteV2CountDistinct: one COUNT over the groups of one field. *)
NestedPushable(terms) ==
  /\ Cardinality(terms) = 1
  /\ \A t \in terms : /\ ~ t.distinct /\ ~ t.filtered /\ t.fun = "count"
                       /\ t.field \notin {"base64", "other"}

(***************************************************************************)
(* The optimizer extension runs after DuckDB's own passes and replaces the *)
(* aggregate when it sits on the scan with no filter in between: all of    *)
(* its terms or none, and both nodes of the nested shape.                  *)
(***************************************************************************)
AggregateRewrite ==
  /\ pc = "planning" /\ hooks > 0
  /\ query.aggregate.terms # {} /\ ~ rewritten /\ settings.agg_pushdown
  /\ filters = {} /\ residual_filter_count = 0
  /\ \/ /\ query.aggregate.shape = "single"
        /\ \A t \in query.aggregate.terms : TermPushable(t)
        /\ pushed_aggregates' = {[term |-> t, func |-> PushedFunction(t)]
                                   : t \in query.aggregate.terms}
     \/ /\ query.aggregate.shape = "nested"
        /\ NestedPushable(query.aggregate.terms)
        /\ pushed_aggregates' = {[term |-> t, func |-> "COUNT_DISTINCT"]
                                   : t \in query.aggregate.terms}
  /\ UNCHANGED <<settings, query, filters, hooks, pushed_where, residual_filter_count, pc,
                 effective, sent_where>>

-----------------------------------------------------------------------------
(* SalesforceScanInitGlobal.                                               *)

raw_where ==
  CASE query.raw = "none"  -> {{}}
    [] query.raw = "plain" -> {{Raw}}
    [] query.raw = "or"    -> {{Raw}, {Alternative}}

(***************************************************************************)
(* pushed_where + " AND " + raw_where, without parentheses: AND binds      *)
(* tighter, so the pushed conjuncts join the first alternative only.       *)
(***************************************************************************)
combined_where ==
  IF pushed_where = {} THEN raw_where
  ELSE {pushed_where \cup {c \in {Raw} : query.raw # "none"}}
         \cup {a \in raw_where : Alternative \in a}

transport == IF settings.override # "" THEN settings.override ELSE settings.force_transport

aggregate_only == query.projected = "none"

(* A mutant of BadSetting: the transport is not validated. *)
BadSettingUnchecked == ~ settings.query_mode_ok

(* The session setting is checked even where the catalog overrides it. *)
BadSetting == settings.force_transport = "other" \/ ~ settings.query_mode_ok

(* The SELECT is built; then the settings are resolved. *)
BeginInit ==
  /\ pc = "planning" /\ hooks > 0
  /\ pc' = CASE BadSetting -> "error"
             [] ~ BadSetting /\ rewritten -> "aggregating"
             [] ~ BadSetting /\ ~ rewritten -> IF transport = "auto" THEN "probing" ELSE "guards"
  /\ effective' = IF BadSetting \/ transport = "auto" THEN "none" ELSE transport
  /\ UNCHANGED <<bindVars, sent_where>>

(* One aggregate query, with the plan's WHERE; a failure is a hard error. *)
RunAggregate ==
  /\ pc = "aggregating"
  /\ pc' \in {"aggregate", "error"}
  /\ effective' = "rest"
  /\ sent_where' = {pushed_where}
  /\ UNCHANGED bindVars

(* 'auto': COUNT() with the combined WHERE tells a large result (bulk) from *)
(* a small one (rest); REST without a probe, or when the probe fails.      *)
ResolveAuto ==
  /\ pc = "probing"
  /\ effective' \in IF aggregate_only \/ ~ settings.auto_probe THEN {"rest"} ELSE {"rest", "bulk"}
  /\ pc' = "guards"
  /\ UNCHANGED <<bindVars, sent_where>>

(* A blob field keeps 'auto' off Bulk. *)
BlobFallback == IF query.projected = "blob" THEN "rest" ELSE effective

(* A Bulk read that pushes no predicate would extract the whole object. *)
PredicateMissing == combined_where = {{}}

(* The blob guard, then sf_bulk_require_predicate. *)
ApplyGuards ==
  /\ pc = "guards"
  /\ IF \/ transport = "bulk" /\ query.projected = "blob"
        \/ BlobFallback = "bulk" /\ PredicateMissing /\ settings.require_predicate
       THEN pc' = "error" /\ UNCHANGED effective
       ELSE pc' = "guarded" /\ effective' = BlobFallback
  /\ UNCHANGED <<bindVars, sent_where>>

CountPushable == aggregate_only /\ residual_filter_count = 0 /\ effective # "bulk"

(* COUNT pushdown: the scan emits as many empty rows as the org counts. *)
PushCount ==
  /\ pc = "guarded" /\ CountPushable
  /\ pc' = "count"
  /\ sent_where' = combined_where
  /\ UNCHANGED <<bindVars, effective>>

(* REST, also when the COUNT() query failed. *)
StartRest ==
  /\ pc = "guarded" /\ effective = "rest"
  /\ pc' = "rest"
  /\ sent_where' = combined_where
  /\ UNCHANGED <<bindVars, effective>>

(* Bulk: the WHERE of every chunk job, and of the MIN/MAX probe, starts    *)
(* from bind.pushed_where.                                                 *)
StartBulk ==
  /\ pc = "guarded" /\ effective = "bulk"
  /\ pc' = "bulk"
  /\ sent_where' = {pushed_where}
  /\ UNCHANGED <<bindVars, effective>>

Running == pc \in {"rest", "bulk", "count", "aggregate"}

(* The scan is planned. *)
Planned == (Running \/ pc = "error") /\ UNCHANGED vars

Next ==
  \/ FilterHook
  \/ AggregateRewrite
  \/ BeginInit
  \/ RunAggregate
  \/ ResolveAuto
  \/ ApplyGuards
  \/ PushCount
  \/ StartRest
  \/ StartBulk
  \/ Planned

Spec == Init /\ [][Next]_vars

-----------------------------------------------------------------------------
(* Properties.                                                             *)

(* Every variable keeps its type. *)
TypeOK ==
  /\ settings \in Settings
  /\ query \in Queries
  /\ filters \subseteq Conjuncts
  /\ hooks \in 0 .. MaxHooks
  /\ pushed_where \subseteq Conjuncts
  /\ residual_filter_count \in Nat
  /\ pushed_aggregates \subseteq
       [term : Terms, func : {"COUNT", "COUNT_DISTINCT", "MIN", "MAX"}]
  /\ pc \in {"planning", "aggregating", "probing", "guards", "guarded", "rest", "bulk",
             "count", "aggregate", "error"}
  /\ effective \in {"none", "rest", "bulk"}
  /\ sent_where \subseteq SUBSET (Conjuncts \cup {Raw, Alternative})

(* However often the hook was called, every conjunct of the query is       *)
(* applied to every row: by the org or by DuckDB where rows are fetched,   *)
(* by the org where only a count or an aggregate comes back and DuckDB has *)
(* no row to apply it to.  The one exception is a raw filter that holds an *)
(* OR (RawFilterApplied).                                                  *)
PredicatesApplied ==
  Running =>
    /\ \A a \in sent_where :
         query.where \subseteq a \cup filters \/ (query.raw = "or" /\ Alternative \in a)
    /\ pc \in {"count", "aggregate"} => filters = {}

(* The contents of a column: a value per row, 0 for NULL. *)
Contents == UNION {[1 .. n -> 0 .. 2] : n \in 0 .. MaxRows}

(* What DuckDB computes for a term over the rows, had it fetched them; a   *)
(* FILTER keeps those of value 2.                                          *)
LocalAnswer(shape, t, column) ==
  LET rows   == {r \in DOMAIN column : t.filtered => column[r] = 2}
      values == {column[r] : r \in rows} \ {0}
  IN  CASE t.fun = "count_star" ->
             IF shape = "single" THEN Cardinality(rows)
             ELSE Cardinality({column[r] : r \in rows})
        [] t.fun = "count" ->
             IF t.distinct \/ shape = "nested" THEN Cardinality(values)
             ELSE Cardinality({r \in rows : column[r] # 0})
        [] t.fun = "min" -> IF values = {} THEN 0 ELSE Min(values)
        [] t.fun = "max" -> IF values = {} THEN 0 ELSE Max(values)

(* What the org computes: NULL is never counted, and text is ordered by    *)
(* the org's collation, here the reverse of DuckDB's.                      *)
ServerAnswer(func, field, column) ==
  LET values   == {column[r] : r \in DOMAIN column} \ {0}
      smallest == IF values = {} THEN 0 ELSE Min(values)
      largest  == IF values = {} THEN 0 ELSE Max(values)
  IN  CASE func = "COUNT"          -> Cardinality({r \in DOMAIN column : column[r] # 0})
        [] func = "COUNT_DISTINCT" -> Cardinality(values)
        [] func = "MIN" -> IF field = "text" THEN largest ELSE smallest
        [] func = "MAX" -> IF field = "text" THEN smallest ELSE largest

(* A pushed aggregate changes no answer: for every contents of the columns, *)
(* NULLs and no rows among them, the org computes for every term what      *)
(* DuckDB would have computed from the rows, in both shapes of the plan,   *)
(* and it computes every term the removed aggregate had.                   *)
AggregateExact ==
  rewritten =>
    /\ {p.term : p \in pushed_aggregates} = query.aggregate.terms
    /\ \A p \in pushed_aggregates, column \in Contents :
         ServerAnswer(p.func, p.term.field, column)
           = LocalAnswer(query.aggregate.shape, p.term, column)

(* The raw filter is "AND-ed into the server-side WHERE", whatever the     *)
(* transport and the pushdown.                                             *)
RawFilterApplied == Running => sent_where = {pushed_where \cup r : r \in raw_where}
=============================================================================
