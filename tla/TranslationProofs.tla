------------------------- MODULE TranslationProofs --------------------------
(***************************************************************************)
(* Nothing is dropped silently on the way to SOQL.                         *)
(*                                                                         *)
(* A plan keeps the answer of the query, for every set of conjuncts, every *)
(* set of aggregates and any number of calls of the filter hook.  What the *)
(* hook takes out of DuckDB's plan is in pushed_where, and what it leaves  *)
(* is counted in residual_filter_count; the pushdowns that leave DuckDB no *)
(* row to filter look at that count.                                       *)
(*                                                                         *)
(* What is pushed of a query's conjuncts, and what stays with DuckDB,      *)
(* select the rows of the query, for conjuncts nested to any depth: by     *)
(* induction over them, a clause lets all rows of its predicate through.   *)
(*                                                                         *)
(* A translated report keeps all of the report, for every report, schema   *)
(* and history of the shared metadata engine.  blocked_by is at any time   *)
(* the first of the reasons judged so far, and what was judged stays as it *)
(* was judged: during a call the cache only grows and the org is at rest.  *)
(*                                                                         *)
(* The walk of the relationship graph reports each edge once: at any time  *)
(* the rows are those of the edges that are not pending on its stack.      *)
(***************************************************************************)
EXTENDS ScanPlan, ReportBridge, Soql, FiniteSetTheorems, SequenceTheorems,
        WellFoundedInduction, TLAPS

-----------------------------------------------------------------------------
(* The plan of a scan.                                                     *)


(* Every conjunct is pushed or left in the plan, and those left are        *)
(* counted from the first call of the hook on.                             *)
FilterInv ==
  /\ filters \subseteq query.where
  /\ query.where \subseteq pushed_where \cup filters
  /\ hooks = 0 => residual_filter_count = 0
  /\ hooks > 0 => residual_filter_count = Cardinality(filters)
  /\ pc # "planning" => hooks > 0

(* The pushed aggregate is the one of the query, on an unfiltered scan. *)
AggregateInv ==
  rewritten =>
    /\ filters = {} /\ hooks > 0
    /\ \/ /\ query.aggregate.shape = "single"
          /\ \A t \in query.aggregate.terms : TermPushable(t)
          /\ pushed_aggregates = {[term |-> t, func |-> PushedFunction(t)]
                                    : t \in query.aggregate.terms}
       \/ /\ query.aggregate.shape = "nested"
          /\ NestedPushable(query.aggregate.terms)
          /\ pushed_aggregates = {[term |-> t, func |-> "COUNT_DISTINCT"]
                                    : t \in query.aggregate.terms}

(* What each way of running sends, and that only an unfiltered scan takes  *)
(* the two ways that fetch no rows.                                        *)
SentInv ==
  /\ pc \in {"rest", "count"} => sent_where = combined_where
  /\ pc \in {"bulk", "aggregate"} => sent_where = {pushed_where}
  /\ pc \in {"aggregating", "aggregate"} => rewritten
  /\ pc = "count" => filters = {}

(* The inductive invariant. *)
PlanInv == TypeOK /\ FilterInv /\ AggregateInv /\ SentInv

-----------------------------------------------------------------------------

(* The conjuncts left in a plan are finitely many. *)
LEMMA FiltersFinite ==
  ASSUME NEW S \in SUBSET Conjuncts
  PROVE  IsFiniteSet(S) /\ Cardinality(S) \in Nat /\ (Cardinality(S) = 0 => S = {})
  <1>1. IsFiniteSet(S)
    BY PlanAssumption, FS_Subset DEF Conjuncts
  <1> QED
    BY <1>1, FS_CardinalityType, FS_EmptySet

(* A combined WHERE has the pushed conjuncts in every alternative but the  *)
(* second one of a raw filter with an OR.                                  *)
LEMMA CombinedWhere ==
  ASSUME TypeOK
  PROVE  /\ combined_where \subseteq SUBSET (Conjuncts \cup {Raw, Alternative})
         /\ \A a \in combined_where :
              pushed_where \subseteq a \/ (query.raw = "or" /\ Alternative \in a)
  <1>1. query.raw \in {"none", "plain", "or"} /\ pushed_where \subseteq Conjuncts
    BY DEF TypeOK, Queries
  <1>2. /\ query.raw = "none" => raw_where = {{}}
        /\ query.raw = "plain" => raw_where = {{Raw}}
        /\ query.raw = "or" => raw_where = {{Raw}, {Alternative}}
    BY DEF raw_where
  <1>3. raw_where \subseteq SUBSET {Raw, Alternative}
    BY <1>1, <1>2
  <1>4. \A a \in raw_where : Alternative \in a => query.raw = "or"
    BY <1>1, <1>2, PlanAssumption
  <1>5. CASE pushed_where = {}
    BY <1>3, <1>5 DEF combined_where
  <1>6. CASE pushed_where # {}
    BY <1>1, <1>3, <1>4, <1>6 DEF combined_where
  <1> QED
    BY <1>5, <1>6

(* A conjunct is in the plan when planning begins. *)
LEMMA PlanInvInit == Init => PlanInv
  <1> SUFFICES ASSUME Init PROVE PlanInv
    OBVIOUS
  <1>1. filters \subseteq Conjuncts
    BY DEF Init, Queries
  <1>2. TypeOK
    BY <1>1, PlanAssumption DEF Init, TypeOK
  <1>3. FilterInv /\ AggregateInv /\ SentInv
    BY DEF Init, FilterInv, AggregateInv, SentInv, rewritten
  <1> QED
    BY <1>2, <1>3 DEF PlanInv

(* The hook, whatever it is called with. *)
LEMMA FilterHookKeeps == PlanInv /\ FilterHook => PlanInv'
  <1> SUFFICES ASSUME PlanInv, FilterHook PROVE PlanInv'
    OBVIOUS
  <1> USE PlanAssumption
  <1>1. /\ pc = "planning" /\ hooks' = hooks + 1 /\ hooks < MaxHooks /\ hooks \in Nat
        /\ UNCHANGED <<settings, query, pushed_aggregates, pc, effective, sent_where>>
        /\ filters \subseteq Conjuncts /\ pushed_where \subseteq Conjuncts
    BY DEF FilterHook, PlanInv, TypeOK
  <1>2. /\ filters' \subseteq filters /\ pushed_where \subseteq pushed_where'
        /\ pushed_where' \subseteq Conjuncts /\ filters \subseteq pushed_where' \cup filters'
    BY <1>1 DEF FilterHook, Conjuncts
  <1>3. residual_filter_count' = Cardinality(filters')
    <2>1. CASE filters = {}
      <3>1. UNCHANGED <<filters, residual_filter_count>>
        BY <2>1 DEF FilterHook
      <3>2. residual_filter_count = 0 \/ residual_filter_count = Cardinality(filters)
        BY <1>1 DEF PlanInv, FilterInv
      <3> QED
        BY <2>1, <3>1, <3>2, FS_EmptySet
    <2>2. CASE filters # {}
      BY <2>2 DEF FilterHook
    <2> QED
      BY <2>1, <2>2
  <1>4. TypeOK'
    <2>1. filters' \subseteq Conjuncts
      BY <1>1, <1>2
    <2>2. residual_filter_count' \in Nat
      BY <1>3, <2>1, FiltersFinite
    <2>3. hooks' \in 0 .. MaxHooks
      BY <1>1
    <2> QED
      BY <1>1, <1>2, <2>1, <2>2, <2>3 DEF PlanInv, TypeOK
  <1>5. FilterInv'
    BY <1>1, <1>2, <1>3 DEF PlanInv, FilterInv
  <1>6. AggregateInv'
    <2>1. SUFFICES ASSUME rewritten
                   PROVE  AggregateInv'
      BY <1>1 DEF AggregateInv, rewritten
    <2>2. filters' = {} /\ hooks' > 0
      BY <1>1, <1>2, <2>1 DEF PlanInv, AggregateInv
    <2> QED
      BY <1>1, <2>1, <2>2 DEF PlanInv, AggregateInv
  <1>7. SentInv'
    BY <1>1 DEF SentInv
  <1> QED
    BY <1>4, <1>5, <1>6, <1>7 DEF PlanInv

(* The aggregate rewrite: all of its terms, or none. *)
LEMMA AggregateRewriteKeeps == PlanInv /\ AggregateRewrite => PlanInv'
  <1> SUFFICES ASSUME PlanInv, AggregateRewrite PROVE PlanInv'
    OBVIOUS
  <1>1. /\ pc = "planning" /\ hooks > 0 /\ filters = {}
        /\ UNCHANGED <<settings, query, filters, hooks, pushed_where, residual_filter_count>>
        /\ UNCHANGED <<pc, effective, sent_where>>
    BY DEF AggregateRewrite
  <1>2. query.aggregate.terms \subseteq Terms
    BY AggregatesAssumption DEF PlanInv, TypeOK, Queries, Aggregate, NoAggregate
  <1>3. \A t \in Terms : PushedFunction(t) \in {"COUNT", "COUNT_DISTINCT", "MIN", "MAX"}
    BY DEF PushedFunction
  <1>4. pushed_aggregates' \subseteq
          [term : Terms, func : {"COUNT", "COUNT_DISTINCT", "MIN", "MAX"}]
    BY <1>2, <1>3 DEF AggregateRewrite
  <1>5. TypeOK'
    BY <1>1, <1>4 DEF PlanInv, TypeOK
  <1>6. FilterInv'
    BY <1>1 DEF PlanInv, FilterInv
  <1>7. AggregateInv'
    BY <1>1 DEF AggregateRewrite, AggregateInv
  <1>8. SentInv'
    BY <1>1 DEF SentInv
  <1> QED
    BY <1>5, <1>6, <1>7, <1>8 DEF PlanInv

(* InitGlobal leaves the plan alone: what it settles follows from it. *)
LEMMA InitGlobalKeeps ==
  ASSUME PlanInv, UNCHANGED bindVars,
         pc' \in {"aggregating", "probing", "guards", "guarded", "rest", "bulk", "count",
                  "aggregate", "error"},
         effective' \in {"none", "rest", "bulk"},
         hooks > 0,
         pc' \in {"rest", "count"} => sent_where' = combined_where,
         pc' \in {"bulk", "aggregate"} => sent_where' = {pushed_where},
         pc' \notin {"rest", "count", "bulk", "aggregate"} =>
           sent_where' = sent_where \/ sent_where' = {pushed_where},
         pc' \in {"aggregating", "aggregate"} => rewritten,
         pc' = "count" => filters = {}
  PROVE  PlanInv'
  <1>1. UNCHANGED <<settings, query, filters, hooks, pushed_where, residual_filter_count,
                    pushed_aggregates>>
    BY DEF bindVars
  <1>2. sent_where' \subseteq SUBSET (Conjuncts \cup {Raw, Alternative})
    BY CombinedWhere DEF PlanInv, TypeOK
  <1>3. TypeOK'
    BY <1>1, <1>2 DEF PlanInv, TypeOK
  <1>4. FilterInv' /\ AggregateInv'
    BY <1>1 DEF PlanInv, FilterInv, AggregateInv, rewritten
  <1>5. combined_where' = combined_where
    BY <1>1 DEF combined_where, raw_where
  <1>6. SentInv'
    BY <1>1, <1>5 DEF SentInv, rewritten
  <1> QED
    BY <1>3, <1>4, <1>6 DEF PlanInv

(* Every step keeps the invariant. *)
LEMMA PlanInvNext == PlanInv /\ [Next]_vars => PlanInv'
  <1> SUFFICES ASSUME PlanInv, [Next]_vars PROVE PlanInv'
    OBVIOUS
  <1>0. /\ settings \in Settings /\ effective \in {"none", "rest", "bulk"}
        /\ pc # "planning" => hooks > 0
    BY DEF PlanInv, TypeOK, FilterInv
  <1>1. CASE FilterHook
    BY <1>1, FilterHookKeeps
  <1>2. CASE AggregateRewrite
    BY <1>2, AggregateRewriteKeeps
  <1>3. CASE BeginInit
    <2>1. /\ hooks > 0 /\ UNCHANGED bindVars /\ sent_where' = sent_where
          /\ pc' \in {"error", "aggregating", "probing", "guards"}
          /\ pc' = "aggregating" => rewritten
      BY <1>3 DEF BeginInit
    <2>2. effective' \in {"none", "rest", "bulk"}
      BY <1>0, <1>3 DEF BeginInit, BadSetting, transport, Settings
    <2> QED
      BY <2>1, <2>2, InitGlobalKeeps
  <1>4. CASE RunAggregate
    <2>1. rewritten
      BY <1>4 DEF RunAggregate, PlanInv, SentInv
    <2> QED
      BY <1>0, <1>4, <2>1, InitGlobalKeeps DEF RunAggregate
  <1>5. CASE ResolveAuto
    BY <1>0, <1>5, InitGlobalKeeps DEF ResolveAuto
  <1>6. CASE ApplyGuards
    BY <1>0, <1>6, InitGlobalKeeps DEF ApplyGuards, BlobFallback
  <1>7. CASE PushCount
    <2>1. filters = {}
      BY <1>0, <1>7, FiltersFinite DEF PushCount, CountPushable, PlanInv, TypeOK, FilterInv
    <2> QED
      BY <1>0, <1>7, <2>1, InitGlobalKeeps DEF PushCount
  <1>8. CASE StartRest
    BY <1>0, <1>8, InitGlobalKeeps DEF StartRest
  <1>9. CASE StartBulk
    BY <1>0, <1>9, InitGlobalKeeps DEF StartBulk
  <1>10. CASE UNCHANGED vars
    <2>1. TypeOK'
      BY <1>10 DEF vars, PlanInv, TypeOK
    <2>2. FilterInv'
      BY <1>10 DEF vars, PlanInv, FilterInv
    <2>3. AggregateInv'
      BY <1>10 DEF vars, PlanInv, AggregateInv, rewritten
    <2>4. SentInv'
      BY <1>10 DEF vars, PlanInv, SentInv, combined_where, raw_where, rewritten
    <2> QED
      BY <2>1, <2>2, <2>3, <2>4 DEF PlanInv
  <1> QED
    BY <1>1, <1>2, <1>3, <1>4, <1>5, <1>6, <1>7, <1>8, <1>9, <1>10 DEF Next, Planned

-----------------------------------------------------------------------------

(* Every variable of a plan keeps its type: the settings that pass are the *)
(* ones a transport can be settled from.                                   *)
THEOREM PlanTypeOK == Spec => []TypeOK
  <1>1. PlanInv => TypeOK
    BY DEF PlanInv
  <1> QED
    BY PlanInvInit, PlanInvNext, <1>1, PTL DEF Spec

(* Every conjunct of the query is applied to every row, by the org or by   *)
(* DuckDB, however often the hook was called and whatever was rewritten.   *)
THEOREM PlanPredicatesApplied == Spec => []PredicatesApplied
  <1>1. PlanInv => PredicatesApplied
    <2> SUFFICES ASSUME PlanInv, Running
                 PROVE  /\ \A a \in sent_where :
                             \/ query.where \subseteq a \cup filters
                             \/ query.raw = "or" /\ Alternative \in a
                        /\ pc \in {"count", "aggregate"} => filters = {}
      BY DEF PredicatesApplied
    <2>1. query.where \subseteq pushed_where \cup filters
      BY DEF PlanInv, FilterInv
    <2>2. \A a \in sent_where : pushed_where \subseteq a \/ (query.raw = "or" /\ Alternative \in a)
      BY CombinedWhere DEF PlanInv, SentInv, Running
    <2>3. pc \in {"count", "aggregate"} => filters = {}
      BY DEF PlanInv, SentInv, AggregateInv
    <2> QED
      BY <2>1, <2>2, <2>3
  <1> QED
    BY PlanInvInit, PlanInvNext, <1>1, PTL DEF Spec

(* A pushed aggregate changes no answer: the org computes every term of    *)
(* the removed aggregate, and for each what DuckDB would have computed, in *)
(* both shapes of the plan.                                                *)
THEOREM PlanAggregateExact == Spec => []AggregateExact
  <1>1. PlanInv => AggregateExact
    <2> SUFFICES ASSUME PlanInv, rewritten
                 PROVE  /\ {p.term : p \in pushed_aggregates} = query.aggregate.terms
                        /\ \A p \in pushed_aggregates, column \in Contents :
                             ServerAnswer(p.func, p.term.field, column)
                               = LocalAnswer(query.aggregate.shape, p.term, column)
      BY DEF AggregateExact
    <2>1. {p.term : p \in pushed_aggregates} = query.aggregate.terms
      <3>1. ASSUME NEW p \in pushed_aggregates
            PROVE  p.term \in query.aggregate.terms
        BY DEF PlanInv, AggregateInv
      <3>2. ASSUME NEW t \in query.aggregate.terms
            PROVE  \E p \in pushed_aggregates : t = p.term
        <4>1. PICK func : [term |-> t, func |-> func] \in pushed_aggregates
          BY DEF PlanInv, AggregateInv
        <4> QED
          BY <4>1
      <3> QED
        BY <3>1, <3>2
    <2>2. ASSUME NEW t \in query.aggregate.terms, NEW column \in Contents,
                 query.aggregate.shape = "single", TermPushable(t)
          PROVE  ServerAnswer(PushedFunction(t), t.field, column)
                   = LocalAnswer("single", t, column)
      <3> DEFINE met == {r \in DOMAIN column : t.filtered => column[r] = 2}
      <3>1. met = DOMAIN column
        BY <2>2 DEF TermPushable
      <3>2. CASE t.fun = "count" /\ t.distinct
        BY <3>2, <3>1 DEF PushedFunction, ServerAnswer, LocalAnswer
      <3>3. CASE t.fun = "count" /\ ~ t.distinct
        BY <3>3, <3>1 DEF PushedFunction, ServerAnswer, LocalAnswer
      <3>4. CASE t.fun = "min"
        <4>1. t.field = "number"
          BY <2>2, <3>4 DEF TermPushable, AggPushableMinMaxType
        <4> QED
          BY <3>4, <3>1, <4>1 DEF PushedFunction, ServerAnswer, LocalAnswer
      <3>5. CASE t.fun = "max"
        <4>1. t.field = "number"
          BY <2>2, <3>5 DEF TermPushable, AggPushableMinMaxType
        <4> QED
          BY <3>5, <3>1, <4>1 DEF PushedFunction, ServerAnswer, LocalAnswer
      <3> QED
        BY <2>2, <3>2, <3>3, <3>4, <3>5 DEF TermPushable
    <2>3. ASSUME NEW t \in query.aggregate.terms, NEW column \in Contents,
                 NestedPushable(query.aggregate.terms)
          PROVE  ServerAnswer("COUNT_DISTINCT", t.field, column)
                   = LocalAnswer("nested", t, column)
      <3> DEFINE met == {r \in DOMAIN column : t.filtered => column[r] = 2}
      <3>1. t.fun = "count" /\ met = DOMAIN column
        BY <2>3 DEF NestedPushable
      <3> QED
        BY <3>1 DEF ServerAnswer, LocalAnswer
    <2> QED
      BY <2>1, <2>2, <2>3 DEF PlanInv, AggregateInv
  <1> QED
    BY PlanInvInit, PlanInvNext, <1>1, PTL DEF Spec

-----------------------------------------------------------------------------
(* The functions on the shared metadata engine.                            *)


(* The walk: its directions, its stack and its chain are lists, and a walk *)
(* has a root and a direction.                                             *)
Frames == [ object : Objects, next : Nat \ {0}, path : Seq(Nat) ]

WalkInv ==
  /\ want \in Seq({"parent", "child"}) /\ stack \in Seq(Frames)
  /\ visited \in Seq(Objects)
  /\ status = "walking" => root \in Objects /\ want # << >>

(* An object that did not change since its last refresh is described as    *)
(* the org has it now.                                                     *)
FreshInv ==
  \A o \in describe_ \ changed :
    \A f \in Schema[o] : << o, f >> \in seen <=> << o, f >> \in dropped

(* b is a bind of ReportSoqlBind: it has these fields and no other. *)
IsSoqlBind(b) ==
  b = [ kind |-> "soql", report |-> b.report, blocked_by |-> b.blocked_by, base |-> b.base,
        by |-> b.by, fields |-> b.fields, clauses |-> b.clauses,
        unresolved_columns |-> b.unresolved_columns,
        unresolved_filters |-> b.unresolved_filters, next |-> b.next ]

(* The columns and the filters that were judged before step s. *)
ColumnsJudged(b, s) ==
  IF s = "base" THEN 0 ELSE IF s = "columns" THEN b.next - 1 ELSE Len(b.report.columns)

FiltersJudged(b, s) ==
  IF s = "none" THEN Len(b.report.filters) ELSE IF s = "filters" THEN b.next - 1 ELSE 0

(* The ranks of the reasons a column gives, and a filter. *)
ColumnBlocks(base, token) ==
  IF Resolve(base, token).field # None THEN {} ELSE IF OverRelationship(base, token) THEN {5} ELSE {4}

FilterBlocks(base, f) ==
  LET r == Resolve(base, f.field)
  IN  IF ~ SafeOperator(f) THEN {8}
      ELSE IF base = None THEN {}
      ELSE IF r.field = None THEN IF OverRelationship(base, f.field) THEN {5} ELSE {6}
      ELSE IF << r.object, r.field >> \notin Filterable THEN {7}
      ELSE IF AmbiguousLiteral(f) THEN {9} ELSE {}

(* Those of the first n columns, and of the first n filters. *)
FirstColumns(b, n) ==
  IF b.base = None THEN {} ELSE UNION { ColumnBlocks(b.base, b.report.columns[k]) : k \in 1 .. n }

FirstFilters(b, n) == UNION { FilterBlocks(b.base, b.report.filters[k]) : k \in 1 .. n }

(* Those of the report as a whole that are judged before step s. *)
ShapeBlocks(b, s) ==
  (IF b.report.tabular THEN {} ELSE {1})
    \union (IF b.report.cross THEN {2} ELSE {})
    \union (IF s # "base" /\ (b.base = None \/ b.by = "column_prefix") THEN {3} ELSE {})
    \union (IF s \notin {"base", "columns"} /\ b.base # None /\ b.report.columns = << >> THEN {4} ELSE {})
    \union (IF s # "none" \/ BooleanFilterAndOnly(b.report.logic, Len(b.report.filters)) THEN {} ELSE {10})

Found(b, s) ==
  ShapeBlocks(b, s) \union FirstColumns(b, ColumnsJudged(b, s))
                    \union FirstFilters(b, FiltersJudged(b, s))

(* blocked_by is the first of the reasons with ranks in R. *)
Kept(b, R) == b.blocked_by = IF R = {} THEN None ELSE Reasons[Min(R)]

(* While nothing blocks, the columns judged are projected and the filters  *)
(* judged are clauses.                                                     *)
Complete(b, s) ==
  /\ b.fields = [ k \in 1 .. ColumnsJudged(b, s) |-> Resolve(b.base, b.report.columns[k]) ]
  /\ b.clauses = [ k \in 1 .. FiltersJudged(b, s) |->
                     Clause(Resolve(b.base, b.report.filters[k].field), b.report.filters[k]) ]

(* The bind data of ReportSoqlBind before step s. *)
SoqlOK(b, s) ==
  /\ IsSoqlBind(b) /\ b.report \in Reports
  /\ b.base \in Queryable \union {None} /\ b.next \in Nat \ {0}
  /\ s = "base" => b.next = 1 /\ b.base = None
  /\ s = "columns" => b.base # None /\ b.next <= Len(b.report.columns) + 1
  /\ s = "filters" => b.next <= Len(b.report.filters) + 1
  /\ Kept(b, Found(b, s))
  /\ b.blocked_by = None => Complete(b, s)

(* A bind that runs or has ended. *)
SoqlInv ==
  status = "bridge" \/ (status = "done" /\ bind.kind = "soql") =>
    SoqlOK(bind, step) /\ (status = "bridge" <=> step # "none")

(* The answers of the other functions: those about fields are the ones the *)
(* describes give.                                                         *)
AnswerInv ==
  /\ SampleWellFormed
  /\ status = "done" =>
       /\ bind.kind = "fields" => bind.fields = FieldsOf(bind.object)
       /\ bind.kind = "explain" =>
            \A i \in DOMAIN bind.snap.items :
              bind.reasons[i] \notin {"relationship_traversed", "metadata_unavailable",
                                      "complex_expression"} =>
                (bind.reasons[i] # "unresolved_field")
                  = (bind.snap.items[i].field \in FieldsOf(bind.snap.object))

BridgeInv ==
  /\ BridgeTypeOK /\ WalkInv /\ FreshInv /\ SoqlInv /\ AnswerInv
  /\ status \in {"idle", "walking"} => step = "none" /\ bind = NoBind

-----------------------------------------------------------------------------
(* The precedence of the reasons.                                          *)

(* A nonempty set of natural numbers has a least element. *)
LEMMA LeastRank ==
  ASSUME NEW R, R \subseteq Nat, R # {}
  PROVE  Min(R) \in R /\ \A y \in R : Min(R) <= y
  <1>1. PICK L : L = OpToRel(<, Nat)
    BY Zenon
  <1>2. IsWellFoundedOn(L, Nat) /\ L = { ss \in Nat \X Nat : ss[1] < ss[2] }
    BY <1>1, NatLessThanWellFounded, Zenon DEF OpToRel
  <1>3. PICK x \in R : \A y \in R : ~ (<<y, x>> \in L)
    BY <1>2, WFMin
  <1>4. ASSUME NEW y \in R, y < x PROVE FALSE
    <2>1. <<y, x>> \in Nat \X Nat /\ <<y, x>>[1] < <<y, x>>[2]
      BY <1>4
    <2> QED
      BY <1>2, <1>3, <2>1, Zenon
  <1>5. \A y \in R : x <= y
    BY <1>4
  <1> QED
    BY <1>5 DEF Min

(* There is only one. *)
LEMMA LeastIs ==
  ASSUME NEW R, R \subseteq Nat, NEW x \in R, \A y \in R : x <= y
  PROVE  Min(R) = x
  <1>1. Min(R) \in R /\ \A y \in R : Min(R) <= y
    BY LeastRank
  <1>2. Min(R) <= x /\ x <= Min(R) /\ Min(R) \in Nat /\ x \in Nat
    BY <1>1
  <1> QED
    BY <1>2

(* The ten reasons are distinct, and none of them is None. *)
LEMMA Ranks ==
  /\ DOMAIN Reasons = 1 .. 10
  /\ \A k \in 1 .. 10 : Reasons[k] # None /\ Rank(Reasons[k]) = k
  <1>1. DOMAIN Reasons = 1 .. 10
    BY DEF Reasons
  <1>2. \A k \in 1 .. 10 : Reasons[k] # None
    BY DEF Reasons, None
  <1>3. \A j, k \in 1 .. 10 : Reasons[j] = Reasons[k] => j = k
    BY DEF Reasons
  <1>4. ASSUME NEW k \in 1 .. 10 PROVE Rank(Reasons[k]) = k
    BY <1>1, <1>3 DEF Rank
  <1> QED
    BY <1>1, <1>2, <1>4

(* A reason more: set_block keeps the first of them all. *)
LEMMA SetBlock ==
  ASSUME NEW b, IsSoqlBind(b), NEW R \in SUBSET (1 .. 10), Kept(b, R), NEW k \in 1 .. 10
  PROVE  Kept(set_block(b, Reasons[k]), R \union {k})
  <1> DEFINE c == set_block(b, Reasons[k])
  <1>1. c.blocked_by = IF b.blocked_by = None \/ Rank(Reasons[k]) < Rank(b.blocked_by)
                       THEN Reasons[k] ELSE b.blocked_by
    BY DEF set_block, IsSoqlBind
  <1>2. R \union {k} # {} /\ R \union {k} \subseteq Nat /\ R \subseteq Nat
    OBVIOUS
  <1>3. Min(R \union {k}) \in R \union {k} /\ \A y \in R \union {k} : Min(R \union {k}) <= y
    BY <1>2, LeastRank
  <1> HIDE DEF c
  <1>4. CASE R = {}
    <2>1. c.blocked_by = Reasons[k]
      BY <1>1, <1>4 DEF Kept
    <2>2. Min(R \union {k}) = k
      BY <1>2, <1>4, LeastIs
    <2> QED
      BY <1>2, <2>1, <2>2 DEF Kept, c
  <1>5. CASE R # {}
    <2>1. Min(R) \in R /\ \A y \in R : Min(R) <= y
      BY <1>2, <1>5, LeastRank
    <2>2. b.blocked_by = Reasons[Min(R)] /\ Min(R) \in 1 .. 10
      BY <1>5, <2>1 DEF Kept
    <2>3. Rank(b.blocked_by) = Min(R) /\ Rank(Reasons[k]) = k /\ b.blocked_by # None
      BY <2>2, Ranks
    <2>4. Min(R \union {k}) = IF k < Min(R) THEN k ELSE Min(R)
      <3> DEFINE x == IF k < Min(R) THEN k ELSE Min(R)
      <3>1. x \in R \union {k} /\ \A y \in R \union {k} : x <= y
        BY <1>2, <2>1, <2>2
      <3> HIDE DEF x
      <3>2. Min(R \union {k}) = x
        BY <1>2, <3>1, LeastIs
      <3> QED
        BY <3>2 DEF x
    <2>5. c.blocked_by = Reasons[Min(R \union {k})]
      BY <1>1, <2>2, <2>3, <2>4
    <2> QED
      BY <1>2, <2>5 DEF Kept, c
  <1> QED
    BY <1>4, <1>5

(* A reason that follows one already met changes nothing. *)
LEMMA Dominated ==
  ASSUME NEW b, NEW R \in SUBSET (1 .. 10), Kept(b, R), NEW j \in R, NEW k \in j .. 10
  PROVE  Kept(b, R \union {k})
  <1>1. R \subseteq Nat /\ R # {} /\ R \union {k} \subseteq Nat /\ R \union {k} # {}
    OBVIOUS
  <1>2. Min(R) \in R /\ \A y \in R : Min(R) <= y
    BY <1>1, LeastRank
  <1>3. Min(R) \in R \union {k} /\ \A y \in R \union {k} : Min(R) <= y
    <2>1. Min(R) <= j /\ Min(R) \in Nat /\ j \in Nat
      BY <1>1, <1>2
    <2>2. k \in Nat /\ j <= k
      BY <2>1
    <2>3. Min(R) <= k
      BY <2>1, <2>2
    <2> QED
      BY <1>2, <2>3
  <1>4. Min(R \union {k}) = Min(R)
    BY <1>1, <1>3, LeastIs
  <1> QED
    BY <1>1, <1>4 DEF Kept

(* What set_block leaves alone. *)
LEMMA SetBlockFields ==
  ASSUME NEW b, IsSoqlBind(b), NEW reason
  PROVE  LET c == set_block(b, reason)
         IN  /\ IsSoqlBind(c) /\ c.report = b.report /\ c.base = b.base /\ c.by = b.by
             /\ c.fields = b.fields /\ c.clauses = b.clauses /\ c.next = b.next
             /\ c.kind = "soql" /\ (reason # None => c.blocked_by # None)
  BY DEF IsSoqlBind, set_block

-----------------------------------------------------------------------------
(* What the engine answers while a call runs.                              *)

(* The cache only grows and the org does not change. *)
Settled ==
  /\ describe_ \subseteq describe_' /\ dropped' = dropped
  /\ SeenFollows \/ UNCHANGED <<describe_, seen>>

(* The fields of an object are then the same before it is cached, while it *)
(* is and after.                                                           *)
LEMMA FieldsStable == Settled => \A o : FieldsOf(o)' = FieldsOf(o)
  <1> SUFFICES ASSUME Settled, NEW o PROVE FieldsOf(o)' = FieldsOf(o)
    OBVIOUS
  <1>1. CASE UNCHANGED <<describe_, seen>>
    BY <1>1 DEF Settled, FieldsOf
  <1>2. CASE SeenFollows
    <2>1. ASSUME NEW f
          PROVE  << o, f >> \in (IF o \in describe_' THEN seen' ELSE dropped')
                   <=> << o, f >> \in (IF o \in describe_ THEN seen ELSE dropped)
      BY <1>2 DEF Settled, SeenFollows
    <2> QED
      BY <2>1 DEF FieldsOf
  <1> QED
    BY <1>1, <1>2 DEF Settled

(* So is what a token names. *)
LEMMA ResolveStable == Settled => \A base, t : Resolve(base, t)' = Resolve(base, t)
  <1> SUFFICES ASSUME Settled, NEW base, NEW t PROVE Resolve(base, t)' = Resolve(base, t)
    OBVIOUS
  <1>1. \A o : FieldsOf(o)' = FieldsOf(o)
    BY FieldsStable
  <1>2. \A o, token : ResolveField(o, token)' = ResolveField(o, token)
    BY <1>1 DEF ResolveField
  <1>3. \A o, token : ResolvePlain(o, token)' = ResolvePlain(o, token)
    BY <1>2 DEF ResolvePlain
  <1> QED
    BY <1>2, <1>3 DEF Resolve

(* And so is what was judged. *)
LEMMA FoundStable ==
  Settled => \A b, s : Found(b, s)' = Found(b, s) /\ (Complete(b, s)' <=> Complete(b, s))
  <1> SUFFICES ASSUME Settled, NEW b, NEW s
               PROVE  Found(b, s)' = Found(b, s) /\ (Complete(b, s)' <=> Complete(b, s))
    OBVIOUS
  <1>1. \A base, t : Resolve(base, t)' = Resolve(base, t)
    BY ResolveStable
  <1>2. \A base, t : ColumnBlocks(base, t)' = ColumnBlocks(base, t)
    BY <1>1 DEF ColumnBlocks
  <1>3. \A base, f : FilterBlocks(base, f)' = FilterBlocks(base, f)
    BY <1>1 DEF FilterBlocks
  <1>4. \A n : FirstColumns(b, n)' = FirstColumns(b, n)
    BY <1>2 DEF FirstColumns
  <1>5. \A n : FirstFilters(b, n)' = FirstFilters(b, n)
    BY <1>3 DEF FirstFilters
  <1>6. Found(b, s)' = Found(b, s)
    BY <1>4, <1>5 DEF Found
  <1>7. Complete(b, s)' <=> Complete(b, s)
    BY <1>1 DEF Complete
  <1> QED
    BY <1>6, <1>7

(* A bind is in order in the next state when it is in order now. *)
LEMMA SoqlStable == Settled /\ SoqlOK(bind', step') => SoqlOK(bind, step)'
  <1> SUFFICES ASSUME Settled, SoqlOK(bind', step') PROVE SoqlOK(bind, step)'
    OBVIOUS
  <1>1. \A b, s : Found(b, s)' = Found(b, s) /\ (Complete(b, s)' <=> Complete(b, s))
    BY FoundStable
  <1> QED
    BY <1>1 DEF SoqlOK

-----------------------------------------------------------------------------
(* What a column and a filter add.                                         *)

(* The reasons found are among the ten. *)
LEMMA FoundRanks == \A b, s : Found(b, s) \in SUBSET (1 .. 10)
  <1> SUFFICES ASSUME NEW b, NEW s PROVE Found(b, s) \in SUBSET (1 .. 10)
    OBVIOUS
  <1>1. \A base, t : ColumnBlocks(base, t) \subseteq 1 .. 10
    BY DEF ColumnBlocks
  <1>2. \A base, f : FilterBlocks(base, f) \subseteq 1 .. 10
    BY DEF FilterBlocks
  <1>3. \A n : FirstColumns(b, n) \subseteq 1 .. 10
    BY <1>1 DEF FirstColumns
  <1>4. \A n : FirstFilters(b, n) \subseteq 1 .. 10
    BY <1>2 DEF FirstFilters
  <1>5. ShapeBlocks(b, s) \subseteq 1 .. 10
    BY DEF ShapeBlocks
  <1> QED
    BY <1>3, <1>4, <1>5 DEF Found

(* One column more. *)
LEMMA MoreColumns ==
  ASSUME NEW b, b.base # None, NEW n \in Nat \ {0}
  PROVE  FirstColumns(b, n)
           = FirstColumns(b, n - 1) \union ColumnBlocks(b.base, b.report.columns[n])
  <1>1. 1 .. n = (1 .. n - 1) \union {n}
    OBVIOUS
  <1> QED
    BY <1>1 DEF FirstColumns

(* One filter more. *)
LEMMA MoreFilters ==
  ASSUME NEW b, NEW n \in Nat \ {0}
  PROVE  FirstFilters(b, n)
           = FirstFilters(b, n - 1) \union FilterBlocks(b.base, b.report.filters[n])
  <1>1. 1 .. n = (1 .. n - 1) \union {n}
    OBVIOUS
  <1> QED
    BY <1>1 DEF FirstFilters

(* What is judged depends on the report, the base object and the place. *)
LEMMA SameJudged ==
  ASSUME NEW b, NEW c, NEW s, c.report = b.report, c.base = b.base, c.by = b.by, c.next = b.next
  PROVE  Found(c, s) = Found(b, s)
  BY DEF Found, ShapeBlocks, FirstColumns, FirstFilters, ColumnsJudged, FiltersJudged

(* Advance moves to the next place. *)
LEMMA AdvanceFields ==
  ASSUME NEW b, IsSoqlBind(b), b.next \in Nat
  PROVE  LET d == Advance(b)
         IN  /\ IsSoqlBind(d) /\ d.report = b.report /\ d.base = b.base /\ d.by = b.by
             /\ d.fields = b.fields /\ d.clauses = b.clauses /\ d.next = b.next + 1
             /\ d.blocked_by = b.blocked_by
  BY DEF IsSoqlBind, Advance

(* A list is its front and its last element. *)
LEMMA AppendLast ==
  ASSUME NEW n \in Nat \ {0}, NEW g, g = [ k \in 1 .. n |-> g[k] ]
  PROVE  Append([ k \in 1 .. n - 1 |-> g[k] ], g[n]) = g
  <1> DEFINE S == { g[k] : k \in 1 .. n }
  <1> DEFINE f == [ k \in 1 .. n - 1 |-> g[k] ]
  <1>1. f \in Seq(S) /\ Len(f) = n - 1
    <2>1. n - 1 \in Nat /\ \A k \in 1 .. n - 1 : g[k] \in S
      OBVIOUS
    <2>2. f = [ k \in 1 .. n - 1 |-> g[k] ]
      OBVIOUS
    <2> HIDE DEF S
    <2>3. f \in [1 .. n - 1 -> S]
      BY <2>1, <2>2
    <2> HIDE DEF f
    <2> QED
      BY <2>1, <2>3
  <1>2. g[n] \in S
    OBVIOUS
  <1>3. g \in Seq(S) /\ Len(g) = n
    <2>1. \A k \in 1 .. n : g[k] \in S
      OBVIOUS
    <2> HIDE DEF S
    <2> QED
      BY <2>1
  <1>4. Append(f, g[n]) \in Seq(S) /\ Len(Append(f, g[n])) = n
    BY <1>1, <1>2
  <1>5. \A k \in 1 .. n : Append(f, g[n])[k] = g[k]
    BY <1>1, <1>2
  <1> QED
    BY <1>3, <1>4, <1>5, SeqEqual

(* A column is judged: it is projected, or its reason is found. *)
LEMMA ColumnKeeps ==
  ASSUME NEW b, SoqlOK(b, "columns"), b.next <= Len(b.report.columns)
  PROVE  SoqlOK(Advance(WithColumn(b, b.report.columns[b.next])), "columns")
  <1> DEFINE n == b.next
  <1> DEFINE t == b.report.columns[n]
  <1> DEFINE r == Resolve(b.base, t)
  <1> DEFINE e == [b EXCEPT !.unresolved_columns = @ \union {t}]
  <1> DEFINE k == IF OverRelationship(b.base, t) THEN 5 ELSE 4
  <1> DEFINE c == WithColumn(b, t)
  <1> DEFINE d == Advance(c)
  <1>1. /\ IsSoqlBind(b) /\ b.report \in Reports /\ b.base \in Queryable /\ n \in Nat \ {0}
        /\ b.base # None /\ Kept(b, Found(b, "columns"))
        /\ b.blocked_by = None => Complete(b, "columns")
    BY DEF SoqlOK
  <1>2. /\ IsSoqlBind(e) /\ e.report = b.report /\ e.base = b.base /\ e.by = b.by
        /\ e.next = n /\ e.blocked_by = b.blocked_by
    <2>1. PICK v : v = b.unresolved_columns \union {t}
      OBVIOUS
    <2>2. e = [b EXCEPT !.unresolved_columns = v]
      BY <2>1
    <2> HIDE DEF e
    <2> QED
      BY <1>1, <2>2 DEF IsSoqlBind
  <1>3. Reasons[k] = IF OverRelationship(b.base, t) THEN "relationship" ELSE "projected_field"
    BY DEF Reasons
  <1>4. c = IF r.field # None THEN [b EXCEPT !.fields = Append(@, r)] ELSE set_block(e, Reasons[k])
    BY <1>3 DEF WithColumn
  <1>5. k \in 1 .. 10 /\ ColumnBlocks(b.base, t) = IF r.field # None THEN {} ELSE {k}
    <2>1. k \in 1 .. 10
      OBVIOUS
    <2>2. ColumnBlocks(b.base, t) = IF r.field # None THEN {} ELSE {k}
      BY Zenon DEF ColumnBlocks
    <2> QED
      BY <2>1, <2>2
  <1>6. Len(b.report.columns) \in Nat /\ n <= Len(b.report.columns)
    BY <1>1, ReportBridgeAssumption, LenProperties
  <1> HIDE DEF e, k, c, d, r, t
  <1>7. /\ IsSoqlBind(c) /\ c.report = b.report /\ c.base = b.base /\ c.by = b.by /\ c.next = n
        /\ c.blocked_by = IF r.field # None THEN b.blocked_by
                           ELSE set_block(e, Reasons[k]).blocked_by
        /\ r.field # None => c.fields = Append(b.fields, r) /\ c.clauses = b.clauses
    <2>1. CASE r.field # None
      <3>1. PICK v : v = Append(b.fields, r)
        OBVIOUS
      <3>2. c = [b EXCEPT !.fields = v]
        BY <1>4, <2>1, <3>1
      <3>3. /\ IsSoqlBind(c) /\ c.report = b.report /\ c.base = b.base /\ c.by = b.by
            /\ c.next = n /\ c.blocked_by = b.blocked_by
            /\ c.fields = v /\ c.clauses = b.clauses
        BY <1>1, <3>2 DEF IsSoqlBind
      <3> QED
        BY <2>1, <3>1, <3>3
    <2>2. CASE r.field = None
      BY <1>2, <1>4, <2>2, SetBlockFields
    <2> QED
      BY <2>1, <2>2
  <1>8. /\ IsSoqlBind(d) /\ d.report = b.report /\ d.base = b.base /\ d.by = b.by
        /\ d.fields = c.fields /\ d.clauses = c.clauses /\ d.next = n + 1
        /\ d.blocked_by = c.blocked_by
    BY <1>1, <1>7, AdvanceFields DEF d
  <1>9. Found(d, "columns") = Found(b, "columns") \union ColumnBlocks(b.base, t)
    <2>1. ShapeBlocks(d, "columns") = ShapeBlocks(b, "columns")
      BY <1>8 DEF ShapeBlocks
    <2>2. FirstColumns(d, n) = FirstColumns(b, n) /\ FirstFilters(d, 0) = FirstFilters(b, 0)
      BY <1>8 DEF FirstColumns, FirstFilters
    <2>3. FirstColumns(b, n) = FirstColumns(b, n - 1) \union ColumnBlocks(b.base, t)
      BY <1>1, MoreColumns DEF t
    <2>4. /\ ColumnsJudged(d, "columns") = n /\ ColumnsJudged(b, "columns") = n - 1
          /\ FiltersJudged(d, "columns") = 0 /\ FiltersJudged(b, "columns") = 0
      BY <1>1, <1>8 DEF ColumnsJudged, FiltersJudged
    <2> QED
      BY <2>1, <2>2, <2>3, <2>4 DEF Found
  <1>10. CASE r.field # None
    <2>1. Kept(d, Found(d, "columns"))
      BY <1>1, <1>5, <1>7, <1>8, <1>9, <1>10 DEF Kept
    <2>2. ASSUME d.blocked_by = None PROVE Complete(d, "columns")
      <3> DEFINE g == [ i \in 1 .. n |-> Resolve(b.base, b.report.columns[i]) ]
      <3>1. /\ b.fields = [ i \in 1 .. n - 1 |-> Resolve(b.base, b.report.columns[i]) ]
            /\ b.clauses = [ i \in 1 .. 0 |->
                   Clause(Resolve(b.base, b.report.filters[i].field), b.report.filters[i]) ]
        BY <1>1, <1>7, <1>8, <1>10, <2>2 DEF Complete, ColumnsJudged, FiltersJudged
      <3>2. g[n] = r /\ g = [ i \in 1 .. n |-> g[i] ] /\ b.fields = [ i \in 1 .. n - 1 |-> g[i] ]
        BY <1>1, <3>1 DEF r, t
      <3> HIDE DEF g
      <3>3. Append(b.fields, r) = g
        BY <1>1, <3>2, AppendLast
      <3>4. d.fields = g /\ d.clauses = b.clauses
        BY <1>7, <1>8, <1>10, <3>3
      <3>5. ColumnsJudged(d, "columns") = n /\ FiltersJudged(d, "columns") = 0
        BY <1>1, <1>8 DEF ColumnsJudged, FiltersJudged
      <3> QED
        BY <1>8, <3>1, <3>4, <3>5 DEF Complete, g
    <2> QED
      BY <1>1, <1>6, <1>8, <2>1, <2>2 DEF SoqlOK, d, c, t
  <1>11. CASE r.field = None
    <2>1. Kept(e, Found(b, "columns")) /\ Found(b, "columns") \in SUBSET (1 .. 10)
      BY <1>1, <1>2, FoundRanks DEF Kept
    <2>2. Kept(set_block(e, Reasons[k]), Found(b, "columns") \union {k})
      BY <1>2, <1>5, <2>1, SetBlock
    <2>3. Kept(d, Found(d, "columns"))
      BY <1>5, <1>7, <1>8, <1>9, <1>11, <2>2 DEF Kept
    <2>4. d.blocked_by # None
      BY <1>2, <1>5, <1>7, <1>8, <1>11, SetBlockFields, Ranks
    <2> QED
      BY <1>1, <1>6, <1>8, <2>3, <2>4 DEF SoqlOK, d, c, t
  <1> QED
    BY <1>10, <1>11

(* c judges the same report at the same place. *)
SamePlace(b, c) ==
  /\ IsSoqlBind(c) /\ c.report = b.report /\ c.base = b.base /\ c.by = b.by /\ c.next = b.next

(* The reasons found after one filter more. *)
LEMMA FilterFound ==
  ASSUME NEW b, NEW c, SoqlOK(b, "filters"), SamePlace(b, c)
  PROVE  Found(Advance(c), "filters")
           = Found(b, "filters") \union FilterBlocks(b.base, b.report.filters[b.next])
  <1> DEFINE n == b.next
  <1> DEFINE f == b.report.filters[n]
  <1> DEFINE d == Advance(c)
  <1>1. n \in Nat \ {0} /\ c.next \in Nat
    BY DEF SoqlOK, SamePlace
  <1>2. /\ d.report = b.report /\ d.base = b.base /\ d.by = b.by /\ d.next = n + 1
    BY <1>1, AdvanceFields DEF SamePlace
  <1> HIDE DEF d, f
  <1>3. ShapeBlocks(d, "filters") = ShapeBlocks(b, "filters")
    BY <1>2 DEF ShapeBlocks
  <1>4. /\ \A k : FirstColumns(d, k) = FirstColumns(b, k)
        /\ FirstFilters(d, n) = FirstFilters(b, n)
    BY <1>2 DEF FirstColumns, FirstFilters
  <1>5. FirstFilters(b, n) = FirstFilters(b, n - 1) \union FilterBlocks(b.base, f)
    BY <1>1, MoreFilters DEF f
  <1>6. /\ ColumnsJudged(d, "filters") = ColumnsJudged(b, "filters")
        /\ FiltersJudged(d, "filters") = n /\ FiltersJudged(b, "filters") = n - 1
    BY <1>1, <1>2 DEF ColumnsJudged, FiltersJudged
  <1>7. Found(d, "filters") = Found(b, "filters") \union FilterBlocks(b.base, f)
    BY <1>3, <1>4, <1>5, <1>6 DEF Found
  <1> QED
    BY <1>7 DEF d, f

(* A filter that blocks. *)
LEMMA FilterThatBlocks ==
  ASSUME NEW b, NEW e, SoqlOK(b, "filters"), b.next <= Len(b.report.filters),
         SamePlace(b, e), e.blocked_by = b.blocked_by,
         NEW k \in 1 .. 10, FilterBlocks(b.base, b.report.filters[b.next]) = {k}
  PROVE  SoqlOK(Advance(set_block(e, Reasons[k])), "filters")
  <1> DEFINE c == set_block(e, Reasons[k])
  <1> DEFINE d == Advance(c)
  <1>1. /\ b.report \in Reports /\ b.base \in Queryable \union {None} /\ b.next \in Nat \ {0}
        /\ Kept(b, Found(b, "filters"))
    BY DEF SoqlOK
  <1>2. IsSoqlBind(e)
    BY DEF SamePlace
  <1>3. SamePlace(b, c) /\ c.blocked_by # None
    BY <1>2, SetBlockFields, Ranks DEF SamePlace
  <1>4. Found(d, "filters") = Found(b, "filters") \union {k}
    BY <1>3, FilterFound
  <1>5. Kept(e, Found(b, "filters")) /\ Found(b, "filters") \in SUBSET (1 .. 10)
    BY <1>1, FoundRanks DEF Kept
  <1>6. Kept(c, Found(b, "filters") \union {k})
    BY <1>2, <1>5, SetBlock
  <1> HIDE DEF c
  <1>7. /\ IsSoqlBind(d) /\ d.report = b.report /\ d.base = b.base /\ d.next = b.next + 1
        /\ d.blocked_by = c.blocked_by
    BY <1>1, <1>3, AdvanceFields DEF SamePlace
  <1> HIDE DEF d
  <1>8. Kept(d, Found(d, "filters"))
    BY <1>4, <1>6, <1>7 DEF Kept
  <1>9. Len(b.report.filters) \in Nat
    BY <1>1, ReportBridgeAssumption, LenProperties
  <1>10. SoqlOK(d, "filters")
    BY <1>1, <1>3, <1>7, <1>8, <1>9 DEF SoqlOK
  <1> QED
    BY <1>10 DEF c, d

(* A filter that does not: it is a clause, unless the report is blocked. *)
LEMMA FilterThatPasses ==
  ASSUME NEW b, NEW c, SoqlOK(b, "filters"), b.next <= Len(b.report.filters),
         SamePlace(b, c), c.blocked_by = b.blocked_by,
         FilterBlocks(b.base, b.report.filters[b.next]) = {},
         b.blocked_by = None =>
           /\ c.fields = b.fields
           /\ c.clauses = Append(b.clauses, Clause(Resolve(b.base, b.report.filters[b.next].field),
                                                   b.report.filters[b.next]))
  PROVE  SoqlOK(Advance(c), "filters")
  <1> DEFINE d == Advance(c)
  <1> DEFINE n == b.next
  <1>1. /\ b.report \in Reports /\ b.base \in Queryable \union {None} /\ n \in Nat \ {0}
        /\ Kept(b, Found(b, "filters"))
        /\ b.blocked_by = None => Complete(b, "filters")
    BY DEF SoqlOK
  <1>2. Found(d, "filters") = Found(b, "filters")
    BY FilterFound
  <1>3. /\ IsSoqlBind(d) /\ d.report = b.report /\ d.base = b.base /\ d.next = n + 1
        /\ d.blocked_by = b.blocked_by /\ d.fields = c.fields /\ d.clauses = c.clauses
    BY <1>1, AdvanceFields DEF SamePlace
  <1> HIDE DEF d
  <1>4. Kept(d, Found(d, "filters"))
    BY <1>1, <1>2, <1>3 DEF Kept
  <1>5. Len(b.report.filters) \in Nat
    BY <1>1, ReportBridgeAssumption, LenProperties
  <1>6. ASSUME d.blocked_by = None PROVE Complete(d, "filters")
    <2> DEFINE g == [ i \in 1 .. n |-> Clause(Resolve(b.base, b.report.filters[i].field),
                                              b.report.filters[i]) ]
    <2>1. /\ b.fields = [ i \in 1 .. Len(b.report.columns) |->
                            Resolve(b.base, b.report.columns[i]) ]
          /\ b.clauses = [ i \in 1 .. n - 1 |->
                 Clause(Resolve(b.base, b.report.filters[i].field), b.report.filters[i]) ]
      BY <1>1, <1>3, <1>6 DEF Complete, ColumnsJudged, FiltersJudged
    <2>2. g = [ i \in 1 .. n |-> g[i] ] /\ b.clauses = [ i \in 1 .. n - 1 |-> g[i] ]
      BY <1>1, <2>1
    <2>3. d.fields = b.fields /\ d.clauses = Append(b.clauses, g[n])
      BY <1>1, <1>3, <1>6
    <2> HIDE DEF g
    <2>4. d.clauses = g
      BY <1>1, <2>2, <2>3, AppendLast
    <2>5. ColumnsJudged(d, "filters") = Len(b.report.columns) /\ FiltersJudged(d, "filters") = n
      BY <1>1, <1>3 DEF ColumnsJudged, FiltersJudged
    <2> QED
      BY <1>3, <2>1, <2>3, <2>4, <2>5 DEF Complete, g
  <1>7. SoqlOK(d, "filters")
    BY <1>1, <1>3, <1>4, <1>5, <1>6 DEF SoqlOK
  <1> QED
    BY <1>7 DEF d

(* A filter is judged. *)
LEMMA FilterKeeps ==
  ASSUME NEW b, SoqlOK(b, "filters"), b.next <= Len(b.report.filters)
  PROVE  LET f == b.report.filters[b.next]
         IN  SoqlOK(Advance(IF ~ SafeOperator(f) THEN set_block(b, "operator")
                            ELSE IF b.base = None THEN b ELSE WithFilter(b, f)), "filters")
  <1> DEFINE f == b.report.filters[b.next]
  <1> DEFINE r == Resolve(b.base, f.field)
  <1> DEFINE e == [b EXCEPT !.unresolved_filters = @ \union {f.field}]
  <1>1. IsSoqlBind(b) /\ SamePlace(b, b) /\ Kept(b, Found(b, "filters"))
    BY DEF SoqlOK, SamePlace
  <1>2. /\ Reasons[5] = "relationship" /\ Reasons[6] = "filter_field"
        /\ Reasons[7] = "filterability" /\ Reasons[8] = "operator" /\ Reasons[9] = "literal"
    BY DEF Reasons
  <1>3. SamePlace(b, e) /\ e.blocked_by = b.blocked_by
    <2>1. PICK v : v = b.unresolved_filters \union {f.field}
      OBVIOUS
    <2>2. e = [b EXCEPT !.unresolved_filters = v]
      BY <2>1
    <2> HIDE DEF e
    <2> QED
      BY <1>1, <2>2 DEF IsSoqlBind, SamePlace
  <1>4. WithFilter(b, f) =
          IF r.field = None
          THEN IF OverRelationship(b.base, f.field) THEN set_block(e, Reasons[5])
               ELSE set_block(e, Reasons[6])
          ELSE IF << r.object, r.field >> \notin Filterable THEN set_block(b, Reasons[7])
          ELSE IF AmbiguousLiteral(f) THEN set_block(b, Reasons[9])
          ELSE [b EXCEPT !.clauses = Append(@, Clause(r, f))]
    BY <1>2 DEF WithFilter
  <1>5. FilterBlocks(b.base, f) =
          IF ~ SafeOperator(f) THEN {8}
          ELSE IF b.base = None THEN {}
          ELSE IF r.field = None THEN IF OverRelationship(b.base, f.field) THEN {5} ELSE {6}
          ELSE IF << r.object, r.field >> \notin Filterable THEN {7}
          ELSE IF AmbiguousLiteral(f) THEN {9} ELSE {}
    BY DEF FilterBlocks
  <1>6. 5 \in 1 .. 10 /\ 6 \in 1 .. 10 /\ 7 \in 1 .. 10 /\ 8 \in 1 .. 10 /\ 9 \in 1 .. 10
    OBVIOUS
  <1> HIDE DEF e, r
  <1> SUFFICES SoqlOK(Advance(IF ~ SafeOperator(f) THEN set_block(b, "operator")
                              ELSE IF b.base = None THEN b ELSE WithFilter(b, f)), "filters")
    OBVIOUS
  <1>7. CASE ~ SafeOperator(f)
    <2>1. FilterBlocks(b.base, f) = {8}
      BY <1>5, <1>7
    <2>2. SoqlOK(Advance(set_block(b, Reasons[8])), "filters")
      BY <1>1, <1>6, <2>1, FilterThatBlocks
    <2> QED
      BY <1>2, <1>7, <2>2
  <1>8. CASE SafeOperator(f) /\ b.base = None
    <2>1. FilterBlocks(b.base, f) = {}
      BY <1>5, <1>8
    <2>2. 3 \in Found(b, "filters")
      BY <1>8 DEF Found, ShapeBlocks
    <2>3. b.blocked_by # None
      <3>1. Found(b, "filters") \subseteq Nat /\ Found(b, "filters") # {}
            /\ Found(b, "filters") \subseteq 1 .. 10
        BY <2>2, FoundRanks
      <3>2. Min(Found(b, "filters")) \in 1 .. 10
        BY <3>1, LeastRank
      <3> QED
        BY <1>1, <3>1, <3>2, Ranks DEF Kept
    <2>4. SoqlOK(Advance(b), "filters")
      BY <1>1, <2>1, <2>3, FilterThatPasses
    <2> QED
      BY <1>8, <2>4
  <1>9. CASE SafeOperator(f) /\ b.base # None
    <2>1. CASE r.field = None /\ OverRelationship(b.base, f.field)
      <3>1. FilterBlocks(b.base, f) = {5} /\ WithFilter(b, f) = set_block(e, Reasons[5])
        BY <1>4, <1>5, <1>9, <2>1
      <3>2. SoqlOK(Advance(set_block(e, Reasons[5])), "filters")
        BY <1>3, <1>6, <3>1, FilterThatBlocks
      <3> QED
        BY <1>9, <3>1, <3>2
    <2>2. CASE r.field = None /\ ~ OverRelationship(b.base, f.field)
      <3>1. FilterBlocks(b.base, f) = {6} /\ WithFilter(b, f) = set_block(e, Reasons[6])
        BY <1>4, <1>5, <1>9, <2>2
      <3>2. SoqlOK(Advance(set_block(e, Reasons[6])), "filters")
        BY <1>3, <1>6, <3>1, FilterThatBlocks
      <3> QED
        BY <1>9, <3>1, <3>2
    <2>3. CASE r.field # None /\ << r.object, r.field >> \notin Filterable
      <3>1. FilterBlocks(b.base, f) = {7} /\ WithFilter(b, f) = set_block(b, Reasons[7])
        BY <1>4, <1>5, <1>9, <2>3
      <3>2. SoqlOK(Advance(set_block(b, Reasons[7])), "filters")
        BY <1>1, <1>6, <3>1, FilterThatBlocks
      <3> QED
        BY <1>9, <3>1, <3>2
    <2>4. CASE r.field # None /\ << r.object, r.field >> \in Filterable /\ AmbiguousLiteral(f)
      <3>1. FilterBlocks(b.base, f) = {9} /\ WithFilter(b, f) = set_block(b, Reasons[9])
        BY <1>4, <1>5, <1>9, <2>4
      <3>2. SoqlOK(Advance(set_block(b, Reasons[9])), "filters")
        BY <1>1, <1>6, <3>1, FilterThatBlocks
      <3> QED
        BY <1>9, <3>1, <3>2
    <2>5. CASE r.field # None /\ << r.object, r.field >> \in Filterable /\ ~ AmbiguousLiteral(f)
      <3>1. PICK v : v = Append(b.clauses, Clause(r, f))
        OBVIOUS
      <3>2. FilterBlocks(b.base, f) = {} /\ WithFilter(b, f) = [b EXCEPT !.clauses = v]
        BY <1>4, <1>5, <1>9, <2>5, <3>1
      <3> DEFINE c == [b EXCEPT !.clauses = v]
      <3>3. SamePlace(b, c) /\ c.blocked_by = b.blocked_by /\ c.fields = b.fields /\ c.clauses = v
        BY <1>1 DEF IsSoqlBind, SamePlace
      <3> HIDE DEF c
      <3>4. SoqlOK(Advance(c), "filters")
        BY <3>1, <3>2, <3>3, FilterThatPasses DEF r
      <3> QED
        BY <1>9, <3>2, <3>4 DEF c
    <2> QED
      BY <2>1, <2>2, <2>3, <2>4, <2>5
  <1> QED
    BY <1>7, <1>8, <1>9

(* A bind that is not blocked met no reason. *)
LEMMA Unblocked ==
  ASSUME NEW b, NEW R \in SUBSET (1 .. 10), Kept(b, R)
  PROVE  b.blocked_by = None <=> R = {}
  <1>1. ASSUME R # {} PROVE b.blocked_by # None
    <2>1. R \subseteq Nat
      OBVIOUS
    <2>2. Min(R) \in 1 .. 10
      BY <1>1, <2>1, LeastRank
    <2> QED
      BY <1>1, <2>2, Ranks DEF Kept
  <1> QED
    BY <1>1 DEF Kept

(* Before the base object only the shape and the cross filters are judged. *)
LEMMA BaseFound ==
  \A b : Found(b, "base") = (IF b.report.tabular THEN {} ELSE {1})
                              \union (IF b.report.cross THEN {2} ELSE {})
  BY DEF Found, ShapeBlocks, ColumnsJudged, FiltersJudged, FirstColumns, FirstFilters

(* A bind begins. *)
LEMMA BeginKeeps ==
  ASSUME NEW r \in Reports
  PROVE  LET b0 == [ kind |-> "soql", report |-> r, blocked_by |-> None, base |-> None,
                     by |-> "unresolved", fields |-> << >>, clauses |-> << >>,
                     unresolved_columns |-> {}, unresolved_filters |-> {}, next |-> 1 ]
             b1 == IF r.tabular THEN b0 ELSE set_block(b0, "report_shape")
         IN  SoqlOK(IF r.cross THEN set_block(b1, "cross_filter") ELSE b1, "base")
  <1> DEFINE b0 == [ kind |-> "soql", report |-> r, blocked_by |-> None, base |-> None,
                     by |-> "unresolved", fields |-> << >>, clauses |-> << >>,
                     unresolved_columns |-> {}, unresolved_filters |-> {}, next |-> 1 ]
  <1> DEFINE b1 == IF r.tabular THEN b0 ELSE set_block(b0, "report_shape")
  <1> DEFINE b2 == IF r.cross THEN set_block(b1, "cross_filter") ELSE b1
  <1>1. /\ IsSoqlBind(b0) /\ b0.report = r /\ b0.base = None /\ b0.next = 1
        /\ b0.fields = << >> /\ b0.clauses = << >> /\ b0.blocked_by = None
    BY DEF IsSoqlBind
  <1>2. Reasons[1] = "report_shape" /\ Reasons[2] = "cross_filter"
        /\ 1 \in 1 .. 10 /\ 2 \in 1 .. 10
    BY DEF Reasons
  <1> HIDE DEF b0
  <1>3. /\ IsSoqlBind(b1) /\ b1.report = r /\ b1.base = None /\ b1.next = 1
        /\ b1.fields = << >> /\ b1.clauses = << >>
        /\ Kept(b1, IF r.tabular THEN {} ELSE {1})
    <2>1. Kept(b0, {})
      BY <1>1 DEF Kept
    <2>2. CASE r.tabular
      BY <1>1, <2>1, <2>2
    <2>3. CASE ~ r.tabular
      <3>1. Kept(set_block(b0, Reasons[1]), {} \union {1})
        BY <1>1, <1>2, <2>1, SetBlock
      <3>2. {} \union {1} = {1}
        OBVIOUS
      <3> QED
        BY <1>1, <1>2, <2>3, <3>1, <3>2, SetBlockFields
    <2> QED
      BY <2>2, <2>3
  <1> HIDE DEF b1
  <1>4. /\ IsSoqlBind(b2) /\ b2.report = r /\ b2.base = None /\ b2.next = 1
        /\ b2.fields = << >> /\ b2.clauses = << >>
        /\ Kept(b2, Found(b2, "base"))
    <2> DEFINE R == IF r.tabular THEN {} ELSE {1}
    <2>1. CASE ~ r.cross
      <3>1. b2 = b1 /\ Found(b2, "base") = R
        BY <1>3, <2>1, BaseFound
      <3> QED
        BY <1>3, <3>1
    <2>2. CASE r.cross
      <3>1. R \in SUBSET (1 .. 10)
        OBVIOUS
      <3> HIDE DEF R
      <3>2. Kept(b1, R)
        BY <1>3 DEF R
      <3>3. Kept(set_block(b1, Reasons[2]), R \union {2})
        BY <1>2, <1>3, <3>1, <3>2, SetBlock
      <3>4. b2 = set_block(b1, Reasons[2])
        BY <1>2, <2>2
      <3>5. /\ IsSoqlBind(b2) /\ b2.report = r /\ b2.base = None /\ b2.next = 1
            /\ b2.fields = << >> /\ b2.clauses = << >>
        BY <1>3, <3>4, SetBlockFields
      <3>6. Found(b2, "base") = R \union {2}
        BY <2>2, <3>5, BaseFound DEF R
      <3> QED
        BY <3>3, <3>4, <3>5, <3>6
    <2> QED
      BY <2>1, <2>2
  <1> HIDE DEF b2
  <1>5. Complete(b2, "base")
    BY <1>4 DEF Complete, ColumnsJudged, FiltersJudged
  <1>6. SoqlOK(b2, "base")
    BY <1>4, <1>5 DEF SoqlOK
  <1> QED
    BY <1>6 DEF b0, b1, b2

(* The bind with a base object and its source. *)
WithBase(b, o, by) == [b EXCEPT !.base = o, !.by = by]

(* The base object is found: by something better than a prefix, or by a    *)
(* prefix, which blocks.                                                   *)
LEMMA BaseFoundKeeps ==
  ASSUME NEW b, SoqlOK(b, "base"), b.blocked_by = None, NEW o \in Queryable, NEW by
  PROVE  LET found == WithBase(b, o, by)
         IN  /\ by # "column_prefix" => SoqlOK(found, "columns")
             /\ by = "column_prefix" => SoqlOK(set_block(found, "base_object"), "columns")
             /\ found.base = o /\ set_block(found, "base_object").base = o
  <1> DEFINE c == WithBase(b, o, by)
  <1> DEFINE d == set_block(c, "base_object")
  <1>1. /\ IsSoqlBind(b) /\ b.report \in Reports /\ b.next = 1
        /\ Kept(b, Found(b, "base")) /\ Complete(b, "base")
    BY DEF SoqlOK
  <1>2. /\ IsSoqlBind(c) /\ c.report = b.report /\ c.base = o /\ c.by = by /\ c.next = 1
        /\ c.fields = b.fields /\ c.clauses = b.clauses /\ c.blocked_by = None
    <2> DEFINE x == [b EXCEPT !.base = o]
    <2>1. /\ IsSoqlBind(x) /\ x.report = b.report /\ x.base = o /\ x.next = b.next
          /\ x.fields = b.fields /\ x.clauses = b.clauses /\ x.blocked_by = b.blocked_by
      BY <1>1 DEF IsSoqlBind
    <2>2. c = [x EXCEPT !.by = by]
      BY DEF WithBase
    <2> HIDE DEF x, c
    <2>3. /\ IsSoqlBind(c) /\ c.report = x.report /\ c.base = x.base /\ c.next = x.next
          /\ c.by = by /\ c.fields = x.fields /\ c.clauses = x.clauses
          /\ c.blocked_by = x.blocked_by
      BY <2>1, <2>2 DEF IsSoqlBind
    <2> QED
      BY <1>1, <2>1, <2>3
  <1>3. o # None /\ Len(b.report.columns) \in Nat
    BY <1>1, ReportBridgeAssumption, MetadataEngineAssumption, LenProperties
  <1>4. b.report.tabular /\ ~ b.report.cross
    <2>1. Found(b, "base") = {}
      BY <1>1, FoundRanks, Unblocked
    <2> QED
      BY <2>1, BaseFound
  <1> HIDE DEF c
  <1>5. /\ IsSoqlBind(d) /\ d.report = b.report /\ d.base = o /\ d.by = by /\ d.next = 1
        /\ d.blocked_by # None
    BY <1>2, SetBlockFields DEF None
  <1>6. Found(c, "columns") = (IF by = "column_prefix" THEN {3} ELSE {})
    BY <1>2, <1>3, <1>4
       DEF Found, ShapeBlocks, ColumnsJudged, FiltersJudged, FirstColumns, FirstFilters
  <1>7. ASSUME by # "column_prefix" PROVE SoqlOK(c, "columns")
    <2>1. Kept(c, Found(c, "columns"))
      BY <1>2, <1>6, <1>7 DEF Kept
    <2>2. Complete(c, "columns")
      BY <1>1, <1>2 DEF Complete, ColumnsJudged, FiltersJudged
    <2> QED
      BY <1>1, <1>2, <1>3, <2>1, <2>2 DEF SoqlOK
  <1>8. ASSUME by = "column_prefix" PROVE SoqlOK(d, "columns")
    <2>1. Kept(c, {}) /\ {} \in SUBSET (1 .. 10) /\ 3 \in 1 .. 10 /\ Reasons[3] = "base_object"
      BY <1>2 DEF Kept, Reasons
    <2>2. Kept(set_block(c, Reasons[3]), {} \union {3})
      BY <1>2, <2>1, SetBlock
    <2>3. Found(d, "columns") = Found(c, "columns")
      BY <1>2, <1>5, SameJudged
    <2>4. {} \union {3} = {3}
      OBVIOUS
    <2>5. Kept(d, Found(d, "columns"))
      BY <1>6, <1>8, <2>1, <2>2, <2>3, <2>4
    <2> HIDE DEF d
    <2> QED
      BY <1>1, <1>3, <1>5, <2>5 DEF SoqlOK
  <1> QED
    BY <1>2, <1>5, <1>7, <1>8 DEF c

(* There is no base object: whatever blocked before comes first. *)
LEMMA NoBaseKeeps ==
  ASSUME NEW b, SoqlOK(b, "base")
  PROVE  /\ b.blocked_by = None => SoqlOK(set_block(b, "base_object"), "filters")
         /\ b.blocked_by # None => SoqlOK(b, "filters")
         /\ set_block(b, "base_object").base = None
  <1> DEFINE d == set_block(b, "base_object")
  <1>1. /\ IsSoqlBind(b) /\ b.report \in Reports /\ b.next = 1 /\ b.base = None
        /\ Kept(b, Found(b, "base"))
    BY DEF SoqlOK
  <1>2. /\ IsSoqlBind(d) /\ d.report = b.report /\ d.base = None /\ d.by = b.by /\ d.next = 1
        /\ d.blocked_by # None
    BY <1>1, SetBlockFields DEF None
  <1>3. Found(b, "base") \in SUBSET (1 .. 10) /\ 3 \in 1 .. 10 /\ Reasons[3] = "base_object"
    BY FoundRanks DEF Reasons
  <1>4. Found(b, "filters") = Found(b, "base") \union {3}
    BY <1>1 DEF Found, ShapeBlocks, ColumnsJudged, FiltersJudged, FirstColumns, FirstFilters
  <1>5. Len(b.report.filters) \in Nat
    BY <1>1, ReportBridgeAssumption, LenProperties
  <1>6. SoqlOK(d, "filters")
    <2>1. Kept(set_block(b, Reasons[3]), Found(b, "base") \union {3})
      BY <1>1, <1>3, SetBlock
    <2>2. Found(d, "filters") = Found(b, "filters")
      BY <1>1, <1>2, SameJudged
    <2>3. Kept(d, Found(d, "filters"))
      BY <1>3, <1>4, <2>1, <2>2
    <2> HIDE DEF d
    <2> QED
      BY <1>1, <1>2, <1>5, <2>3 DEF SoqlOK
  <1>7. ASSUME b.blocked_by # None PROVE SoqlOK(b, "filters")
    <2>1. Found(b, "base") # {}
      BY <1>1, <1>3, <1>7, Unblocked
    <2>2. PICK j \in Found(b, "base") : j \in {1, 2}
      BY <2>1, BaseFound
    <2>3. 3 \in j .. 10
      BY <2>2
    <2>4. Kept(b, Found(b, "base") \union {3})
      BY <1>1, <1>3, <2>3, Dominated
    <2>5. Kept(b, Found(b, "filters"))
      BY <1>4, <2>4
    <2>6. 1 <= Len(b.report.filters) + 1
      BY <1>5
    <2> QED
      BY <1>1, <1>7, <2>5, <2>6 DEF SoqlOK
  <1> QED
    BY <1>2, <1>6, <1>7

(* The columns are judged. *)
LEMMA ColumnsDoneKeeps ==
  ASSUME NEW b, SoqlOK(b, "columns"), b.next > Len(b.report.columns)
  PROVE  LET c == [b EXCEPT !.next = 1]
         IN  SoqlOK(IF b.report.columns = << >> THEN set_block(c, "projected_field") ELSE c,
                    "filters")
  <1> DEFINE c == [b EXCEPT !.next = 1]
  <1> DEFINE d == set_block(c, "projected_field")
  <1>1. /\ IsSoqlBind(b) /\ b.report \in Reports /\ b.base \in Queryable /\ b.next \in Nat
        /\ b.base # None /\ b.next <= Len(b.report.columns) + 1
        /\ Kept(b, Found(b, "columns"))
        /\ b.blocked_by = None => Complete(b, "columns")
    BY DEF SoqlOK
  <1>2. /\ IsSoqlBind(c) /\ c.report = b.report /\ c.base = b.base /\ c.by = b.by /\ c.next = 1
        /\ c.fields = b.fields /\ c.clauses = b.clauses /\ c.blocked_by = b.blocked_by
    BY <1>1 DEF IsSoqlBind
  <1>3. Len(b.report.columns) \in Nat /\ Len(b.report.filters) \in Nat
    BY <1>1, ReportBridgeAssumption, LenProperties
  <1>4. b.next - 1 = Len(b.report.columns)
    BY <1>1, <1>3
  <1> HIDE DEF c
  <1>5. Found(c, "filters")
          = Found(b, "columns") \union (IF b.report.columns = << >> THEN {4} ELSE {})
    BY <1>1, <1>2, <1>3, <1>4
       DEF Found, ShapeBlocks, ColumnsJudged, FiltersJudged, FirstColumns, FirstFilters
  <1>6. CASE b.report.columns # << >>
    <2>1. Kept(c, Found(c, "filters"))
      BY <1>1, <1>2, <1>5, <1>6 DEF Kept
    <2>2. b.blocked_by = None => Complete(c, "filters")
      BY <1>1, <1>2, <1>3, <1>4 DEF Complete, ColumnsJudged, FiltersJudged
    <2>3. SoqlOK(c, "filters")
      BY <1>1, <1>2, <1>3, <2>1, <2>2 DEF SoqlOK
    <2> QED
      BY <1>6, <2>3 DEF c
  <1>7. CASE b.report.columns = << >>
    <2>1. /\ IsSoqlBind(d) /\ d.report = b.report /\ d.base = b.base /\ d.by = b.by /\ d.next = 1
          /\ d.blocked_by # None
      BY <1>2, SetBlockFields DEF None
    <2>2. /\ Kept(c, Found(b, "columns")) /\ Found(b, "columns") \in SUBSET (1 .. 10)
          /\ 4 \in 1 .. 10 /\ Reasons[4] = "projected_field"
      BY <1>1, <1>2, FoundRanks DEF Kept, Reasons
    <2>3. Kept(set_block(c, Reasons[4]), Found(b, "columns") \union {4})
      BY <1>2, <2>2, SetBlock
    <2>4. Found(d, "filters") = Found(c, "filters")
      BY <1>2, <2>1, SameJudged
    <2>5. Kept(d, Found(d, "filters"))
      BY <1>5, <1>7, <2>2, <2>3, <2>4
    <2> HIDE DEF d
    <2>6. SoqlOK(d, "filters")
      BY <1>1, <1>3, <2>1, <2>5 DEF SoqlOK
    <2> QED
      BY <1>7, <2>6 DEF c, d
  <1> QED
    BY <1>6, <1>7

(* The filters and their logic are judged. *)
LEMMA FinishKeeps ==
  ASSUME NEW b, SoqlOK(b, "filters"), b.next > Len(b.report.filters)
  PROVE  SoqlOK(IF BooleanFilterAndOnly(b.report.logic, Len(b.report.filters)) THEN b
                ELSE set_block(b, "boolean_filter"), "none")
  <1> DEFINE d == set_block(b, "boolean_filter")
  <1> DEFINE ok == BooleanFilterAndOnly(b.report.logic, Len(b.report.filters))
  <1>1. /\ IsSoqlBind(b) /\ b.report \in Reports /\ b.base \in Queryable \union {None}
        /\ b.next \in Nat \ {0} /\ b.next <= Len(b.report.filters) + 1
        /\ Kept(b, Found(b, "filters"))
        /\ b.blocked_by = None => Complete(b, "filters")
    BY DEF SoqlOK
  <1>2. Len(b.report.filters) \in Nat
    BY <1>1, ReportBridgeAssumption, LenProperties
  <1>3. b.next - 1 = Len(b.report.filters)
    BY <1>1, <1>2
  <1> HIDE DEF ok
  <1>4. Found(b, "none") = Found(b, "filters") \union (IF ok THEN {} ELSE {10})
    BY <1>3 DEF Found, ShapeBlocks, ColumnsJudged, FiltersJudged, ok
  <1>5. CASE ok
    <2>1. Kept(b, Found(b, "none"))
      BY <1>1, <1>4, <1>5 DEF Kept
    <2>2. b.blocked_by = None => Complete(b, "none")
      BY <1>1, <1>3 DEF Complete, ColumnsJudged, FiltersJudged
    <2>3. SoqlOK(b, "none")
      BY <1>1, <2>1, <2>2 DEF SoqlOK
    <2> QED
      BY <1>5, <2>3 DEF ok
  <1>6. CASE ~ ok
    <2>1. /\ IsSoqlBind(d) /\ d.report = b.report /\ d.base = b.base /\ d.by = b.by
          /\ d.next = b.next /\ d.blocked_by # None
      BY <1>1, SetBlockFields DEF None
    <2>2. /\ Found(b, "filters") \in SUBSET (1 .. 10)
          /\ 10 \in 1 .. 10 /\ Reasons[10] = "boolean_filter"
      BY FoundRanks DEF Reasons
    <2>3. Kept(set_block(b, Reasons[10]), Found(b, "filters") \union {10})
      BY <1>1, <2>2, SetBlock
    <2>4. Found(d, "none") = Found(b, "none")
      BY <1>1, <2>1, SameJudged
    <2>5. Kept(d, Found(d, "none"))
      BY <1>4, <1>6, <2>2, <2>3, <2>4
    <2> HIDE DEF d
    <2>6. SoqlOK(d, "none")
      BY <1>1, <2>1, <2>5 DEF SoqlOK
    <2> QED
      BY <1>6, <2>6 DEF ok, d
  <1> QED
    BY <1>5, <1>6

-----------------------------------------------------------------------------
(* The reasons found are those that apply.                                 *)

(* A filter logic is refused when it has another word, names a filter that *)
(* does not exist, or ends in AND.                                         *)
LEMMA LogicRefused ==
  ASSUME NEW r \in Reports
  PROVE  ~ BooleanFilterAndOnly(r.logic, Len(r.filters)) <=>
           \/ \E i \in DOMAIN r.logic : r.logic[i] = OtherWord \/ r.logic[i] > Len(r.filters)
           \/ r.logic # << >> /\ Last(r.logic) = AndWord
  <1> DEFINE w == r.logic
  <1> DEFINE n == Len(r.filters)
  <1>1. w \in Seq(Int) /\ n \in Nat /\ Len(w) \in Nat /\ DOMAIN w = 1 .. Len(w)
    BY ReportBridgeAssumption, LenProperties
  <1>2. BooleanFilterAndOnly(w, n) <=>
          \/ w = << >>
          \/ /\ Len(w) % 2 = 1
             /\ \A i \in DOMAIN w : IF i % 2 = 1 THEN w[i] \in 1 .. n ELSE w[i] = AndWord
    BY DEF BooleanFilterAndOnly
  <1>3. \/ \E i \in DOMAIN w : w[i] = OtherWord
        \/ \A i \in DOMAIN w : IF i % 2 = 1 THEN w[i] > 0 ELSE w[i] = AndWord
    BY ReportBridgeAssumption
  <1>4. w # << >> => Last(w) = w[Len(w)] /\ Len(w) \in DOMAIN w
    BY <1>1 DEF Last
  <1>5. \A i \in DOMAIN w : w[i] \in Int
    BY <1>1
  <1>6. w = << >> => DOMAIN w = {}
    OBVIOUS
  <1> HIDE DEF w, n
  <1>7. AndWord = -1 /\ OtherWord = -2
    BY DEF AndWord, OtherWord
  <1>8. CASE \E i \in DOMAIN w : w[i] = OtherWord
    <2>1. PICK i \in DOMAIN w : w[i] = OtherWord
      BY <1>8
    <2>2. w[i] \notin 1 .. n /\ w[i] # AndWord
      BY <1>7, <2>1
    <2> QED
      BY <1>2, <1>6, <2>1, <2>2 DEF w, n
  <1>9. CASE \A i \in DOMAIN w : IF i % 2 = 1 THEN w[i] > 0 ELSE w[i] = AndWord
    <2>1. CASE w = << >>
      BY <1>2, <1>6, <2>1 DEF w, n
    <2>2. CASE w # << >>
      <3>1. Last(w) = AndWord <=> Len(w) % 2 # 1
        BY <1>4, <1>5, <1>7, <1>9, <2>2
      <3>2. ASSUME NEW i \in DOMAIN w, w[i] > n
            PROVE  ~ IF i % 2 = 1 THEN w[i] \in 1 .. n ELSE w[i] = AndWord
        BY <1>1, <1>5, <1>7, <3>2
      <3>3. ASSUME \A i \in DOMAIN w : ~ (w[i] > n), NEW i \in DOMAIN w
            PROVE  IF i % 2 = 1 THEN w[i] \in 1 .. n ELSE w[i] = AndWord
        BY <1>1, <1>5, <1>9, <3>3
      <3>4. ASSUME NEW i \in DOMAIN w PROVE w[i] # OtherWord
        BY <1>5, <1>7, <1>9
      <3> QED
        BY <1>2, <2>2, <3>1, <3>2, <3>3, <3>4 DEF w, n
    <2> QED
      BY <2>1, <2>2
  <1> QED
    BY <1>3, <1>8, <1>9

(* At the end every column and every filter was judged. *)
LEMMA AllJudged ==
  ASSUME NEW b, b.report \in Reports
  PROVE  \A i : i \in Found(b, "none") <=>
           \/ i \in ShapeBlocks(b, "none")
           \/ b.base # None /\ \E t \in Range(b.report.columns) : i \in ColumnBlocks(b.base, t)
           \/ \E f \in Range(b.report.filters) : i \in FilterBlocks(b.base, f)
  <1>1. /\ DOMAIN b.report.columns = 1 .. Len(b.report.columns)
        /\ DOMAIN b.report.filters = 1 .. Len(b.report.filters)
    BY ReportBridgeAssumption, LenProperties
  <1>2. \A i : i \in FirstColumns(b, Len(b.report.columns)) <=>
                 b.base # None /\ \E t \in Range(b.report.columns) : i \in ColumnBlocks(b.base, t)
    BY <1>1 DEF FirstColumns, Range
  <1>3. \A i : i \in FirstFilters(b, Len(b.report.filters)) <=>
                 \E f \in Range(b.report.filters) : i \in FilterBlocks(b.base, f)
    BY <1>1 DEF FirstFilters, Range
  <1> QED
    BY <1>2, <1>3 DEF Found, ColumnsJudged, FiltersJudged

(* A reason was found exactly when it applies. *)
LEMMA FoundBlocks ==
  ASSUME bind.report \in Reports
  PROVE  \A i \in 1 .. 10 : i \in Found(bind, "none") <=> Blocks(Reasons[i])
  <1> DEFINE r == bind.report
  <1> DEFINE base == bind.base
  <1>1. \A i : i \in Found(bind, "none") <=>
           \/ i \in ShapeBlocks(bind, "none")
           \/ base # None /\ \E t \in Range(r.columns) : i \in ColumnBlocks(base, t)
           \/ \E f \in Range(r.filters) : i \in FilterBlocks(base, f)
    BY AllJudged
  <1>2. \A i : i \in ShapeBlocks(bind, "none") <=>
           \/ i = 1 /\ ~ r.tabular
           \/ i = 2 /\ r.cross
           \/ i = 3 /\ (base = None \/ bind.by = "column_prefix")
           \/ i = 4 /\ base # None /\ r.columns = << >>
           \/ i = 10 /\ ~ BooleanFilterAndOnly(r.logic, Len(r.filters))
    BY DEF ShapeBlocks
  <1> HIDE DEF r, base
  <1>3. 1 \in Found(bind, "none") <=> Blocks("report_shape")
    <2> DEFINE Applies == ~ r.tabular
    <2>1. Blocks("report_shape") <=> Applies
      BY DEF Blocks, r, base
    <2>2. 1 \in Found(bind, "none") <=> Applies
      <3>1. 1 \in ShapeBlocks(bind, "none") <=> ~ r.tabular
        BY <1>2
      <3>2. \A t : 1 \notin ColumnBlocks(base, t)
        BY DEF ColumnBlocks
      <3>3. \A f : 1 \notin FilterBlocks(base, f)
        BY DEF FilterBlocks
      <3> QED
        BY <1>1, <3>1, <3>2, <3>3
    <2> QED
      BY <2>1, <2>2
  <1>4. 2 \in Found(bind, "none") <=> Blocks("cross_filter")
    <2> DEFINE Applies == r.cross
    <2>1. Blocks("cross_filter") <=> Applies
      BY DEF Blocks, r, base
    <2>2. 2 \in Found(bind, "none") <=> Applies
      <3>1. 2 \in ShapeBlocks(bind, "none") <=> r.cross
        BY <1>2
      <3>2. \A t : 2 \notin ColumnBlocks(base, t)
        BY DEF ColumnBlocks
      <3>3. \A f : 2 \notin FilterBlocks(base, f)
        BY DEF FilterBlocks
      <3> QED
        BY <1>1, <3>1, <3>2, <3>3
    <2> QED
      BY <2>1, <2>2
  <1>5. 3 \in Found(bind, "none") <=> Blocks("base_object")
    <2> DEFINE Applies == base = None \/ bind.by = "column_prefix"
    <2>1. Blocks("base_object") <=> Applies
      BY DEF Blocks, r, base
    <2>2. 3 \in Found(bind, "none") <=> Applies
      <3>1. 3 \in ShapeBlocks(bind, "none") <=> (base = None \/ bind.by = "column_prefix")
        BY <1>2
      <3>2. \A t : 3 \notin ColumnBlocks(base, t)
        BY DEF ColumnBlocks
      <3>3. \A f : 3 \notin FilterBlocks(base, f)
        BY DEF FilterBlocks
      <3> QED
        BY <1>1, <3>1, <3>2, <3>3
    <2> QED
      BY <2>1, <2>2
  <1>6. 4 \in Found(bind, "none") <=> Blocks("projected_field")
    <2> DEFINE Applies ==
        /\ base # None
        /\ \/ r.columns = << >>
           \/ \E t \in Range(r.columns) :
                Resolve(base, t).field = None /\ ~ OverRelationship(base, t)
    <2>1. Blocks("projected_field") <=> Applies
      BY DEF Blocks, r, base
    <2>2. 4 \in Found(bind, "none") <=> Applies
      <3>1. 4 \in ShapeBlocks(bind, "none") <=> base # None /\ r.columns = << >>
        BY <1>2
      <3>2. \A t : 4 \in ColumnBlocks(base, t) <=> Resolve(base, t).field = None /\ ~ OverRelationship(base, t)
        BY DEF ColumnBlocks
      <3>3. \A f : 4 \notin FilterBlocks(base, f)
        BY DEF FilterBlocks
      <3> QED
        BY <1>1, <3>1, <3>2, <3>3
    <2> QED
      BY <2>1, <2>2
  <1>7. 5 \in Found(bind, "none") <=> Blocks("relationship")
    <2> DEFINE Applies ==
        /\ base # None
        /\ \/ \E t \in Range(r.columns) : Resolve(base, t).field = None /\ OverRelationship(base, t)
           \/ \E f \in Range(r.filters) :
                /\ SafeOperator(f) /\ Resolve(base, f.field).field = None
                /\ OverRelationship(base, f.field)
    <2>1. Blocks("relationship") <=> Applies
      BY DEF Blocks, r, base
    <2>2. 5 \in Found(bind, "none") <=> Applies
      <3>1. 5 \notin ShapeBlocks(bind, "none")
        BY <1>2
      <3>2. \A t : 5 \in ColumnBlocks(base, t) <=> Resolve(base, t).field = None /\ OverRelationship(base, t)
        BY DEF ColumnBlocks
      <3>3. \A f : 5 \in FilterBlocks(base, f) <=>
                /\ SafeOperator(f) /\ base # None
                /\ Resolve(base, f.field).field = None /\ OverRelationship(base, f.field)
        BY DEF FilterBlocks
      <3> QED
        BY <1>1, <3>1, <3>2, <3>3
    <2> QED
      BY <2>1, <2>2
  <1>8. 6 \in Found(bind, "none") <=> Blocks("filter_field")
    <2> DEFINE Applies ==
        /\ base # None
        /\ \E f \in Range(r.filters) :
             /\ SafeOperator(f) /\ Resolve(base, f.field).field = None
             /\ ~ OverRelationship(base, f.field)
    <2>1. Blocks("filter_field") <=> Applies
      BY DEF Blocks, r, base
    <2>2. 6 \in Found(bind, "none") <=> Applies
      <3>1. 6 \notin ShapeBlocks(bind, "none")
        BY <1>2
      <3>2. \A t : 6 \notin ColumnBlocks(base, t)
        BY DEF ColumnBlocks
      <3>3. \A f : 6 \in FilterBlocks(base, f) <=>
                /\ SafeOperator(f) /\ base # None
                /\ Resolve(base, f.field).field = None /\ ~ OverRelationship(base, f.field)
        BY DEF FilterBlocks
      <3> QED
        BY <1>1, <3>1, <3>2, <3>3
    <2> QED
      BY <2>1, <2>2
  <1>9. 7 \in Found(bind, "none") <=> Blocks("filterability")
    <2> DEFINE Applies ==
        /\ base # None
        /\ \E f \in Range(r.filters) :
             /\ SafeOperator(f) /\ Resolve(base, f.field).field # None
             /\ << Resolve(base, f.field).object, Resolve(base, f.field).field >> \notin Filterable
    <2>1. Blocks("filterability") <=> Applies
      BY DEF Blocks, r, base
    <2>2. 7 \in Found(bind, "none") <=> Applies
      <3>1. 7 \notin ShapeBlocks(bind, "none")
        BY <1>2
      <3>2. \A t : 7 \notin ColumnBlocks(base, t)
        BY DEF ColumnBlocks
      <3>3. \A f : 7 \in FilterBlocks(base, f) <=>
                /\ SafeOperator(f) /\ base # None
                /\ Resolve(base, f.field).field # None
                /\ << Resolve(base, f.field).object, Resolve(base, f.field).field >> \notin Filterable
        BY DEF FilterBlocks
      <3> QED
        BY <1>1, <3>1, <3>2, <3>3
    <2> QED
      BY <2>1, <2>2
  <1>10. 8 \in Found(bind, "none") <=> Blocks("operator")
    <2> DEFINE Applies == \E f \in Range(r.filters) : ~ SafeOperator(f)
    <2>1. Blocks("operator") <=> Applies
      BY DEF Blocks, r, base
    <2>2. 8 \in Found(bind, "none") <=> Applies
      <3>1. 8 \notin ShapeBlocks(bind, "none")
        BY <1>2
      <3>2. \A t : 8 \notin ColumnBlocks(base, t)
        BY DEF ColumnBlocks
      <3>3. \A f : 8 \in FilterBlocks(base, f) <=> ~ SafeOperator(f)
        BY DEF FilterBlocks
      <3> QED
        BY <1>1, <3>1, <3>2, <3>3
    <2> QED
      BY <2>1, <2>2
  <1>11. 9 \in Found(bind, "none") <=> Blocks("literal")
    <2> DEFINE Applies ==
        /\ base # None
        /\ \E f \in Range(r.filters) :
             /\ SafeOperator(f) /\ Resolve(base, f.field).field # None
             /\ << Resolve(base, f.field).object, Resolve(base, f.field).field >> \in Filterable
             /\ AmbiguousLiteral(f)
    <2>1. Blocks("literal") <=> Applies
      BY DEF Blocks, r, base
    <2>2. 9 \in Found(bind, "none") <=> Applies
      <3>1. 9 \notin ShapeBlocks(bind, "none")
        BY <1>2
      <3>2. \A t : 9 \notin ColumnBlocks(base, t)
        BY DEF ColumnBlocks
      <3>3. \A f : 9 \in FilterBlocks(base, f) <=>
                /\ SafeOperator(f) /\ base # None
                /\ Resolve(base, f.field).field # None
                /\ << Resolve(base, f.field).object, Resolve(base, f.field).field >> \in Filterable
                /\ AmbiguousLiteral(f)
        BY DEF FilterBlocks
      <3> QED
        BY <1>1, <3>1, <3>2, <3>3
    <2> QED
      BY <2>1, <2>2
  <1>12. 10 \in Found(bind, "none") <=> Blocks("boolean_filter")
    <2> DEFINE Applies == ~ BooleanFilterAndOnly(r.logic, Len(r.filters))
    <2>1. Blocks("boolean_filter") <=> Applies
      BY LogicRefused DEF Blocks, r, base
    <2>2. 10 \in Found(bind, "none") <=> Applies
      <3>1. 10 \in ShapeBlocks(bind, "none") <=> ~ BooleanFilterAndOnly(r.logic, Len(r.filters))
        BY <1>2
      <3>2. \A t : 10 \notin ColumnBlocks(base, t)
        BY DEF ColumnBlocks
      <3>3. \A f : 10 \notin FilterBlocks(base, f)
        BY DEF FilterBlocks
      <3> QED
        BY <1>1, <3>1, <3>2, <3>3
    <2> QED
      BY <2>1, <2>2
  <1> QED
    BY <1>3, <1>4, <1>5, <1>6, <1>7, <1>8, <1>9, <1>10, <1>11, <1>12 DEF Reasons

-----------------------------------------------------------------------------
(* The properties follow.                                                  *)

(* A bind that has ended is exact. *)
LEMMA ExactWhenBound == SoqlInv => TranslationExact
  <1> SUFFICES ASSUME SoqlInv, status = "done", bind.kind = "soql" PROVE TranslationExact
    BY DEF TranslationExact
  <1> DEFINE r == bind.report
  <1> DEFINE reasons == { i \in DOMAIN Reasons : Blocks(Reasons[i]) }
  <1>1. SoqlOK(bind, "none")
    BY DEF SoqlInv
  <1>2. /\ r \in Reports /\ Kept(bind, Found(bind, "none"))
        /\ bind.blocked_by = None => Complete(bind, "none")
    BY <1>1 DEF SoqlOK
  <1>3. reasons = Found(bind, "none")
    BY <1>2, FoundBlocks, FoundRanks, Ranks
  <1>4. DOMAIN r.columns = 1 .. Len(r.columns) /\ DOMAIN r.filters = 1 .. Len(r.filters)
    BY <1>2, ReportBridgeAssumption, LenProperties
  <1>5. CASE reasons # {}
    <2>1. bind.blocked_by = Reasons[Min(reasons)]
      BY <1>2, <1>3, <1>5 DEF Kept
    <2> QED
      BY <1>5, <2>1 DEF TranslationExact
  <1>6. CASE reasons = {}
    <2>1. bind.blocked_by = None
      BY <1>2, <1>3, <1>6 DEF Kept
    <2>2. /\ bind.fields = [ i \in DOMAIN r.columns |-> Resolve(bind.base, r.columns[i]) ]
          /\ bind.clauses = [ i \in DOMAIN r.filters |->
                                Clause(Resolve(bind.base, r.filters[i].field), r.filters[i]) ]
      BY <1>2, <1>4, <2>1 DEF Complete, ColumnsJudged, FiltersJudged
    <2>3. ASSUME NEW i \in DOMAIN r.filters
          PROVE  << bind.clauses[i].object, bind.clauses[i].field >> \in Filterable
      <3>1. \A k : /\ k \notin FilterBlocks(bind.base, r.filters[i])
                  /\ k \notin ShapeBlocks(bind, "none")
        BY <1>2, <1>3, <1>6, AllJudged DEF Range
      <3>2. bind.base # None
        BY <3>1 DEF ShapeBlocks
      <3>3. << Resolve(bind.base, r.filters[i].field).object,
               Resolve(bind.base, r.filters[i].field).field >> \in Filterable
        BY <3>1, <3>2 DEF FilterBlocks
      <3>4. bind.clauses[i] = Clause(Resolve(bind.base, r.filters[i].field), r.filters[i])
        BY <2>2
      <3>5. /\ bind.clauses[i].object = Resolve(bind.base, r.filters[i].field).object
            /\ bind.clauses[i].field = Resolve(bind.base, r.filters[i].field).field
        BY <3>4 DEF Clause
      <3> QED
        BY <3>3, <3>5
    <2>4. \A c \in Range(bind.clauses) : << c.object, c.field >> \in Filterable
      <3>1. DOMAIN bind.clauses = DOMAIN r.filters
        BY <2>2
      <3> QED
        BY <2>3, <3>1 DEF Range
    <2> QED
      BY <1>6, <2>1, <2>2, <2>4 DEF TranslationExact, translatable
  <1> QED
    BY <1>5, <1>6

(* A token that is resolved names a field of the describe. *)
LEMMA ResolvedField ==
  ASSUME NEW base, NEW t, t \in Seq(Range(t)), t # << >>,
         Len(t) <= 2 => t[Len(t)] \in DOMAIN Readings, Resolve(base, t).field # None
  PROVE  Resolve(base, t).field \in FieldsOf(Resolve(base, t).object)
  <1>1. ASSUME NEW o, NEW token \in DOMAIN Readings, ResolveField(o, token) # None
        PROVE  ResolveField(o, token) \in FieldsOf(o)
    <2> DEFINE hits == { i \in DOMAIN Readings[token] : Readings[token][i] \in FieldsOf(o) }
    <2>1. hits \subseteq Nat
      <3>1. DOMAIN Readings[token] = 1 .. Len(Readings[token]) /\ Len(Readings[token]) \in Nat
        BY ReportBridgeAssumption, LenProperties
      <3> QED
        BY <3>1
    <2>2. hits # {} /\ ResolveField(o, token) = Readings[token][Min(hits)]
      BY <1>1 DEF ResolveField
    <2>3. Min(hits) \in hits
      BY <2>1, <2>2, LeastRank
    <2> QED
      BY <2>2, <2>3
  <1>2. ASSUME NEW o, NEW token \in DOMAIN Readings, ResolvePlain(o, token) # None
        PROVE  ResolvePlain(o, token) \in FieldsOf(o)
    <2> DEFINE mapped == { m \in TokenMap : m[1] = o /\ m[2] = token }
    <2>1. CASE ResolveField(o, token) # None \/ mapped = {}
      <3>1. ResolvePlain(o, token) = ResolveField(o, token)
        BY <2>1 DEF ResolvePlain
      <3> QED
        BY <1>1, <1>2, <3>1
    <2>2. CASE ~ (ResolveField(o, token) # None \/ mapped = {})
      <3> DEFINE m == CHOOSE x \in mapped : TRUE
      <3>1. m \in TokenMap /\ m[3] \in DOMAIN Readings
        BY <2>2, ReportBridgeAssumption
      <3>2. ResolvePlain(o, token) = ResolveField(o, m[3])
        BY <2>2 DEF ResolvePlain
      <3> HIDE DEF m
      <3> QED
        BY <1>1, <1>2, <3>1, <3>2
    <2> QED
      BY <2>1, <2>2
  <1>3. Len(t) \in Nat \ {0}
    BY LenProperties
  <1>4. Len(t) <= 2
    BY <1>3 DEF Resolve
  <1>5. CASE Len(t) = 1
    <2>1. /\ Resolve(base, t).object = base
          /\ Resolve(base, t).field = ResolvePlain(base, t[1]) \/ Resolve(base, t).field = None
      BY <1>5 DEF Resolve
    <2> QED
      BY <1>2, <1>5, <2>1
  <1>6. CASE Len(t) = 2
    <2>1. \/ Resolve(base, t).field = ResolveField(Resolve(base, t).object, t[2])
          \/ Resolve(base, t).field = None
      BY <1>6 DEF Resolve
    <2> QED
      BY <1>1, <1>6, <2>1
  <1>7. Len(t) = 1 \/ Len(t) = 2
    <2>1. \A n \in Nat \ {0} : n <= 2 => n = 1 \/ n = 2
      OBVIOUS
    <2> QED
      BY <1>3, <1>4, <2>1, Zenon
  <1> QED
    BY <1>5, <1>6, <1>7

(* Of an object that did not change, the describe has the org's fields. *)
LEMMA DescribeIsFresh ==
  FreshInv => \A o : o \notin changed =>
                FieldsOf(o) = { f \in Schema[o] : << o, f >> \notin dropped }
  BY DEF FreshInv, FieldsOf

(* What a function answers is true of the org. *)
LEMMA Fresh == FreshInv /\ SoqlInv /\ AnswerInv => AnswersFresh
  <1> SUFFICES ASSUME FreshInv, SoqlInv, AnswerInv, status = "done" PROVE AnswersFresh
    BY DEF AnswersFresh
  <1> DEFINE InOrg(o, f) == f \in Schema[o] /\ << o, f >> \notin dropped
  <1>1. \A o : o \notin changed => FieldsOf(o) = { f \in Schema[o] : InOrg(o, f) }
    BY DescribeIsFresh
  <1>2. ASSUME bind.kind = "fields", bind.object \notin changed
        PROVE  bind.fields = { f \in Schema[bind.object] : InOrg(bind.object, f) }
    BY <1>1, <1>2 DEF AnswerInv
  <1>3. ASSUME bind.kind = "soql", bind.blocked_by = None,
               NEW x \in Range(bind.fields) \union Range(bind.clauses), x.object \notin changed
        PROVE  InOrg(x.object, x.field)
    <2> DEFINE r == bind.report
    <2>1. SoqlOK(bind, "none")
      BY <1>3 DEF SoqlInv
    <2>2. r \in Reports /\ Kept(bind, Found(bind, "none")) /\ Complete(bind, "none")
      BY <1>3, <2>1 DEF SoqlOK
    <2>3. Found(bind, "none") = {}
      BY <1>3, <2>2, FoundRanks, Unblocked
    <2>4. bind.base # None
      <3>1. 3 \notin ShapeBlocks(bind, "none")
        BY <2>3 DEF Found
      <3> QED
        BY <3>1 DEF ShapeBlocks
    <2>5. /\ DOMAIN r.columns = 1 .. Len(r.columns) /\ DOMAIN r.filters = 1 .. Len(r.filters)
      BY <2>2, ReportBridgeAssumption, LenProperties
    <2>6. \E t \in Range(r.columns) \union { f.field : f \in Range(r.filters) } :
            /\ x.object = Resolve(bind.base, t).object /\ x.field = Resolve(bind.base, t).field
            /\ Resolve(bind.base, t).field # None
      <3>1. CASE x \in Range(bind.fields)
        <4>1. bind.fields = [ k \in 1 .. Len(r.columns) |-> Resolve(bind.base, r.columns[k]) ]
          BY <2>2 DEF Complete, ColumnsJudged
        <4>2. PICK k \in 1 .. Len(r.columns) : x = Resolve(bind.base, r.columns[k])
          BY <3>1, <4>1 DEF Range
        <4>3. r.columns[k] \in Range(r.columns)
          BY <2>5 DEF Range
        <4>4. ColumnBlocks(bind.base, r.columns[k]) = {}
          BY <2>2, <2>3, <2>4, <4>3, AllJudged
        <4>5. Resolve(bind.base, r.columns[k]).field # None
          BY <4>4 DEF ColumnBlocks
        <4> QED
          BY <4>2, <4>3, <4>5
      <3>2. CASE x \in Range(bind.clauses)
        <4>1. bind.clauses = [ k \in 1 .. Len(r.filters) |->
                                 Clause(Resolve(bind.base, r.filters[k].field), r.filters[k]) ]
          BY <2>2 DEF Complete, FiltersJudged
        <4>2. PICK k \in 1 .. Len(r.filters) :
                x = Clause(Resolve(bind.base, r.filters[k].field), r.filters[k])
          BY <3>2, <4>1 DEF Range
        <4>3. r.filters[k] \in Range(r.filters)
          BY <2>5 DEF Range
        <4>4. FilterBlocks(bind.base, r.filters[k]) = {}
          BY <2>2, <2>3, <4>3, AllJudged
        <4>5. Resolve(bind.base, r.filters[k].field).field # None
          BY <2>4, <4>4 DEF FilterBlocks
        <4>6. /\ x.object = Resolve(bind.base, r.filters[k].field).object
              /\ x.field = Resolve(bind.base, r.filters[k].field).field
          BY <4>2 DEF Clause
        <4> QED
          BY <4>3, <4>5, <4>6
      <3> QED
        BY <1>3, <3>1, <3>2
    <2>7. PICK t \in Range(r.columns) \union { f.field : f \in Range(r.filters) } :
            /\ x.object = Resolve(bind.base, t).object /\ x.field = Resolve(bind.base, t).field
            /\ Resolve(bind.base, t).field # None
      BY <2>6
    <2>8. /\ t \in Seq(Range(t)) /\ t # << >>
          /\ Len(t) <= 2 => t[Len(t)] \in DOMAIN Readings
      BY <2>2, ReportBridgeAssumption
    <2>9. x.field \in FieldsOf(x.object)
      BY <2>7, <2>8, ResolvedField
    <2> QED
      BY <1>1, <1>3, <2>9
  <1>4. ASSUME bind.kind = "explain", bind.snap.object \notin changed,
               NEW i \in DOMAIN bind.snap.items,
               bind.reasons[i] \notin
                 {"relationship_traversed", "metadata_unavailable", "complex_expression"}
        PROVE  (bind.reasons[i] # "unresolved_field")
                 = InOrg(bind.snap.object, bind.snap.items[i].field)
    <2>1. (bind.reasons[i] # "unresolved_field")
            <=> (bind.snap.items[i].field \in FieldsOf(bind.snap.object))
      BY <1>4 DEF AnswerInv
    <2> QED
      BY <1>1, <1>4, <2>1
  <1> QED
    BY <1>2, <1>3, <1>4 DEF AnswersFresh, translatable

-----------------------------------------------------------------------------
(* The steps of the walk.                                                  *)

(* One edge further. *)
LEMMA AdvancedStack ==
  ASSUME stack \in Seq(Frames), stack # << >>
  PROVE  /\ Top \in Frames /\ Advanced \in Seq(Frames) /\ Len(Advanced) = Len(stack)
         /\ \A k \in 1 .. Len(stack) : Advanced[k].object = stack[k].object
         /\ Len(stack) \in Nat \ {0} /\ Top = stack[Len(stack)]
  <1>1. Len(stack) \in Nat \ {0} /\ stack \in [1 .. Len(stack) -> Frames]
    BY LenProperties
  <1>2. Top = stack[Len(stack)] /\ Top \in Frames
    BY <1>1 DEF Top, Last
  <1>3. PICK f : f = stack[Len(stack)]
    OBVIOUS
  <1>4. Advanced = [stack EXCEPT ![Len(stack)] = [f EXCEPT !.next = f.next + 1]]
    BY <1>1, <1>3 DEF Advanced
  <1>5. /\ Advanced \in [1 .. Len(stack) -> Frames]
        /\ \A k \in 1 .. Len(stack) : Advanced[k].object = stack[k].object
    <2>1. f \in Frames
      BY <1>1, <1>3
    <2>2. f.next + 1 \in Nat \ {0}
      BY <2>1 DEF Frames
    <2> DEFINE g == [f EXCEPT !.next = f.next + 1]
    <2>3. g \in Frames /\ g.object = f.object
      BY <2>1, <2>2 DEF Frames
    <2> HIDE DEF g
    <2>4. Advanced = [stack EXCEPT ![Len(stack)] = g]
      BY <1>4 DEF g
    <2> QED
      BY <1>1, <1>3, <2>3, <2>4
  <1>6. Advanced \in Seq(Frames) /\ Len(Advanced) = Len(stack)
    BY <1>1, <1>5
  <1> QED
    BY <1>1, <1>2, <1>5, <1>6

(* An edge that is resolved leads to a queryable object. *)
LEMMA ResolvedTarget ==
  ASSUME NEW way, NEW e, NEW o, NEW chain, EdgeStatus(way, e, o, chain) = "resolved",
         way \in {"parent", "child"}
  PROVE  Target(way, e) \in Objects /\ Target(way, e) \notin Range(chain)
  <1>1. CASE way = "parent"
    BY <1>1, MetadataEngineAssumption DEF EdgeStatus, ParentStatus, Target
  <1>2. CASE way = "child"
    BY <1>2, MetadataEngineAssumption DEF EdgeStatus, ChildStatus, Target
  <1> QED
    BY <1>1, <1>2

(* What a describe leaves in the cache. *)
LEMMA CachedGrows ==
  \A o \in Objects : describe_ \subseteq Objects =>
    describe_ \subseteq Cached(o) /\ Cached(o) \subseteq Objects
  BY DEF Cached

(* What the walk keeps. *)
WalkOK == EngineTypeOK /\ WalkInv

(* A walk begins, or its root cannot be described. *)
LEMMA BindWalks ==
  ASSUME WalkOK, NEW r \in Objects, NEW depth \in 0 .. kMaxDepth + 1,
         NEW ways \in {<<"parent">>, <<"child">>, <<"parent", "child">>}, RelGraphBind(r, depth, ways)
  PROVE  WalkOK' /\ describe_ \subseteq describe_'
  <1>1. /\ calls' = calls + 1 /\ calls < MaxCalls /\ depth >= 1 /\ root' = r /\ want' = ways
        /\ max_depth' = IF depth > kMaxDepth THEN kMaxDepth ELSE depth
        /\ describe_' = Cached(r) /\ UNCHANGED <<down, global_loaded_>>
    BY DEF RelGraphBind
  <1>2. max_depth' \in 1 .. kMaxDepth
    BY <1>1, MetadataEngineAssumption
  <1>3. calls' \in 0 .. MaxCalls
    BY <1>1, MetadataEngineAssumption DEF WalkOK, EngineTypeOK
  <1>4. describe_ \subseteq describe_' /\ describe_' \subseteq Objects
    BY <1>1, CachedGrows DEF WalkOK, EngineTypeOK
  <1>5. /\ want' \in Seq({"parent", "child"}) /\ Range(want') \subseteq {"parent", "child"}
        /\ want' # << >>
    <2>1. want' \in Seq({"parent", "child"}) /\ want' # << >>
      <3>1. ways \in Seq({"parent", "child"}) /\ ways # << >>
        <4>1. CASE ways = <<"parent">>
          BY <4>1
        <4>2. CASE ways = <<"child">>
          BY <4>2
        <4>3. CASE ways = <<"parent", "child">>
          BY <4>3
        <4> QED
          BY <4>1, <4>2, <4>3
      <3> QED
        BY <1>1, <3>1
    <2> QED
      BY <2>1 DEF Range
  <1>6. \/ /\ status' = "walking" /\ stack' = << Frame(r, << >>) >> /\ visited' = << r >>
        \/ status' = "failed" /\ stack' = << >> /\ visited' = << >>
    BY DEF RelGraphBind
  <1>7. Frame(r, << >>) \in Frames /\ Frame(r, << >>).object = r
    BY DEF Frame, Frames
  <1>8. CASE status' = "walking" /\ stack' = << Frame(r, << >>) >> /\ visited' = << r >>
    <2>1. stack' \in Seq(Frames) /\ visited' \in Seq(Objects) /\ Len(stack') = 1
      BY <1>7, <1>8
    <2>2. visited' = [ k \in DOMAIN stack' |-> stack'[k].object ]
      BY <1>7, <1>8
    <2>3. Len(stack') <= max_depth'
      BY <1>2, <2>1, MetadataEngineAssumption
    <2> QED
      BY <1>1, <1>2, <1>3, <1>4, <1>5, <1>8, <2>1, <2>2, <2>3 DEF WalkOK, EngineTypeOK, WalkInv
  <1>9. CASE status' = "failed" /\ stack' = << >> /\ visited' = << >>
    <2>1. stack' \in Seq(Frames) /\ visited' \in Seq(Objects) /\ Len(stack') <= max_depth'
      BY <1>2, <1>9, MetadataEngineAssumption
    <2> QED
      BY <1>1, <1>2, <1>3, <1>4, <1>5, <1>9, <2>1 DEF WalkOK, EngineTypeOK, WalkInv
  <1> QED
    BY <1>6, <1>8, <1>9

(* An edge of the object on top. *)
LEMMA EdgeWalks ==
  ASSUME WalkOK, WalkEdge
  PROVE  WalkOK' /\ describe_ \subseteq describe_'
  <1> DEFINE n == Len(stack)
  <1>1. /\ stack \in Seq(Frames) /\ stack # << >> /\ visited \in Seq(Objects)
        /\ status = "walking" /\ want \in Seq({"parent", "child"}) /\ want # << >>
        /\ visited = [ k \in DOMAIN stack |-> stack[k].object ] /\ describe_ \subseteq Objects
        /\ max_depth \in 1 .. kMaxDepth /\ n <= max_depth
    BY DEF WalkOK, EngineTypeOK, WalkInv, WalkEdge
  <1>2. /\ Top \in Frames /\ Advanced \in Seq(Frames) /\ Len(Advanced) = n
        /\ \A k \in 1 .. n : Advanced[k].object = stack[k].object
        /\ n \in Nat \ {0} /\ Top = stack[n]
    BY <1>1, AdvancedStack
  <1>3. want[1] \in {"parent", "child"}
    BY <1>1, LenProperties
  <1> DEFINE way == want[1]
  <1> DEFINE e == Edges(way, Top.object)[Top.next]
  <1> DEFINE path == Append(Top.path, Top.next)
  <1>4. UNCHANGED <<down, root, max_depth, want, calls, status>> /\ global_loaded_' \in BOOLEAN
    BY DEF WalkEdge, WalkOK, EngineTypeOK
  <1>5. \/ /\ EdgeStatus(way, e, Top.object, visited) = "resolved" /\ Len(stack) < max_depth
           /\ describe_' = Cached(Target(way, e))
           /\ stack' = Append(Advanced, Frame(Target(way, e), path))
           /\ visited' = Append(visited, Target(way, e))
        \/ /\ EdgeStatus(way, e, Top.object, visited) = "resolved"
           /\ describe_' = Cached(Target(way, e))
           /\ stack' = Advanced /\ visited' = visited
        \/ describe_' = describe_ /\ stack' = Advanced /\ visited' = visited
    BY DEF WalkEdge, Deeper
  <1>6. path \in Seq(Nat)
    BY <1>2 DEF Frames
  <1> HIDE DEF way, e, path
  <1>7. visited' = [ k \in DOMAIN stack' |-> stack'[k].object ] /\ stack' \in Seq(Frames)
        /\ visited' \in Seq(Objects) /\ Len(stack') <= max_depth
        /\ describe_ \subseteq describe_' /\ describe_' \subseteq Objects
    <2>1. DOMAIN stack = 1 .. n /\ DOMAIN Advanced = 1 .. n
      BY <1>1, <1>2, LenProperties
    <2>2. visited = [ k \in 1 .. n |-> Advanced[k].object ] /\ Len(visited) = n
      BY <1>1, <1>2, <2>1
    <2>3. CASE /\ EdgeStatus(way, e, Top.object, visited) = "resolved" /\ Len(stack) < max_depth
               /\ describe_' = Cached(Target(way, e))
               /\ stack' = Append(Advanced, Frame(Target(way, e), path))
               /\ visited' = Append(visited, Target(way, e))
      <3> DEFINE o == Target(way, e)
      <3>1. o \in Objects
        BY <1>3, <2>3, ResolvedTarget DEF way
      <3> HIDE DEF o
      <3> DEFINE fr == Frame(o, path)
      <3>2. fr \in Frames /\ fr.object = o
        BY <1>6, <3>1 DEF Frame, Frames
      <3>3. stack' = Append(Advanced, fr) /\ visited' = Append(visited, o)
        BY <2>3 DEF o
      <3> HIDE DEF fr
      <3>4. stack' \in Seq(Frames) /\ Len(stack') = n + 1 /\ DOMAIN stack' = 1 .. n + 1
        <4>1. Advanced \in Seq(Frames) /\ Len(Advanced) = n
          BY <1>2
        <4>2. Append(Advanced, fr) \in Seq(Frames) /\ Len(Append(Advanced, fr)) = n + 1
          BY <3>2, <4>1
        <4>3. stack' \in Seq(Frames) /\ Len(stack') = n + 1
          BY <3>3, <4>2
        <4> QED
          BY <4>3, LenProperties
      <3>5. visited' \in Seq(Objects) /\ Len(visited') = n + 1
        <4>1. visited \in Seq(Objects) /\ Len(visited) = n
          BY <1>1, <2>2
        <4>2. Append(visited, o) \in Seq(Objects) /\ Len(Append(visited, o)) = n + 1
          BY <3>1, <4>1
        <4> QED
          BY <3>3, <4>2
      <3>6. ASSUME NEW k \in 1 .. n + 1 PROVE visited'[k] = stack'[k].object
        <4>1. CASE k = n + 1
          BY <1>1, <1>2, <2>2, <3>1, <3>2, <3>3, <4>1
        <4>2. CASE k \in 1 .. n
          BY <1>1, <1>2, <2>2, <3>1, <3>2, <3>3, <4>2
        <4> QED
          BY <1>2, <4>1, <4>2
      <3>7. visited' = [ k \in DOMAIN stack' |-> stack'[k].object ]
        BY <3>4, <3>5, <3>6
      <3>8. Len(stack') <= max_depth
        BY <1>1, <1>2, <2>3, <3>4, MetadataEngineAssumption
      <3> QED
        BY <1>1, <2>3, <3>1, <3>4, <3>5, <3>7, <3>8, CachedGrows DEF o
    <2>4. CASE stack' = Advanced /\ visited' = visited
      <3>1. visited' = [ k \in DOMAIN stack' |-> stack'[k].object ]
        BY <2>1, <2>2, <2>4
      <3>2. describe_ \subseteq describe_' /\ describe_' \subseteq Objects
        BY <1>1, <1>3, <1>5, ResolvedTarget, CachedGrows DEF way
      <3> QED
        BY <1>1, <1>2, <2>4, <3>1, <3>2
    <2> QED
      BY <1>5, <2>3, <2>4
  <1> QED
    BY <1>1, <1>4, <1>7 DEF WalkOK, EngineTypeOK, WalkInv

(* A list without its last element. *)
LEMMA AllButLast ==
  ASSUME NEW S, NEW s \in Seq(S), s # << >>
  PROVE  LET t == SubSeq(s, 1, Len(s) - 1)
         IN  /\ t \in Seq(S) /\ Len(t) = Len(s) - 1
             /\ \A k \in 1 .. Len(s) - 1 : t[k] = s[k]
  <1>0. Len(s) \in Nat \ {0}
    BY LenProperties
  <1>1. PICK n \in Nat : n = Len(s) - 1
    BY <1>0
  <1>2. n \in Int /\ 1 \in Int /\ n + 1 = Len(s) /\ \A k \in 1 .. n : s[k] \in S
    BY <1>0, <1>1, LenProperties
  <1>3. /\ SubSeq(s, 1, n) \in Seq(S)
        /\ Len(SubSeq(s, 1, n)) = IF 1 <= n THEN n - 1 + 1 ELSE 0
        /\ \A k \in 1 .. n - 1 + 1 : SubSeq(s, 1, n)[k] = s[1 + k - 1]
    BY <1>2, SubSeqProperties
  <1>4. \A k \in 1 .. n : SubSeq(s, 1, n)[k] = s[k]
    <2> SUFFICES ASSUME NEW k \in 1 .. n PROVE SubSeq(s, 1, n)[k] = s[k]
      OBVIOUS
    <2>1. k \in 1 .. n - 1 + 1 /\ 1 + k - 1 = k
      OBVIOUS
    <2>2. SubSeq(s, 1, n)[k] = s[1 + k - 1]
      BY <1>3, <2>1
    <2> QED
      BY <2>1, <2>2
  <1>5. Len(SubSeq(s, 1, n)) = n
    BY <1>3
  <1> QED
    BY <1>1, <1>3, <1>4, <1>5

(* The walk leaves an object. *)
LEMMA ReturnWalks ==
  ASSUME WalkOK, WalkReturn
  PROVE  WalkOK'
  <1> DEFINE n == Len(stack)
  <1>1. /\ stack \in Seq(Frames) /\ stack # << >> /\ visited \in Seq(Objects)
        /\ visited = [ k \in DOMAIN stack |-> stack[k].object ]
        /\ max_depth \in 1 .. kMaxDepth /\ n <= max_depth
        /\ stack' = SubSeq(stack, 1, n - 1) /\ visited' = SubSeq(visited, 1, Len(visited) - 1)
        /\ UNCHANGED <<down, describe_, global_loaded_, root, max_depth, want, rows, calls, status>>
    BY DEF WalkOK, EngineTypeOK, WalkInv, WalkReturn, Front, engine
  <1>2. n \in Nat \ {0} /\ DOMAIN stack = 1 .. n /\ Len(visited) = n
    BY <1>1, LenProperties
  <1>3. /\ stack' \in Seq(Frames) /\ Len(stack') = n - 1
        /\ \A k \in 1 .. n - 1 : stack'[k] = stack[k]
    BY <1>1, <1>2, AllButLast
  <1>4. /\ visited' \in Seq(Objects) /\ Len(visited') = n - 1
        /\ \A k \in 1 .. n - 1 : visited'[k] = stack[k].object
    <2>1. visited # << >> /\ \A k \in 1 .. n : visited[k] = stack[k].object
      BY <1>1, <1>2
    <2>2. /\ visited' \in Seq(Objects) /\ Len(visited') = Len(visited) - 1
          /\ \A k \in 1 .. Len(visited) - 1 : visited'[k] = visited[k]
      BY <1>1, <2>1, AllButLast
    <2> QED
      BY <1>2, <2>1, <2>2
  <1>5. visited' = [ k \in DOMAIN stack' |-> stack'[k].object ]
    BY <1>2, <1>3, <1>4
  <1>6. Len(stack') <= max_depth
    BY <1>1, <1>2, <1>3, MetadataEngineAssumption
  <1> QED
    BY <1>1, <1>3, <1>4, <1>5, <1>6 DEF WalkOK, EngineTypeOK, WalkInv

(* The other direction begins, or the walk is over. *)
LEMMA DirectionWalks ==
  ASSUME WalkOK, NextDirection
  PROVE  WalkOK'
  <1>1. /\ stack \in Seq(Frames) /\ visited \in Seq(Objects) /\ root \in Objects
        /\ want \in Seq({"parent", "child"}) /\ want # << >> /\ max_depth \in 1 .. kMaxDepth
        /\ want' = Tail(want) /\ Len(stack) <= max_depth
        /\ UNCHANGED <<down, describe_, global_loaded_, root, max_depth, rows, calls>>
    BY DEF WalkOK, EngineTypeOK, WalkInv, NextDirection, engine
  <1>2. want' \in Seq({"parent", "child"}) /\ Len(want') = Len(want) - 1 /\ Len(want) \in Nat
    BY <1>1, LenProperties
  <1>3. Range(want') \subseteq {"parent", "child"}
    BY <1>2 DEF Range
  <1>4. CASE Len(want) > 1
    <2>1. /\ stack' = << Frame(root, << >>) >> /\ visited' = << root >> /\ status' = status
      BY <1>4 DEF NextDirection
    <2>2. Frame(root, << >>) \in Frames /\ Frame(root, << >>).object = root
      BY <1>1 DEF Frame, Frames
    <2>3. stack' \in Seq(Frames) /\ visited' \in Seq(Objects) /\ Len(stack') = 1
      BY <1>1, <2>1, <2>2
    <2>4. visited' = [ k \in DOMAIN stack' |-> stack'[k].object ]
      BY <2>1, <2>2
    <2>5. Len(stack') <= max_depth
      BY <1>1, <2>3, MetadataEngineAssumption
    <2>6. Len(want') # 0
      BY <1>2, <1>4
    <2>7. want' # << >>
      BY <2>6
    <2> QED
      BY <1>1, <1>2, <1>3, <2>1, <2>3, <2>4, <2>5, <2>7 DEF WalkOK, EngineTypeOK, WalkInv
  <1>5. CASE ~ (Len(want) > 1)
    <2>1. status' = "done" /\ stack' = stack /\ visited' = visited
      BY <1>5 DEF NextDirection
    <2> QED
      BY <1>1, <1>2, <1>3, <2>1 DEF WalkOK, EngineTypeOK, WalkInv
  <1> QED
    BY <1>4, <1>5
(* A step of a call of salesforce_relationship_graph, or of the org. *)
LEMMA GraphKeeps ==
  ASSUME WalkOK, GraphNext
  PROVE  /\ WalkOK' /\ describe_ \subseteq describe_' /\ status \in {"idle", "walking"}
         /\ status' # "bridge" /\ (status' = "idle" => status = "idle" /\ rows' = rows)
  <1>1. CASE OrgChanges
    <2>1. down' \subseteq Objects
      BY <1>1, MetadataEngineAssumption DEF OrgChanges
    <2> QED
      BY <1>1, <2>1 DEF OrgChanges, WalkOK, EngineTypeOK, WalkInv, engine
  <1>2. ASSUME NEW r \in Objects, NEW depth \in 0 .. kMaxDepth + 1,
               NEW ways \in {<<"parent">>, <<"child">>, <<"parent", "child">>},
               RelGraphBind(r, depth, ways)
        PROVE  /\ WalkOK' /\ describe_ \subseteq describe_' /\ status = "idle"
               /\ status' \in {"walking", "failed"}
    <2>1. WalkOK' /\ describe_ \subseteq describe_'
      BY <1>2, BindWalks
    <2>2. status = "idle" /\ status' \in {"walking", "failed"}
      BY <1>2 DEF RelGraphBind
    <2> QED
      BY <2>1, <2>2
  <1>3. CASE WalkEdge
    <2>1. WalkOK' /\ describe_ \subseteq describe_'
      BY <1>3, EdgeWalks
    <2>2. status = "walking" /\ status' = "walking"
      BY <1>3 DEF WalkEdge
    <2> QED
      BY <2>1, <2>2
  <1>4. CASE GlobalDescribeFails
    BY <1>4 DEF GlobalDescribeFails, WalkOK, EngineTypeOK, WalkInv, engine
  <1>5. CASE WalkReturn
    <2>1. WalkOK'
      BY <1>5, ReturnWalks
    <2>2. status = "walking" /\ status' = "walking" /\ describe_' = describe_
      BY <1>5 DEF WalkReturn, engine
    <2> QED
      BY <2>1, <2>2
  <1>6. CASE NextDirection
    <2>1. WalkOK'
      BY <1>6, DirectionWalks
    <2>2. status = "walking" /\ status' \in {"walking", "done"} /\ describe_' = describe_
      BY <1>6 DEF NextDirection, engine
    <2> QED
      BY <2>1, <2>2
  <1> QED
    BY <1>1, <1>2, <1>3, <1>4, <1>5, <1>6 DEF GraphNext

-----------------------------------------------------------------------------
(* The chains of the relationship graph.                                   *)

(* Edge j of the i-th object leads to the next one. *)
ChainStep(way, objects, i, j) ==
  LET e == Edges(way, objects[i])[j]
  IN  /\ j \in DOMAIN Edges(way, objects[i])
      /\ EdgeStatus(way, e, objects[i], SubSeq(objects, 1, i)) = "resolved"
      /\ Describable(Target(way, e)) /\ objects[i + 1] = Target(way, e)

(* A chain of ChainsOf, said of all its steps at once. *)
IsChain(way, c) ==
  /\ c = [ objects |-> c.objects, path |-> c.path ]
  /\ c.objects \in Seq(Objects) /\ c.path \in Seq(Nat)
  /\ Len(c.objects) = Len(c.path) + 1 /\ Len(c.objects) <= max_depth
  /\ c.objects[1] = root
  /\ \A i \in 1 .. Len(c.path) : ChainStep(way, c.objects, i, c.path[i])

(* The first m objects of a chain. *)
FirstOf(c, m) == [ objects |-> SubSeq(c.objects, 1, m), path |-> SubSeq(c.path, 1, m - 1) ]

(* A chain and one edge more. *)
Extended(way, c, j) ==
  [ objects |-> Append(c.objects, Target(way, Edges(way, Last(c.objects))[j])),
    path |-> Append(c.path, j) ]

(* The edge leads from the end of the chain to one more object. *)
Extends(way, c, j) ==
  LET e == Edges(way, Last(c.objects))[j]
  IN  /\ j \in DOMAIN Edges(way, Last(c.objects))
      /\ EdgeStatus(way, e, Last(c.objects), c.objects) = "resolved"
      /\ Describable(Target(way, e))

(* The first elements of a list. *)
LEMMA FirstElements ==
  ASSUME NEW S, NEW s \in Seq(S), NEW m \in 0 .. Len(s)
  PROVE  /\ SubSeq(s, 1, m) \in Seq(S) /\ Len(SubSeq(s, 1, m)) = m
         /\ \A k \in 1 .. m : SubSeq(s, 1, m)[k] = s[k]
  <1>1. m \in Int /\ 1 \in Int /\ \A k \in 1 .. m : s[k] \in S
    BY LenProperties
  <1>2. /\ SubSeq(s, 1, m) \in Seq(S)
        /\ Len(SubSeq(s, 1, m)) = IF 1 <= m THEN m - 1 + 1 ELSE 0
        /\ \A k \in 1 .. m - 1 + 1 : SubSeq(s, 1, m)[k] = s[1 + k - 1]
    BY <1>1, SubSeqProperties
  <1>3. m \in Nat
    BY LenProperties
  <1>4. \A k \in 1 .. m : SubSeq(s, 1, m)[k] = s[k]
    <2> SUFFICES ASSUME NEW k \in 1 .. m PROVE SubSeq(s, 1, m)[k] = s[k]
      OBVIOUS
    <2>1. k \in 1 .. m - 1 + 1 /\ 1 + k - 1 = k
      BY <1>3
    <2>2. SubSeq(s, 1, m)[k] = s[1 + k - 1]
      BY <1>2, <2>1
    <2> QED
      BY <2>1, <2>2
  <1> QED
    BY <1>2, <1>3, <1>4

(* Lists that agree on their first elements. *)
LEMMA SameFirst ==
  ASSUME NEW S, NEW s \in Seq(S), NEW t \in Seq(S), NEW m \in 0 .. Len(s), m <= Len(t),
         \A k \in 1 .. m : s[k] = t[k]
  PROVE  SubSeq(s, 1, m) = SubSeq(t, 1, m)
  <1>1. m \in 0 .. Len(t)
    BY LenProperties
  <1>2. /\ SubSeq(s, 1, m) \in Seq(S) /\ Len(SubSeq(s, 1, m)) = m
        /\ \A k \in 1 .. m : SubSeq(s, 1, m)[k] = s[k]
    BY FirstElements
  <1>3. /\ SubSeq(t, 1, m) \in Seq(S) /\ Len(SubSeq(t, 1, m)) = m
        /\ \A k \in 1 .. m : SubSeq(t, 1, m)[k] = t[k]
    BY <1>1, FirstElements
  <1> QED
    BY <1>2, <1>3, SeqEqual

(* All of a list. *)
LEMMA AllElements ==
  ASSUME NEW S, NEW s \in Seq(S)
  PROVE  SubSeq(s, 1, Len(s)) = s
  <1>1. Len(s) \in 0 .. Len(s)
    BY LenProperties
  <1>2. /\ SubSeq(s, 1, Len(s)) \in Seq(S) /\ Len(SubSeq(s, 1, Len(s))) = Len(s)
        /\ \A k \in 1 .. Len(s) : SubSeq(s, 1, Len(s))[k] = s[k]
    BY <1>1, FirstElements
  <1> QED
    BY <1>2, SeqEqual

(* One element more. *)
LEMMA OneMore ==
  ASSUME NEW S, NEW s \in Seq(S), NEW x \in S
  PROVE  /\ Append(s, x) \in Seq(S) /\ Len(Append(s, x)) = Len(s) + 1 /\ Len(s) \in Nat
         /\ \A k \in 1 .. Len(s) : Append(s, x)[k] = s[k]
         /\ Append(s, x)[Len(s) + 1] = x /\ Last(Append(s, x)) = x
         /\ \A m \in 0 .. Len(s) : SubSeq(Append(s, x), 1, m) = SubSeq(s, 1, m)
         /\ SubSeq(Append(s, x), 1, Len(s)) = s
  <1> DEFINE t == Append(s, x)
  <1>1. /\ t \in Seq(S) /\ Len(t) = Len(s) + 1 /\ Len(s) \in Nat
        /\ \A k \in 1 .. Len(s) : t[k] = s[k]
        /\ t[Len(s) + 1] = x
    BY LenProperties
  <1> HIDE DEF t
  <1>2. ASSUME NEW m \in 0 .. Len(s) PROVE SubSeq(t, 1, m) = SubSeq(s, 1, m)
    <2>1. m \in 0 .. Len(t) /\ m <= Len(s) /\ \A k \in 1 .. m : t[k] = s[k]
      BY <1>1
    <2> QED
      BY <1>1, <2>1, SameFirst
  <1>3. SubSeq(t, 1, Len(s)) = s
    <2>1. Len(s) \in 0 .. Len(s)
      BY <1>1
    <2>2. SubSeq(t, 1, Len(s)) = SubSeq(s, 1, Len(s))
      BY <1>2, <2>1
    <2> QED
      BY <2>2, AllElements
  <1>4. Last(t) = x
    BY <1>1 DEF Last
  <1> QED
    BY <1>1, <1>2, <1>3, <1>4 DEF t

(* A list is its front and its last element. *)
LEMMA FrontAndLast ==
  ASSUME NEW S, NEW s \in Seq(S), Len(s) # 0
  PROVE  /\ Len(s) - 1 \in 0 .. Len(s) /\ s[Len(s)] \in S
         /\ s = Append(SubSeq(s, 1, Len(s) - 1), s[Len(s)])
  <1>1. Len(s) \in Nat \ {0} /\ Len(s) - 1 \in 0 .. Len(s) /\ s[Len(s)] \in S
    BY LenProperties
  <1> DEFINE f == SubSeq(s, 1, Len(s) - 1)
  <1> DEFINE t == Append(f, s[Len(s)])
  <1>2. f \in Seq(S) /\ Len(f) = Len(s) - 1 /\ \A k \in 1 .. Len(s) - 1 : f[k] = s[k]
    BY <1>1, FirstElements
  <1> HIDE DEF f
  <1>3. /\ t \in Seq(S) /\ Len(t) = Len(s)
        /\ \A k \in 1 .. Len(s) - 1 : t[k] = f[k]
        /\ t[Len(s)] = s[Len(s)]
    <2>1. /\ t \in Seq(S) /\ Len(t) = Len(f) + 1 /\ t[Len(f) + 1] = s[Len(s)]
          /\ \A k \in 1 .. Len(f) : t[k] = f[k]
      BY <1>1, <1>2, OneMore
    <2> HIDE DEF t
    <2> QED
      BY <1>1, <1>2, <2>1
  <1> HIDE DEF t
  <1>4. \A k \in 1 .. Len(s) : t[k] = s[k]
    <2> SUFFICES ASSUME NEW k \in 1 .. Len(s) PROVE t[k] = s[k]
      OBVIOUS
    <2>1. CASE k = Len(s)
      BY <1>3, <2>1
    <2>2. CASE k # Len(s)
      BY <1>1, <1>2, <1>3, <2>2
    <2> QED
      BY <2>1, <2>2
  <1>5. t = s
    BY <1>3, <1>4, SeqEqual
  <1> QED
    BY <1>1, <1>5 DEF t, f

(* The edges of an object are a list. *)
LEMMA EdgeLists ==
  ASSUME NEW way, NEW o \in Objects
  PROVE  /\ Len(Edges(way, o)) \in Nat
         /\ DOMAIN Edges(way, o) = 1 .. Len(Edges(way, o))
  <1>1. PICK S, T : Parents[o] \in Seq(S) /\ Children[o] \in Seq(T)
    BY MetadataEngineAssumption
  <1>2. Edges(way, o) \in Seq(S) \/ Edges(way, o) \in Seq(T)
    BY <1>1 DEF Edges
  <1> QED
    BY <1>2, LenProperties

(* A chain has a last object. *)
LEMMA ChainEnd ==
  ASSUME NEW way, NEW c, IsChain(way, c)
  PROVE  /\ Len(c.path) \in Nat /\ Len(c.objects) \in Nat \ {0}
         /\ Len(c.objects) = Len(c.path) + 1
         /\ Last(c.objects) = c.objects[Len(c.objects)] /\ Last(c.objects) \in Objects
         /\ c.objects \in Seq(Objects) /\ c.path \in Seq(Nat)
  <1>1. c.objects \in Seq(Objects) /\ c.path \in Seq(Nat) /\ Len(c.objects) = Len(c.path) + 1
    BY DEF IsChain
  <1>2. Len(c.path) \in Nat /\ Len(c.objects) \in Nat \ {0}
    BY <1>1, LenProperties
  <1>3. c.objects[Len(c.objects)] \in Objects
    BY <1>1, <1>2, LenProperties
  <1> QED
    BY <1>1, <1>2, <1>3 DEF Last

(* A chain of one object. *)
LEMMA RootChain ==
  ASSUME NEW way, root \in Objects, max_depth \in Nat \ {0}
  PROVE  IsChain(way, [ objects |-> << root >>, path |-> << >> ])
  <1> DEFINE c == [ objects |-> << root >>, path |-> << >> ]
  <1>1. c.objects = << root >> /\ c.path = << >>
    OBVIOUS
  <1>2. << root >> \in Seq(Objects) /\ Len(<< root >>) = 1 /\ << root >>[1] = root
    OBVIOUS
  <1>3. << >> \in Seq(Nat) /\ Len(<< >>) = 0
    OBVIOUS
  <1> QED
    BY <1>1, <1>2, <1>3 DEF IsChain

(* A chain may go on over an edge that is resolved and describable. *)
LEMMA ExtendChain ==
  ASSUME NEW way \in {"parent", "child"}, NEW c, IsChain(way, c), NEW j, Extends(way, c, j),
         max_depth \in Nat, Len(c.objects) < max_depth
  PROVE  IsChain(way, Extended(way, c, j))
  <1> DEFINE l == Len(c.path)
  <1> DEFINE o == Target(way, Edges(way, Last(c.objects))[j])
  <1> DEFINE d == Extended(way, c, j)
  <1>1. /\ l \in Nat /\ Len(c.objects) = l + 1 /\ Last(c.objects) = c.objects[l + 1]
        /\ Last(c.objects) \in Objects /\ c.objects \in Seq(Objects) /\ c.path \in Seq(Nat)
    BY ChainEnd
  <1>2. /\ j \in DOMAIN Edges(way, Last(c.objects))
        /\ EdgeStatus(way, Edges(way, Last(c.objects))[j], Last(c.objects), c.objects) = "resolved"
        /\ Describable(o)
    BY DEF Extends
  <1>3. o \in Objects /\ j \in Nat
    BY <1>1, <1>2, ResolvedTarget, EdgeLists
  <1>4. d.objects = Append(c.objects, o) /\ d.path = Append(c.path, j)
        /\ d = [ objects |-> d.objects, path |-> d.path ]
    BY DEF Extended
  <1>5. /\ d.objects \in Seq(Objects) /\ Len(d.objects) = l + 2
        /\ \A k \in 1 .. l + 1 : d.objects[k] = c.objects[k]
        /\ d.objects[l + 2] = o
        /\ \A m \in 0 .. l + 1 : SubSeq(d.objects, 1, m) = SubSeq(c.objects, 1, m)
        /\ SubSeq(d.objects, 1, l + 1) = c.objects
    <2> HIDE DEF o, d
    <2>1. Len(c.objects) + 1 = l + 2
      BY <1>1
    <2> QED
      BY <1>1, <1>3, <1>4, <2>1, OneMore
  <1>6. /\ d.path \in Seq(Nat) /\ Len(d.path) = l + 1
        /\ \A k \in 1 .. l : d.path[k] = c.path[k]
        /\ d.path[l + 1] = j
    <2> HIDE DEF o, d
    <2> QED
      BY <1>1, <1>3, <1>4, OneMore
  <1>7. ASSUME NEW i \in 1 .. l + 1 PROVE ChainStep(way, d.objects, i, d.path[i])
    <2> HIDE DEF d
    <2>1. CASE i = l + 1
      <3>1. /\ d.objects[i] = Last(c.objects) /\ d.path[i] = j /\ d.objects[i + 1] = o
            /\ SubSeq(d.objects, 1, i) = c.objects
        <4>1. l \in Nat /\ i \in 1 .. l + 1 /\ i + 1 = l + 2
          BY <1>1, <2>1
        <4>2. d.objects[i] = c.objects[i] /\ Last(c.objects) = c.objects[i]
          BY <1>1, <1>5, <2>1, <4>1
        <4> QED
          BY <1>5, <1>6, <2>1, <4>1, <4>2
      <3> QED
        BY <1>2, <3>1 DEF ChainStep
    <2>2. CASE i # l + 1
      <3>1. i \in 1 .. l /\ i + 1 \in 1 .. l + 1 /\ i \in 0 .. l + 1 /\ i \in 1 .. l + 1
        BY <1>1, <2>2
      <3>2. /\ d.objects[i] = c.objects[i] /\ d.path[i] = c.path[i]
            /\ d.objects[i + 1] = c.objects[i + 1]
            /\ SubSeq(d.objects, 1, i) = SubSeq(c.objects, 1, i)
        BY <1>5, <1>6, <3>1
      <3>3. ChainStep(way, c.objects, i, c.path[i])
        BY <3>1 DEF IsChain
      <3> QED
        BY <3>2, <3>3 DEF ChainStep
    <2> QED
      BY <2>1, <2>2
  <1>8. Len(d.objects) = Len(d.path) + 1 /\ Len(d.objects) <= max_depth
    <2> HIDE DEF d
    <2> QED
      BY <1>1, <1>5, <1>6
  <1>9. d.objects[1] = root
    <2>1. c.objects[1] = root
      BY DEF IsChain
    <2> HIDE DEF d
    <2> QED
      BY <1>1, <1>5, <2>1
  <1> HIDE DEF d
  <1>10. IsChain(way, d)
    BY <1>4, <1>5, <1>6, <1>7, <1>8, <1>9 DEF IsChain
  <1> QED
    BY <1>10 DEF d

(* The first objects of a chain are a chain, which its next edge extends. *)
LEMMA PrefixChain ==
  ASSUME NEW way, NEW d, IsChain(way, d), NEW m \in 1 .. Len(d.path), max_depth \in Nat
  PROVE  /\ IsChain(way, FirstOf(d, m)) /\ Extends(way, FirstOf(d, m), d.path[m])
         /\ Len(FirstOf(d, m).path) = m - 1
         /\ \A k \in 1 .. m : FirstOf(d, m).objects[k] = d.objects[k]
         /\ \A k \in 1 .. m - 1 : FirstOf(d, m).path[k] = d.path[k]
         /\ m < max_depth
  <1> DEFINE c == FirstOf(d, m)
  <1> DEFINE l == Len(d.path)
  <1>1. /\ l \in Nat /\ Len(d.objects) = l + 1 /\ d.objects \in Seq(Objects) /\ d.path \in Seq(Nat)
        /\ Len(d.objects) <= max_depth /\ d.objects[1] = root
    BY ChainEnd DEF IsChain
  <1>2. /\ c = [ objects |-> c.objects, path |-> c.path ]
        /\ c.objects = SubSeq(d.objects, 1, m) /\ c.path = SubSeq(d.path, 1, m - 1)
    BY DEF FirstOf
  <1>3. m \in 0 .. Len(d.objects) /\ m - 1 \in 0 .. l /\ m < max_depth
    BY <1>1
  <1> HIDE DEF c
  <1>4. /\ c.objects \in Seq(Objects) /\ Len(c.objects) = m
        /\ \A k \in 1 .. m : c.objects[k] = d.objects[k]
    <2>1. PICK s : s = d.objects
      OBVIOUS
    <2>2. s \in Seq(Objects) /\ m \in 0 .. Len(s) /\ c.objects = SubSeq(s, 1, m)
      BY <1>1, <1>2, <1>3, <2>1
    <2>3. /\ SubSeq(s, 1, m) \in Seq(Objects) /\ Len(SubSeq(s, 1, m)) = m
          /\ \A k \in 1 .. m : SubSeq(s, 1, m)[k] = s[k]
      BY <2>2, FirstElements
    <2> QED
      BY <2>1, <2>2, <2>3
  <1>5. /\ c.path \in Seq(Nat) /\ Len(c.path) = m - 1
        /\ \A k \in 1 .. m - 1 : c.path[k] = d.path[k]
    <2>1. PICK s, n : s = d.path /\ n = m - 1
      OBVIOUS
    <2>2. s \in Seq(Nat) /\ n \in 0 .. Len(s) /\ c.path = SubSeq(s, 1, n)
      BY <1>1, <1>2, <1>3, <2>1
    <2>3. /\ SubSeq(s, 1, n) \in Seq(Nat) /\ Len(SubSeq(s, 1, n)) = n
          /\ \A k \in 1 .. n : SubSeq(s, 1, n)[k] = s[k]
      BY <2>2, FirstElements
    <2> QED
      BY <2>1, <2>2, <2>3
  <1>6. ASSUME NEW i \in 1 .. m PROVE SubSeq(c.objects, 1, i) = SubSeq(d.objects, 1, i)
    <2>1. i \in 0 .. Len(c.objects) /\ i <= Len(d.objects)
          /\ \A k \in 1 .. i : c.objects[k] = d.objects[k]
      BY <1>1, <1>4
    <2> QED
      BY <1>1, <1>4, <2>1, SameFirst
  <1>7. ASSUME NEW i \in 1 .. m - 1 PROVE ChainStep(way, c.objects, i, c.path[i])
    <2>1. i \in 1 .. m /\ i + 1 \in 1 .. m /\ i \in 1 .. l
      BY <1>1
    <2>2. ChainStep(way, d.objects, i, d.path[i])
      BY <2>1 DEF IsChain
    <2>3. /\ SubSeq(c.objects, 1, i) = SubSeq(d.objects, 1, i) /\ c.path[i] = d.path[i]
          /\ c.objects[i] = d.objects[i] /\ c.objects[i + 1] = d.objects[i + 1]
      BY <1>4, <1>5, <1>6, <2>1
    <2> QED
      BY <2>2, <2>3 DEF ChainStep
  <1>8. IsChain(way, c)
    <2>1. c.objects[1] = root
      <3>1. 1 \in 1 .. m
        OBVIOUS
      <3> QED
        BY <1>1, <1>4, <3>1
    <2>2. Len(c.objects) = Len(c.path) + 1
      BY <1>4, <1>5
    <2>3. Len(c.objects) <= max_depth
      BY <1>3, <1>4
    <2> QED
      BY <1>2, <1>4, <1>5, <1>7, <2>1, <2>2, <2>3 DEF IsChain
  <1>9. Extends(way, c, d.path[m])
    <2>1. ChainStep(way, d.objects, m, d.path[m])
      BY DEF IsChain
    <2>2. Last(c.objects) = d.objects[m]
      BY <1>4 DEF Last
    <2>3. c.objects = SubSeq(d.objects, 1, m)
      BY <1>2
    <2> QED
      BY <2>1, <2>2, <2>3 DEF ChainStep, Extends
  <1> QED
    BY <1>3, <1>4, <1>5, <1>8, <1>9 DEF c

(* A chain is the one before it and one edge more. *)
LEMMA ChainBefore ==
  ASSUME NEW way, NEW d, IsChain(way, d), Len(d.path) # 0, max_depth \in Nat
  PROVE  d = Extended(way, FirstOf(d, Len(d.path)), d.path[Len(d.path)])
  <1> DEFINE l == Len(d.path)
  <1> DEFINE c == FirstOf(d, l)
  <1>1. /\ l \in Nat \ {0} /\ Len(d.objects) = l + 1 /\ Len(d.objects) - 1 = l
        /\ d.objects \in Seq(Objects) /\ d.path \in Seq(Nat)
    BY ChainEnd
  <1>2. d.objects = Append(SubSeq(d.objects, 1, l), d.objects[l + 1])
        /\ d.path = Append(SubSeq(d.path, 1, l - 1), d.path[l])
    <2>1. d.objects \in Seq(Objects) /\ Len(d.objects) # 0
      BY <1>1
    <2>2. d.objects = Append(SubSeq(d.objects, 1, Len(d.objects) - 1), d.objects[Len(d.objects)])
      BY <2>1, FrontAndLast
    <2>3. d.path = Append(SubSeq(d.path, 1, Len(d.path) - 1), d.path[Len(d.path)])
      BY <1>1, FrontAndLast
    <2> QED
      BY <1>1, <2>2, <2>3
  <1>3. c.objects = SubSeq(d.objects, 1, l) /\ c.path = SubSeq(d.path, 1, l - 1)
    BY DEF FirstOf
  <1>4. ChainStep(way, d.objects, l, d.path[l]) /\ d = [ objects |-> d.objects, path |-> d.path ]
    BY <1>1 DEF IsChain
  <1>5. Last(c.objects) = d.objects[l]
    <2>1. l \in 0 .. Len(d.objects) /\ l \in 1 .. l
      BY <1>1
    <2>2. Len(c.objects) = l /\ c.objects[l] = d.objects[l]
      BY <1>1, <1>3, <2>1, FirstElements
    <2> QED
      BY <2>2 DEF Last
  <1>6. d.objects[l + 1] = Target(way, Edges(way, Last(c.objects))[d.path[l]])
    BY <1>4, <1>5 DEF ChainStep
  <1> QED
    BY <1>2, <1>3, <1>4, <1>6 DEF Extended

(* Chains over the same edges visit the same objects. *)
LEMMA SamePrefix ==
  ASSUME NEW way, NEW c, NEW d, IsChain(way, c), IsChain(way, d), NEW n \in Nat,
         n <= Len(c.objects), n <= Len(d.objects),
         \A k \in 1 .. n - 1 : c.path[k] = d.path[k]
  PROVE  \A k \in 1 .. n : c.objects[k] = d.objects[k]
  <1> DEFINE T == { k \in 1 .. n : c.objects[k] # d.objects[k] }
  <1> SUFFICES ASSUME T # {} PROVE FALSE
    OBVIOUS
  <1>1. T \subseteq Nat
    OBVIOUS
  <1>2. Min(T) \in T /\ \A y \in T : Min(T) <= y
    BY <1>1, LeastRank
  <1>3. PICK m : m \in T /\ \A y \in T : m <= y
    BY <1>2
  <1>4. m # 1 /\ m \in 1 .. n
    BY <1>3 DEF IsChain
  <1>5. PICK i \in Nat : i = m - 1 /\ i + 1 = m /\ i \in 1 .. n - 1 /\ i \in 1 .. n /\ ~ (m <= i)
    BY <1>4
  <1>6. c.objects[i] = d.objects[i] /\ c.path[i] = d.path[i]
    BY <1>3, <1>5
  <1>7. i \in 1 .. Len(c.path) /\ i \in 1 .. Len(d.path)
    <2>1. Len(c.path) \in Nat /\ Len(c.objects) = Len(c.path) + 1
      BY ChainEnd
    <2>2. Len(d.path) \in Nat /\ Len(d.objects) = Len(d.path) + 1
      BY ChainEnd
    <2> HIDE DEF T
    <2> QED
      BY <1>5, <2>1, <2>2
  <1>8. ChainStep(way, c.objects, i, c.path[i]) /\ ChainStep(way, d.objects, i, d.path[i])
    BY <1>7 DEF IsChain
  <1>9. c.objects[i + 1] = d.objects[i + 1]
    BY <1>6, <1>8 DEF ChainStep
  <1> QED
    BY <1>3, <1>5, <1>9

(* The chains of k edges. *)
Level(way, k) ==
  { c \in [ objects : Seq(Objects), path : Seq(Nat) ] : IsChain(way, c) /\ Len(c.path) = k }

(* What ChainsOf makes of the chains of one edge less. *)
Longer(way, A) ==
  UNION { { [ objects |-> Append(c.objects, Target(way, Edges(way, Last(c.objects))[i])),
              path |-> Append(c.path, i) ] :
              i \in { j \in DOMAIN Edges(way, Last(c.objects)) :
                        LET e == Edges(way, Last(c.objects))[j]
                        IN  /\ EdgeStatus(way, e, Last(c.objects), c.objects) = "resolved"
                            /\ Describable(Target(way, e)) } } :
            c \in A }

(* They are the chains that some edge makes longer. *)
LEMMA LongerIs ==
  ASSUME NEW way, NEW A
  PROVE  \A d : d \in Longer(way, A) <=>
                  \E c \in A : \E j : Extends(way, c, j) /\ d = Extended(way, c, j)
  <1> DEFINE Good(c) == { j \in DOMAIN Edges(way, Last(c.objects)) :
                            LET e == Edges(way, Last(c.objects))[j]
                            IN  /\ EdgeStatus(way, e, Last(c.objects), c.objects) = "resolved"
                                /\ Describable(Target(way, e)) }
  <1>1. \A c, j : j \in Good(c) <=> Extends(way, c, j)
    BY DEF Extends
  <1>2. Longer(way, A) = UNION { { Extended(way, c, i) : i \in Good(c) } : c \in A }
    BY Zenon DEF Longer, Extended
  <1> HIDE DEF Good
  <1>3. ASSUME NEW d, d \in Longer(way, A)
        PROVE  \E c \in A : \E j : Extends(way, c, j) /\ d = Extended(way, c, j)
    <2>1. PICK c \in A : d \in { Extended(way, c, i) : i \in Good(c) }
      BY <1>2, <1>3
    <2> QED
      BY <1>1, <2>1
  <1>4. ASSUME NEW c \in A, NEW j, Extends(way, c, j) PROVE Extended(way, c, j) \in Longer(way, A)
    <2>1. j \in Good(c)
      BY <1>1, <1>4
    <2>2. Extended(way, c, j) \in { Extended(way, c, i) : i \in Good(c) }
      BY <2>1
    <2> QED
      BY <1>2, <2>2
  <1> QED
    BY <1>3, <1>4

(* A chain is a member of its level. *)
LEMMA InLevel ==
  ASSUME NEW way, NEW c, IsChain(way, c)
  PROVE  c \in Level(way, Len(c.path))
  <1>1. /\ c = [ objects |-> c.objects, path |-> c.path ]
        /\ c.objects \in Seq(Objects) /\ c.path \in Seq(Nat)
    BY DEF IsChain
  <1>2. c \in [ objects : Seq(Objects), path : Seq(Nat) ]
    BY <1>1
  <1> QED
    BY <1>2 DEF Level

(* The chains of no edge. *)
LEMMA FirstLevel ==
  ASSUME NEW way, root \in Objects, max_depth \in Nat \ {0}
  PROVE  Level(way, 0) = {[ objects |-> << root >>, path |-> << >> ]}
  <1>1. ASSUME NEW c \in Level(way, 0) PROVE c = [ objects |-> << root >>, path |-> << >> ]
    <2>1. /\ c = [ objects |-> c.objects, path |-> c.path ] /\ Len(c.path) = 0
          /\ c.objects \in Seq(Objects) /\ c.path \in Seq(Nat)
          /\ Len(c.objects) = Len(c.path) + 1 /\ c.objects[1] = root
      BY <1>1 DEF Level, IsChain
    <2>2. c.path = << >>
      BY <2>1
    <2>3. c.objects = << root >>
      BY <2>1
    <2> QED
      BY <2>1, <2>2, <2>3
  <1>2. [ objects |-> << root >>, path |-> << >> ] \in Level(way, 0)
    <2>1. PICK c : c = [ objects |-> << root >>, path |-> << >> ]
      OBVIOUS
    <2>2. IsChain(way, c)
      BY <2>1, RootChain
    <2>3. Len(c.path) = 0
      BY <2>1
    <2> QED
      BY <2>1, <2>2, <2>3, InLevel
  <1> QED
    BY <1>1, <1>2

(* Each level is what makes the one before longer. *)
LEMMA NextLevel ==
  ASSUME NEW way \in {"parent", "child"}, max_depth \in Nat \ {0}, NEW k \in 1 .. max_depth - 1
  PROVE  Level(way, k) = Longer(way, Level(way, k - 1))
  <1>1. ASSUME NEW d \in Level(way, k) PROVE d \in Longer(way, Level(way, k - 1))
    <2>1. IsChain(way, d) /\ Len(d.path) = k
      BY <1>1 DEF Level
    <2>2. k \in 1 .. Len(d.path) /\ Len(d.path) # 0
      BY <2>1
    <2>3. PICK c : c = FirstOf(d, k)
      OBVIOUS
    <2>4. IsChain(way, c) /\ Extends(way, c, d.path[k]) /\ Len(c.path) = k - 1
      BY <2>1, <2>2, <2>3, PrefixChain
    <2>5. d = Extended(way, c, d.path[k])
      BY <2>1, <2>2, <2>3, ChainBefore
    <2>6. c \in Level(way, k - 1)
      BY <2>4, InLevel
    <2> QED
      BY <2>4, <2>5, <2>6, LongerIs
  <1>2. ASSUME NEW d \in Longer(way, Level(way, k - 1)) PROVE d \in Level(way, k)
    <2>1. PICK c \in Level(way, k - 1) : \E j : Extends(way, c, j) /\ d = Extended(way, c, j)
      BY <1>2, LongerIs
    <2>2. PICK j : Extends(way, c, j) /\ d = Extended(way, c, j)
      BY <2>1
    <2>3. IsChain(way, c) /\ Len(c.path) = k - 1
      BY <2>1 DEF Level
    <2>4. Len(c.objects) < max_depth
      BY <2>3, ChainEnd
    <2>5. IsChain(way, d)
      BY <2>2, <2>3, <2>4, ExtendChain
    <2>6. d.path = Append(c.path, j)
      BY <2>2 DEF Extended
    <2>7. c.path \in Seq(Nat) /\ Len(c.path) + 1 = k
      BY <2>3, ChainEnd
    <2>8. Len(d.path) = k
      <3>1. PICK s : s = c.path
        OBVIOUS
      <3>2. s \in Seq(Nat) /\ Len(s) + 1 = k /\ d.path = Append(s, j)
        BY <2>6, <2>7, <3>1
      <3>3. d.path \in Seq(Nat)
        BY <2>5, ChainEnd
      <3>4. Len(Append(s, j)) = Len(s) + 1
        <4>1. PICK S : S = Nat \union {j}
          OBVIOUS
        <4>2. s \in Seq(S) /\ j \in S
          BY <3>2, <4>1
        <4> QED
          BY <4>2
      <3> QED
        BY <3>2, <3>4
    <2> QED
      BY <2>5, <2>8, InLevel
  <1> QED
    BY <1>1, <1>2

(* ChainsOf collects the chains. *)
LEMMA ChainsAre ==
  ASSUME NEW way \in {"parent", "child"}, root \in Objects, max_depth \in Nat \ {0}
  PROVE  \A c : c \in ChainsOf(way) <=> IsChain(way, c)
  <1> DEFINE m == max_depth - 1
  <1> DEFINE IsC(f) == f = [ k \in 0 .. m |->
                               IF k = 0 THEN {[ objects |-> << root >>, path |-> << >> ]}
                               ELSE Longer(way, f[k - 1]) ]
  <1> DEFINE C == CHOOSE f : IsC(f)
  <1> DEFINE G == [ k \in 0 .. m |-> Level(way, k) ]
  <1>1. ChainsOf(way) = UNION { C[k] : k \in 0 .. m }
    BY Zenon DEF ChainsOf, Longer
  <1>2. m \in Nat
    OBVIOUS
  <1>3. \A k \in 0 .. m : Level(way, k) = IF k = 0 THEN {[ objects |-> << root >>, path |-> << >> ]}
                                          ELSE Longer(way, Level(way, k - 1))
    <2> SUFFICES ASSUME NEW k \in 0 .. m
                 PROVE  Level(way, k) = IF k = 0 THEN {[ objects |-> << root >>, path |-> << >> ]}
                                        ELSE Longer(way, Level(way, k - 1))
      OBVIOUS
    <2>1. CASE k = 0
      BY <2>1, FirstLevel
    <2>2. CASE k # 0
      <3>1. k \in 1 .. max_depth - 1
        BY <1>2, <2>2
      <3> QED
        BY <2>2, <3>1, NextLevel
    <2> QED
      BY <2>1, <2>2
  <1>4. IsC(G)
    <2>1. ASSUME NEW k \in 0 .. m
          PROVE  Level(way, k) = IF k = 0 THEN {[ objects |-> << root >>, path |-> << >> ]}
                                 ELSE Longer(way, G[k - 1])
      <3>1. k # 0 => k - 1 \in 0 .. m
        BY <1>2
      <3>2. k # 0 => G[k - 1] = Level(way, k - 1)
        BY <3>1
      <3> QED
        BY <1>3, <3>2
    <2> QED
      BY <2>1
  <1>5. IsC(C)
    <2> HIDE DEF IsC, G
    <2> QED
      BY <1>4
  <1>6. \A k \in 0 .. m : C[k] = IF k = 0 THEN {[ objects |-> << root >>, path |-> << >> ]}
                                 ELSE Longer(way, C[k - 1])
    <2> HIDE DEF C
    <2> QED
      BY <1>5
  <1> HIDE DEF C, IsC, G
  <1>7. \A k \in 0 .. m : C[k] = Level(way, k)
    <2> DEFINE T == { k \in 0 .. m : C[k] # Level(way, k) }
    <2> SUFFICES ASSUME T # {} PROVE FALSE
      OBVIOUS
    <2>1. T \subseteq Nat
      OBVIOUS
    <2>2. Min(T) \in T /\ \A y \in T : Min(T) <= y
      BY <2>1, LeastRank
    <2>3. PICK k : k \in T /\ \A y \in T : k <= y
      BY <2>2
    <2>4. k # 0 /\ k \in 0 .. m
      BY <1>3, <1>6, <2>3
    <2>5. k - 1 \in 0 .. m /\ ~ (k <= k - 1)
      BY <1>2, <2>4
    <2>6. C[k - 1] = Level(way, k - 1)
      BY <2>3, <2>5
    <2> QED
      BY <1>3, <1>6, <2>3, <2>4, <2>6
  <1>8. ASSUME NEW c PROVE c \in ChainsOf(way) <=> IsChain(way, c)
    <2>1. ASSUME c \in ChainsOf(way) PROVE IsChain(way, c)
      <3>1. PICK k \in 0 .. m : c \in C[k]
        BY <1>1, <2>1
      <3> QED
        BY <1>7, <3>1 DEF Level
    <2>2. ASSUME IsChain(way, c) PROVE c \in ChainsOf(way)
      <3>1. Len(c.path) \in Nat /\ Len(c.path) + 1 = Len(c.objects) /\ Len(c.objects) <= max_depth
        BY <2>2, ChainEnd DEF IsChain
      <3>2. Len(c.path) \in 0 .. m
        BY <3>1
      <3>3. c \in C[Len(c.path)]
        BY <1>7, <2>2, <3>2, InLevel
      <3> QED
        BY <1>1, <3>2, <3>3
    <2> QED
      BY <2>1, <2>2
  <1> QED
    BY <1>8

-----------------------------------------------------------------------------
(* The rows of a walk.                                                     *)

(* The row of an edge of a chain, as EdgesOf has it. *)
EdgeRow(way, c, i) ==
  [ way |-> way, path |-> Append(c.path, i),
    status |-> LET e == Edges(way, Last(c.objects))[i]
                   s == EdgeStatus(way, e, Last(c.objects), c.objects)
               IN  IF /\ s = "resolved" /\ Len(c.objects) < max_depth
                      /\ ~ Describable(Target(way, e))
                   THEN "not_describable" ELSE s ]

(* c is a chain and i an edge of its last object. *)
ChainEdge(way, c, i) == IsChain(way, c) /\ i \in DOMAIN Edges(way, Last(c.objects))

(* The edge at the end of path q is still to be met: up to some object of  *)
(* the stack q goes the way the walk went, and there it turns to an edge   *)
(* the walk has not taken yet.                                             *)
Pending(st, q) ==
  \E k \in 1 .. Len(st) :
    /\ k <= Len(q) /\ q[k] >= st[k].next
    /\ \A j \in 1 .. k - 1 : q[j] = st[j].next - 1

(* Of the direction the walk is in, the rows are those of the other edges. *)
RowsInv(way) ==
  \A r : r \in Range(rows) /\ r.way = way <=>
           \E c, i : /\ ChainEdge(way, c, i) /\ ~ Pending(stack, Append(c.path, i))
                     /\ r = EdgeRow(way, c, i)

(* The path of a frame is the edges taken below it. *)
PathsInv ==
  \A k \in 1 .. Len(stack) :
    /\ Len(stack[k].path) = k - 1
    /\ \A j \in 1 .. k - 1 : stack[k].path[j] = stack[j].next - 1

(* The chain of the walk. *)
WalkChain == [ objects |-> visited, path |-> Top.path ]

WalkRows ==
  /\ want \in {<<"parent">>, <<"child">>, <<"parent", "child">>}
  /\ PathsInv
  /\ stack # << >> => IsChain(want[1], WalkChain)
  /\ RowsInv(want[1])
  /\ want = <<"parent", "child">> => \A r \in Range(rows) : r.way # "child"

GraphInv ==
  /\ rows \in Seq(Range(rows))
  /\ status \in {"idle", "bridge"} => rows = << >>
  /\ status \in {"walking", "done"} => IsInjective(rows)
  /\ status = "walking" => WalkRows

(* A describe in a walk changes no answer of the engine, so the chains and *)
(* the rows stay what they were.                                           *)
LEMMA SameChains ==
  ASSUME root' = root, max_depth' = max_depth, \A o : Describable(o)' <=> Describable(o)
  PROVE  /\ \A way, c : IsChain(way, c)' <=> IsChain(way, c)
         /\ \A way, c, i : ChainEdge(way, c, i)' <=> ChainEdge(way, c, i)
         /\ \A way, c, i : EdgeRow(way, c, i)' = EdgeRow(way, c, i)
  <1>1. \A way, objects, i, j : ChainStep(way, objects, i, j)' <=> ChainStep(way, objects, i, j)
    BY DEF ChainStep
  <1>2. \A way, c : IsChain(way, c)' <=> IsChain(way, c)
    BY <1>1 DEF IsChain
  <1>3. \A way, c, i : ChainEdge(way, c, i)' <=> ChainEdge(way, c, i)
    BY <1>2 DEF ChainEdge
  <1>4. \A way, c, i : EdgeRow(way, c, i)' = EdgeRow(way, c, i)
    BY DEF EdgeRow
  <1> QED
    BY <1>2, <1>3, <1>4

(* q leads to edge i of the last object of c, over edges of its objects. *)
LeadsTo(way, q, c, i) ==
  /\ q \in Seq(Nat) /\ Len(q) = Len(c.objects) /\ Len(q) \in Nat \ {0}
  /\ \A k \in 1 .. Len(c.path) : q[k] = c.path[k]
  /\ q[Len(q)] = i /\ i \in Nat
  /\ \A k \in 1 .. Len(q) : /\ c.objects[k] \in Objects
                            /\ q[k] \in DOMAIN Edges(way, c.objects[k])
                            /\ q[k] \in Nat \ {0}

(* The path to an edge of a chain does. *)
LEMMA EdgePath ==
  ASSUME NEW way, NEW c, NEW i, ChainEdge(way, c, i)
  PROVE  LeadsTo(way, Append(c.path, i), c, i)
  <1> DEFINE q == Append(c.path, i)
  <1>1. IsChain(way, c) /\ i \in DOMAIN Edges(way, Last(c.objects))
    BY DEF ChainEdge
  <1>2. PICK s, objects, l : s = c.path /\ objects = c.objects /\ l = Len(c.path)
    OBVIOUS
  <1>3. /\ l \in Nat /\ Len(objects) = l + 1 /\ Last(objects) = objects[l + 1] /\ l = Len(s)
        /\ Last(objects) \in Objects /\ objects \in Seq(Objects) /\ s \in Seq(Nat)
    BY <1>1, <1>2, ChainEnd
  <1>4. i \in Nat
    BY <1>1, <1>2, <1>3, EdgeLists
  <1>5. q = Append(s, i)
    BY <1>2
  <1> HIDE DEF q
  <1>6. /\ q \in Seq(Nat) /\ Len(q) = l + 1 /\ \A k \in 1 .. l : q[k] = s[k]
        /\ q[l + 1] = i
    BY <1>3, <1>4, <1>5, OneMore
  <1>7. ASSUME NEW k \in 1 .. l + 1
        PROVE  /\ objects[k] \in Objects /\ q[k] \in DOMAIN Edges(way, objects[k])
               /\ q[k] \in Nat \ {0}
    <2>1. objects[k] \in Objects
      BY <1>3, LenProperties
    <2>2. q[k] \in DOMAIN Edges(way, objects[k])
      <3>1. CASE k = l + 1
        BY <1>1, <1>2, <1>3, <1>6, <3>1
      <3>2. CASE k # l + 1
        <4>1. k \in 1 .. l
          BY <1>3, <3>2
        <4>2. ChainStep(way, objects, k, s[k])
          BY <1>1, <1>2, <4>1 DEF IsChain
        <4> QED
          BY <1>6, <4>1, <4>2 DEF ChainStep
      <3> QED
        BY <3>1, <3>2
    <2>3. q[k] \in 1 .. Len(Edges(way, objects[k])) /\ Len(Edges(way, objects[k])) \in Nat
      BY <2>1, <2>2, EdgeLists
    <2>4. \A n \in Nat : \A x \in 1 .. n : x \in Nat \ {0}
      OBVIOUS
    <2>5. q[k] \in Nat \ {0}
      BY <2>3, <2>4, Zenon
    <2> QED
      BY <2>1, <2>2, <2>5, Zenon
  <1>8. Len(q) = l + 1 /\ Len(q) \in Nat \ {0}
    BY <1>3, <1>6
  <1> QED
    BY <1>2, <1>3, <1>4, <1>6, <1>7, <1>8 DEF LeadsTo, q

(* An edge is told by its path. *)
LEMMA SamePath ==
  ASSUME NEW way, NEW c, NEW i, NEW d, NEW j, ChainEdge(way, c, i), ChainEdge(way, d, j),
         Append(c.path, i) = Append(d.path, j)
  PROVE  c = d /\ i = j
  <1>1. PICK q : q = Append(c.path, i) /\ q = Append(d.path, j)
    OBVIOUS
  <1>0. LeadsTo(way, q, c, i) /\ LeadsTo(way, q, d, j)
    <2>1. LeadsTo(way, Append(c.path, i), c, i) /\ LeadsTo(way, Append(d.path, j), d, j)
      BY EdgePath
    <2> QED
      BY <1>1, <2>1
  <1>2. /\ q \in Seq(Nat) /\ Len(q) = Len(c.objects) /\ Len(q) \in Nat \ {0}
        /\ (\A k \in 1 .. Len(c.path) : q[k] = c.path[k]) /\ q[Len(q)] = i
    BY <1>0 DEF LeadsTo
  <1>3. /\ Len(q) = Len(d.objects)
        /\ (\A k \in 1 .. Len(d.path) : q[k] = d.path[k]) /\ q[Len(q)] = j
    BY <1>0 DEF LeadsTo
  <1>4. IsChain(way, c) /\ IsChain(way, d)
    BY DEF ChainEdge
  <1>5. /\ c.objects \in Seq(Objects) /\ c.path \in Seq(Nat) /\ Len(c.objects) = Len(c.path) + 1
        /\ d.objects \in Seq(Objects) /\ d.path \in Seq(Nat) /\ Len(d.objects) = Len(d.path) + 1
        /\ Len(c.path) \in Nat /\ Len(d.path) \in Nat
    BY <1>4, ChainEnd
  <1>6. Len(c.path) = Len(d.path) /\ \A k \in 1 .. Len(c.path) : c.path[k] = d.path[k]
    BY <1>2, <1>3, <1>5
  <1>7. c.path = d.path
    BY <1>5, <1>6, SeqEqual
  <1>8. \A k \in 1 .. Len(q) : c.objects[k] = d.objects[k]
    <2>1. Len(q) \in Nat /\ Len(q) <= Len(c.objects) /\ Len(q) <= Len(d.objects)
      BY <1>2, <1>3
    <2>2. \A k \in 1 .. Len(q) - 1 : c.path[k] = d.path[k]
      BY <1>7
    <2> QED
      BY <1>4, <2>1, <2>2, SamePrefix
  <1>9. c.objects = d.objects
    <2>1. /\ c.objects \in Seq(Objects) /\ d.objects \in Seq(Objects)
          /\ Len(c.objects) = Len(d.objects)
      BY <1>2, <1>3, <1>5
    <2>2. \A k \in 1 .. Len(c.objects) : c.objects[k] = d.objects[k]
      BY <1>2, <1>8
    <2> QED
      BY <2>1, <2>2, SeqEqual
  <1> QED
    BY <1>2, <1>3, <1>4, <1>7, <1>9 DEF IsChain

(* The walk is at an object. *)
AtObject == WalkOK /\ WalkRows /\ status = "walking" /\ stack # << >>

(* It is the last one of the chain, with the path of the chain. *)
LEMMA ObjectOnTop ==
  ASSUME AtObject
  PROVE  /\ Len(stack) \in Nat \ {0} /\ stack \in Seq(Frames)
         /\ Top = stack[Len(stack)] /\ Top \in Frames
         /\ want[1] \in {"parent", "child"} /\ max_depth \in Nat \ {0}
         /\ visited \in Seq(Objects) /\ Len(visited) = Len(stack)
         /\ Last(visited) = Top.object /\ visited[Len(stack)] = Top.object
         /\ Len(Top.path) = Len(stack) - 1
         /\ \A j \in 1 .. Len(stack) - 1 : Top.path[j] = stack[j].next - 1
         /\ \A k \in 1 .. Len(stack) : stack[k] \in Frames
         /\ IsChain(want[1], WalkChain)
  <1>1. /\ stack \in Seq(Frames) /\ stack # << >> /\ visited \in Seq(Objects)
        /\ visited = [ k \in DOMAIN stack |-> stack[k].object ]
        /\ max_depth \in 1 .. kMaxDepth /\ PathsInv /\ IsChain(want[1], WalkChain)
        /\ want \in {<<"parent">>, <<"child">>, <<"parent", "child">>}
    BY DEF AtObject, WalkOK, EngineTypeOK, WalkInv, WalkRows
  <1>2. /\ Len(stack) \in Nat \ {0} /\ Top = stack[Len(stack)] /\ Top \in Frames
    BY <1>1, AdvancedStack
  <1>3. want[1] \in {"parent", "child"}
    BY <1>1
  <1>4. max_depth \in Nat \ {0}
    BY <1>1, MetadataEngineAssumption
  <1>5. DOMAIN stack = 1 .. Len(stack) /\ \A k \in 1 .. Len(stack) : stack[k] \in Frames
    BY <1>1, LenProperties
  <1>6. Len(visited) = Len(stack) /\ visited[Len(stack)] = Top.object
    BY <1>1, <1>2, <1>5
  <1>7. Last(visited) = Top.object
    BY <1>6 DEF Last
  <1>8. Len(stack) \in 1 .. Len(stack)
    BY <1>2
  <1>9. /\ Len(Top.path) = Len(stack) - 1
        /\ \A j \in 1 .. Len(stack) - 1 : Top.path[j] = stack[j].next - 1
    BY <1>1, <1>2, <1>8 DEF PathsInv
  <1> QED
    BY <1>1, <1>2, <1>3, <1>4, <1>5, <1>6, <1>7, <1>9

(* A chain that goes the way of the walk up to the object on top. *)
LEMMA OnTheWay ==
  ASSUME AtObject, NEW c, NEW i, ChainEdge(want[1], c, i), NEW q, LeadsTo(want[1], q, c, i),
         Len(stack) <= Len(q), \A j \in 1 .. Len(stack) - 1 : q[j] = stack[j].next - 1
  PROVE  /\ \A k \in 1 .. Len(stack) : c.objects[k] = visited[k]
         /\ q[Len(stack)] \in DOMAIN Edges(want[1], Top.object)
         /\ SubSeq(c.objects, 1, Len(stack)) = visited
  <1> DEFINE n == Len(stack)
  <1>1. /\ n \in Nat \ {0} /\ visited \in Seq(Objects) /\ Len(visited) = n
        /\ visited[n] = Top.object /\ IsChain(want[1], WalkChain)
        /\ \A j \in 1 .. n - 1 : Top.path[j] = stack[j].next - 1
    BY ObjectOnTop
  <1>3. /\ Len(q) = Len(c.objects) /\ Len(q) \in Nat
        /\ \A k \in 1 .. Len(c.path) : q[k] = c.path[k]
        /\ \A k \in 1 .. Len(q) : q[k] \in DOMAIN Edges(want[1], c.objects[k])
    BY DEF LeadsTo
  <1>4. IsChain(want[1], c)
    BY DEF ChainEdge
  <1>5. /\ c.objects \in Seq(Objects) /\ Len(c.objects) = Len(c.path) + 1 /\ Len(c.path) \in Nat
    BY <1>4, ChainEnd
  <1>6. WalkChain.objects = visited /\ WalkChain.path = Top.path
    BY DEF WalkChain
  <1>7. \A k \in 1 .. n - 1 : c.path[k] = WalkChain.path[k]
    <2> SUFFICES ASSUME NEW k \in 1 .. n - 1 PROVE c.path[k] = WalkChain.path[k]
      OBVIOUS
    <2>1. k \in 1 .. Len(c.path)
      BY <1>1, <1>3, <1>5
    <2> QED
      BY <1>1, <1>3, <1>6, <2>1
  <1>8. n \in Nat /\ n <= Len(c.objects) /\ n <= Len(WalkChain.objects)
    BY <1>1, <1>3, <1>6
  <1>9. \A k \in 1 .. n : c.objects[k] = visited[k]
    <2> HIDE DEF n
    <2>1. \A k \in 1 .. n : c.objects[k] = WalkChain.objects[k]
      BY <1>1, <1>4, <1>7, <1>8, SamePrefix
    <2> QED
      BY <1>6, <2>1
  <1>10. q[n] \in DOMAIN Edges(want[1], Top.object)
    <2>1. n \in 1 .. Len(q) /\ n \in 1 .. n
      BY <1>1, <1>3
    <2> QED
      BY <1>1, <1>3, <1>9, <2>1
  <1>11. SubSeq(c.objects, 1, n) = visited
    <2>1. PICK objects : objects = c.objects
      OBVIOUS
    <2>2. /\ objects \in Seq(Objects) /\ n \in 0 .. Len(objects) /\ n <= Len(visited)
          /\ \A k \in 1 .. n : objects[k] = visited[k]
      BY <1>1, <1>3, <1>5, <1>9, <2>1
    <2> HIDE DEF n
    <2>3. SubSeq(objects, 1, n) = SubSeq(visited, 1, n)
      BY <1>1, <2>2, SameFirst
    <2>4. SubSeq(visited, 1, n) = visited
      BY <1>1, AllElements
    <2> QED
      BY <2>1, <2>3, <2>4
  <1> QED
    BY <1>9, <1>10, <1>11

(* The edge is followed: the walk goes one object deeper. *)
EdgeFollowed ==
  LET e == Edges(want[1], Top.object)[Top.next]
  IN  /\ EdgeStatus(want[1], e, Top.object, visited) = "resolved" /\ Deeper
      /\ Describable(Target(want[1], e))

(* The object the next edge leads to, and the path over it. *)
NextObject == Target(want[1], Edges(want[1], Top.object)[Top.next])

NextPath == Append(Top.path, Top.next)

(* What a step over an edge does to the stack. *)
LEMMA EdgeStack ==
  ASSUME AtObject, WalkEdge
  PROVE  /\ \A k \in 1 .. Len(stack) - 1 : stack'[k] = stack[k]
         /\ stack'[Len(stack)].next = Top.next + 1 /\ stack'[Len(stack)].path = Top.path
         /\ ~ EdgeFollowed => Len(stack') = Len(stack) /\ visited' = visited
         /\ EdgeFollowed => /\ Len(stack') = Len(stack) + 1
                            /\ stack'[Len(stack) + 1] = Frame(NextObject, NextPath)
                            /\ visited' = Append(visited, NextObject) /\ NextObject \in Objects
  <1> DEFINE n == Len(stack)
  <1>1. /\ n \in Nat \ {0} /\ stack \in Seq(Frames) /\ Top = stack[n] /\ Top \in Frames
        /\ want[1] \in {"parent", "child"}
    BY ObjectOnTop
  <1>2. Advanced \in Seq(Frames) /\ Len(Advanced) = n
    BY <1>1, AdvancedStack DEF AtObject
  <1>3. /\ \A k \in 1 .. n - 1 : Advanced[k] = stack[k]
        /\ Advanced[n].next = Top.next + 1 /\ Advanced[n].path = Top.path
    <2>1. PICK f : f = stack[n]
      OBVIOUS
    <2>2. stack \in [ 1 .. n -> Frames ] /\ n \in 1 .. n
      BY <1>1, LenProperties
    <2>3. f = [ object |-> f.object, next |-> f.next, path |-> f.path ]
      BY <1>1, <2>1 DEF Frames
    <2> DEFINE g == [f EXCEPT !.next = f.next + 1]
    <2>4. g.next = f.next + 1 /\ g.path = f.path
      BY <2>3
    <2>5. Advanced = [stack EXCEPT ![n] = g]
      BY <2>1, <2>2 DEF Advanced
    <2> HIDE DEF g
    <2>6. Advanced[n] = g /\ \A k \in 1 .. n - 1 : Advanced[k] = stack[k]
      BY <1>1, <2>2, <2>5
    <2> QED
      BY <1>1, <2>1, <2>4, <2>6
  <1>4. CASE ~ EdgeFollowed
    <2>1. stack' = Advanced /\ visited' = visited
      BY <1>4 DEF WalkEdge, EdgeFollowed
    <2> QED
      BY <1>2, <1>3, <1>4, <2>1
  <1>5. CASE EdgeFollowed
    <2>1. stack' = Append(Advanced, Frame(NextObject, NextPath))
          /\ visited' = Append(visited, NextObject)
      BY <1>5 DEF WalkEdge, EdgeFollowed, NextObject, NextPath
    <2>2. NextObject \in Objects
      BY <1>1, <1>5, ResolvedTarget DEF EdgeFollowed, NextObject
    <2>3. NextPath \in Seq(Nat)
      BY <1>1 DEF NextPath, Frames
    <2> DEFINE f == Frame(NextObject, NextPath)
    <2>4. f \in Frames
      BY <2>2, <2>3 DEF Frame, Frames
    <2>5. stack' = Append(Advanced, f)
      BY <2>1
    <2> HIDE DEF f
    <2>6. /\ Len(stack') = n + 1 /\ stack'[n + 1] = f
          /\ \A k \in 1 .. n : stack'[k] = Advanced[k]
      BY <1>2, <2>4, <2>5, OneMore
    <2>7. \A k \in 1 .. n - 1 : stack'[k] = stack[k]
      BY <1>1, <1>3, <2>6
    <2>8. stack'[n] = Advanced[n]
      BY <1>1, <2>6
    <2> QED
      BY <1>3, <1>5, <2>1, <2>2, <2>6, <2>7, <2>8 DEF f
  <1> QED
    BY <1>4, <1>5

(* What it says of the edge, and what it leaves as it was. *)
LEMMA EdgeSays ==
  ASSUME AtObject, WalkEdge
  PROVE  /\ root' = root /\ max_depth' = max_depth /\ want' = want /\ status' = status
         /\ \A o : Describable(o)' <=> Describable(o)
         /\ rows' = Append(rows, EdgeRow(want[1], WalkChain, Top.next))
         /\ ChainEdge(want[1], WalkChain, Top.next)
  <1> DEFINE e == Edges(want[1], Top.object)[Top.next]
  <1> DEFINE found == EdgeStatus(want[1], e, Top.object, visited)
  <1>1. /\ Len(stack) \in Nat \ {0} /\ Top \in Frames /\ want[1] \in {"parent", "child"}
        /\ Len(visited) = Len(stack) /\ Last(visited) = Top.object
        /\ IsChain(want[1], WalkChain)
    BY ObjectOnTop
  <1>2. UNCHANGED <<down, root, max_depth, want, status>>
    BY DEF WalkEdge
  <1>3. ASSUME NEW o PROVE Describable(o)' <=> Describable(o)
    <2>1. describe_' = describe_ \/ describe_' = Cached(Target(want[1], e))
      BY DEF WalkEdge
    <2> QED
      BY <1>2, <2>1 DEF Describable, Cached
  <1>4. WalkChain.objects = visited /\ WalkChain.path = Top.path
    BY DEF WalkChain
  <1>5. rows' = Append(rows, [ way |-> want[1], path |-> NextPath,
                               status |-> IF /\ found = "resolved" /\ Len(stack) < max_depth
                                             /\ ~ Describable(Target(want[1], e))
                                          THEN "not_describable" ELSE found ])
    BY DEF WalkEdge, Deeper, NextPath
  <1>6. EdgeRow(want[1], WalkChain, Top.next)
          = [ way |-> want[1], path |-> NextPath,
              status |-> IF /\ found = "resolved" /\ Len(stack) < max_depth
                            /\ ~ Describable(Target(want[1], e))
                         THEN "not_describable" ELSE found ]
    BY <1>1, <1>4 DEF EdgeRow, NextPath
  <1>7. Top.next \in DOMAIN Edges(want[1], Top.object)
    <2>1. Top.object \in Objects /\ Top.next \in Nat \ {0}
      BY <1>1 DEF Frames
    <2>2. Top.next <= Len(Edges(want[1], Top.object))
      BY DEF WalkEdge
    <2>3. /\ DOMAIN Edges(want[1], Top.object) = 1 .. Len(Edges(want[1], Top.object))
          /\ Len(Edges(want[1], Top.object)) \in Nat
      BY <2>1, EdgeLists
    <2> QED
      BY <2>1, <2>2, <2>3
  <1>8. ChainEdge(want[1], WalkChain, Top.next)
    BY <1>1, <1>4, <1>7 DEF ChainEdge
  <1> QED
    BY <1>2, <1>3, <1>5, <1>6, <1>8

(* A step over an edge settles that edge and no other one: those behind it *)
(* stay pending exactly when it is followed.                               *)
LEMMA EdgeSettles ==
  ASSUME AtObject, WalkEdge, NEW c, NEW i, ChainEdge(want[1], c, i), NEW q, LeadsTo(want[1], q, c, i)
  PROVE  Pending(stack', q) <=> Pending(stack, q) /\ q # NextPath
  <1> DEFINE n == Len(stack)
  <1> DEFINE x == Top.next
  <1>1. /\ n \in Nat \ {0} /\ Top = stack[n] /\ Top \in Frames /\ Len(Top.path) = n - 1
        /\ \A j \in 1 .. n - 1 : Top.path[j] = stack[j].next - 1
        /\ \A k \in 1 .. n : stack[k] \in Frames
        /\ max_depth \in Nat
    BY ObjectOnTop
  <1>2. /\ \A k \in 1 .. n - 1 : stack'[k] = stack[k]
        /\ stack'[n].next = x + 1
        /\ ~ EdgeFollowed => Len(stack') = n
        /\ EdgeFollowed => Len(stack') = n + 1 /\ stack'[n + 1].next = 1
    BY EdgeStack DEF Frame
  <1>3. x \in Nat \ {0} /\ Top.path \in Seq(Nat)
    BY <1>1 DEF Frames
  <1>4. /\ NextPath \in Seq(Nat) /\ Len(NextPath) = n /\ NextPath[n] = x
        /\ \A j \in 1 .. n - 1 : NextPath[j] = stack[j].next - 1
    <2>1. PICK s : s = Top.path
      OBVIOUS
    <2>2. s \in Seq(Nat) /\ Len(s) = n - 1 /\ NextPath = Append(s, x) /\ x \in Nat
      BY <1>1, <1>3, <2>1 DEF NextPath
    <2>3. /\ Append(s, x) \in Seq(Nat) /\ Len(Append(s, x)) = Len(s) + 1
          /\ \A k \in 1 .. Len(s) : Append(s, x)[k] = s[k]
          /\ Append(s, x)[Len(s) + 1] = x
      <3> HIDE DEF x
      <3> QED
        BY <2>2, OneMore
    <2>4. Len(s) + 1 = n
      BY <1>1, <2>2
    <2> QED
      BY <1>1, <2>1, <2>2, <2>3, <2>4
  <1>6. /\ q \in Seq(Nat) /\ Len(q) \in Nat \ {0} /\ Len(q) = Len(c.objects)
        /\ \A k \in 1 .. Len(q) : q[k] \in Nat \ {0}
        /\ \A k \in 1 .. Len(c.path) : q[k] = c.path[k]
    BY DEF LeadsTo
  <1>7. IsChain(want[1], c) /\ Len(c.objects) = Len(c.path) + 1 /\ Len(c.path) \in Nat
    <2>1. IsChain(want[1], c)
      BY DEF ChainEdge
    <2> QED
      BY <2>1, ChainEnd
  <1>8. \A k \in 1 .. n : stack[k].next \in Nat \ {0}
    BY <1>1 DEF Frames
  <1> HIDE DEF n, x
  <1>9. ASSUME Pending(stack', q) PROVE Pending(stack, q) /\ q # NextPath
    <2>1. PICK k \in 1 .. Len(stack') :
            /\ k <= Len(q) /\ q[k] >= stack'[k].next
            /\ \A j \in 1 .. k - 1 : q[j] = stack'[j].next - 1
      BY <1>9 DEF Pending
    <2>2. CASE k < n
      <3>1. k \in 1 .. n - 1 /\ \A j \in 1 .. k - 1 : j \in 1 .. n - 1
        BY <1>1, <2>2
      <3>2. q[k] >= stack[k].next /\ \A j \in 1 .. k - 1 : q[j] = stack[j].next - 1
        BY <1>2, <2>1, <3>1
      <3>3. Pending(stack, q)
        <4>1. k \in 1 .. Len(stack)
          BY <1>1, <3>1 DEF n
        <4>2. k <= Len(q)
          BY <2>1
        <4> QED
          BY <3>2, <4>1, <4>2 DEF Pending
      <3>4. q[k] # NextPath[k]
        <4>1. k \in 1 .. n /\ stack[k].next \in Nat /\ q[k] \in Nat
          BY <1>1, <1>6, <1>8, <2>1, <3>1
        <4>2. NextPath[k] = stack[k].next - 1
          BY <1>4, <3>1
        <4>3. q[k] >= stack[k].next
          BY <3>2
        <4> QED
          BY <4>1, <4>2, <4>3
      <3> QED
        BY <3>3, <3>4
    <2>3. CASE k = n
      <3>1. \A j \in 1 .. n - 1 : q[j] = stack[j].next - 1
        BY <1>2, <2>1, <2>3
      <3>2. q[n] >= x + 1 /\ q[n] \in Nat
        <4>1. n \in 1 .. Len(q) /\ q[n] >= stack'[n].next
          BY <1>1, <1>6, <2>1, <2>3
        <4> QED
          BY <1>2, <1>6, <4>1
      <3>3. q[n] >= stack[n].next /\ n \in 1 .. n /\ n <= Len(q)
        BY <1>1, <1>3, <2>1, <2>3, <3>2 DEF x
      <3>4. Pending(stack, q)
        BY <3>1, <3>3 DEF Pending, n
      <3>5. q[n] # NextPath[n]
        BY <1>3, <1>4, <3>2
      <3> QED
        BY <3>4, <3>5
    <2>4. CASE k > n
      <3>1. EdgeFollowed /\ k = n + 1
        BY <1>1, <1>2, <2>1, <2>4
      <3>2. n \in 1 .. k - 1 /\ \A j \in 1 .. n - 1 : j \in 1 .. k - 1
        BY <1>1, <3>1
      <3>3. q[n] = x /\ \A j \in 1 .. n - 1 : q[j] = stack[j].next - 1
        <4>1. q[n] = stack'[n].next - 1
          BY <2>1, <3>2
        <4>2. ASSUME NEW j \in 1 .. n - 1 PROVE q[j] = stack[j].next - 1
          <5>1. q[j] = stack'[j].next - 1 /\ stack'[j] = stack[j]
            BY <1>2, <2>1, <3>2
          <5> QED
            BY <5>1
        <4>3. stack'[n].next = x + 1
          BY <1>2
        <4>4. q[n] = x
          BY <1>3, <4>1, <4>3
        <4> QED
          BY <4>2, <4>4
      <3>4. q[n] >= stack[n].next /\ n \in 1 .. n /\ n <= Len(q) /\ Len(q) # n
        BY <1>1, <1>3, <1>6, <2>1, <3>1, <3>3 DEF x
      <3>5. Pending(stack, q)
        BY <3>3, <3>4 DEF Pending, n
      <3>6. q # NextPath
        BY <1>4, <3>4
      <3> QED
        BY <3>5, <3>6
    <2>5. k \in Nat
      <3>1. Len(stack') \in Nat
        BY <1>1, <1>2
      <3> QED
        BY <3>1
    <2> QED
      BY <1>1, <2>2, <2>3, <2>4, <2>5
  <1>10. ASSUME Pending(stack, q), q # NextPath PROVE Pending(stack', q)
    <2>1. PICK k \in 1 .. n :
            /\ k <= Len(q) /\ q[k] >= stack[k].next
            /\ \A j \in 1 .. k - 1 : q[j] = stack[j].next - 1
      BY <1>10 DEF Pending, n
    <2>2. Len(stack') \in Nat /\ n <= Len(stack')
      BY <1>1, <1>2
    <2>3. CASE k < n
      <3>1. k \in 1 .. n - 1 /\ \A j \in 1 .. k - 1 : j \in 1 .. n - 1
        BY <1>1, <2>3
      <3>2. q[k] >= stack'[k].next /\ \A j \in 1 .. k - 1 : q[j] = stack'[j].next - 1
        BY <1>2, <2>1, <3>1
      <3>3. k \in 1 .. Len(stack')
        BY <1>1, <2>2, <3>1
      <3> QED
        BY <2>1, <3>2, <3>3 DEF Pending
    <2>4. CASE k = n
      <3>1. \A j \in 1 .. n - 1 : q[j] = stack[j].next - 1 /\ q[j] = stack'[j].next - 1
        BY <1>2, <2>1, <2>4
      <3>2. n <= Len(q) /\ q[n] >= x /\ q[n] \in Nat
        BY <1>1, <1>6, <2>1, <2>4 DEF x
      <3>3. CASE q[n] # x
        <4>1. q[n] >= stack'[n].next
          <5>1. stack'[n].next = x + 1
            BY <1>2
          <5> QED
            BY <1>3, <3>2, <3>3, <5>1
        <4>2. n \in 1 .. Len(stack')
          BY <1>1, <2>2
        <4> QED
          BY <3>1, <3>2, <4>1, <4>2 DEF Pending
      <3>4. CASE q[n] = x
        <4>1. Len(q) > n
          <5>1. ASSUME Len(q) = n PROVE FALSE
            <6>1. ASSUME NEW j \in 1 .. n PROVE q[j] = NextPath[j]
              <7>1. j = n \/ j \in 1 .. n - 1
                BY <1>1
              <7> QED
                BY <1>4, <3>1, <3>4, <7>1
            <6>2. q = NextPath
              BY <1>4, <1>6, <5>1, <6>1, SeqEqual
            <6> QED
              BY <1>10, <6>2
          <5>2. Len(q) \in Nat /\ n \in Nat /\ n <= Len(q) /\ Len(q) # n
            BY <1>1, <1>6, <3>2, <5>1
          <5> QED
            BY <5>2
        <4>2. n \in 1 .. Len(c.path) /\ c.path[n] = x
          <5>1. Len(q) = Len(c.path) + 1 /\ Len(c.path) \in Nat /\ n \in Nat \ {0}
            BY <1>1, <1>6, <1>7
          <5>2. n \in 1 .. Len(c.path)
            BY <4>1, <5>1
          <5> QED
            BY <1>6, <3>4, <5>2
        <4>3. ChainStep(want[1], c.objects, n, x) /\ Len(c.objects) <= max_depth
          BY <1>7, <4>2 DEF IsChain
        <4>4. /\ \A m \in 1 .. n : c.objects[m] = visited[m]
              /\ SubSeq(c.objects, 1, n) = visited
          BY <3>1, <3>2, OnTheWay DEF n
        <4>5. c.objects[n] = Top.object
          <5>1. visited[n] = Top.object /\ n \in 1 .. n
            BY <1>1, ObjectOnTop DEF n
          <5> QED
            BY <4>4, <5>1
        <4>6. Len(stack) < max_depth
          BY <1>1, <1>6, <4>1, <4>3 DEF n
        <4>7. EdgeFollowed
          BY <4>3, <4>4, <4>5, <4>6 DEF EdgeFollowed, ChainStep, Deeper, x
        <4>8. Len(stack') = n + 1 /\ stack'[n + 1].next = 1
          BY <1>2, <4>7
        <4>9. n + 1 \in 1 .. Len(stack') /\ n + 1 <= Len(q) /\ q[n + 1] >= 1
          BY <1>1, <1>6, <4>1, <4>8
        <4>10. ASSUME NEW j \in 1 .. n PROVE q[j] = stack'[j].next - 1
          <5>1. j = n \/ j \in 1 .. n - 1
            BY <1>1
          <5>2. CASE j = n
            <6>1. stack'[n].next = x + 1
              BY <1>2
            <6> QED
              BY <1>3, <3>4, <5>2, <6>1
          <5>3. CASE j \in 1 .. n - 1
            BY <3>1, <5>3
          <5> QED
            BY <5>1, <5>2, <5>3
        <4>11. PICK m : m = n + 1 /\ m - 1 = n
          BY <1>1
        <4>12. /\ m \in 1 .. Len(stack') /\ m <= Len(q) /\ q[m] >= stack'[m].next
               /\ \A j \in 1 .. m - 1 : q[j] = stack'[j].next - 1
          BY <4>8, <4>9, <4>10, <4>11
        <4> QED
          BY <4>12 DEF Pending
      <3> QED
        BY <3>3, <3>4
    <2> QED
      BY <1>1, <2>1, <2>3, <2>4
  <1> QED
    BY <1>9, <1>10

(* The edge it settles was pending. *)
LEMMA NextPending ==
  ASSUME AtObject
  PROVE  Pending(stack, NextPath)
  <1> DEFINE n == Len(stack)
  <1>1. /\ n \in Nat \ {0} /\ Top = stack[n] /\ Top \in Frames /\ Len(Top.path) = n - 1
        /\ \A j \in 1 .. n - 1 : Top.path[j] = stack[j].next - 1
    BY ObjectOnTop
  <1>2. PICK s, x : s = Top.path /\ x = Top.next
    OBVIOUS
  <1>3. s \in Seq(Nat) /\ Len(s) = n - 1 /\ x \in Nat /\ NextPath = Append(s, x)
    BY <1>1, <1>2 DEF NextPath, Frames
  <1>4. /\ Len(Append(s, x)) = Len(s) + 1 /\ Append(s, x)[Len(s) + 1] = x
        /\ \A k \in 1 .. Len(s) : Append(s, x)[k] = s[k]
    BY <1>3, OneMore
  <1>5. Len(s) + 1 = n
    BY <1>1, <1>3
  <1>6. /\ n <= Len(NextPath) /\ NextPath[n] >= stack[n].next /\ n \in 1 .. Len(stack)
        /\ \A j \in 1 .. n - 1 : NextPath[j] = stack[j].next - 1
    BY <1>1, <1>2, <1>3, <1>4, <1>5
  <1> QED
    BY <1>6 DEF Pending

(* Nothing that is behind an object is pending when the walk leaves it. *)
LEMMA ReturnSettles ==
  ASSUME AtObject, WalkReturn, NEW c, NEW i, ChainEdge(want[1], c, i), NEW q, LeadsTo(want[1], q, c, i),
         Len(stack') = Len(stack) - 1, \A k \in 1 .. Len(stack) - 1 : stack'[k] = stack[k]
  PROVE  Pending(stack', q) <=> Pending(stack, q)
  <1> DEFINE n == Len(stack)
  <1>1. n \in Nat \ {0} /\ Top = stack[n] /\ Top \in Frames
    BY ObjectOnTop
  <1>2. ASSUME Pending(stack', q) PROVE Pending(stack, q)
    <2>1. PICK k \in 1 .. Len(stack') :
            /\ k <= Len(q) /\ q[k] >= stack'[k].next
            /\ \A j \in 1 .. k - 1 : q[j] = stack'[j].next - 1
      BY <1>2 DEF Pending
    <2>2. k \in 1 .. n - 1 /\ k \in 1 .. n /\ \A j \in 1 .. k - 1 : j \in 1 .. n - 1
      BY <1>1, <2>1
    <2>3. q[k] >= stack[k].next /\ \A j \in 1 .. k - 1 : q[j] = stack[j].next - 1
      BY <2>1, <2>2
    <2> QED
      BY <2>1, <2>2, <2>3 DEF Pending
  <1>3. ASSUME Pending(stack, q) PROVE Pending(stack', q)
    <2>1. PICK k \in 1 .. n :
            /\ k <= Len(q) /\ q[k] >= stack[k].next
            /\ \A j \in 1 .. k - 1 : q[j] = stack[j].next - 1
      BY <1>3 DEF Pending
    <2>2. k # n
      <3>1. ASSUME k = n PROVE FALSE
        <4>1. q[n] \in DOMAIN Edges(want[1], Top.object)
          BY <2>1, <3>1, OnTheWay
        <4>2. Top.object \in Objects /\ Top.next \in Nat
          BY <1>1 DEF Frames
        <4>3. q[n] \in 1 .. Len(Edges(want[1], Top.object))
              /\ Len(Edges(want[1], Top.object)) \in Nat
          BY <4>1, <4>2, EdgeLists
        <4>4. q[n] >= Top.next /\ Top.next > Len(Edges(want[1], Top.object))
          BY <1>1, <2>1, <3>1 DEF WalkReturn
        <4> QED
          <5>1. PICK y, z, l : y = q[n] /\ z = Top.next /\ l = Len(Edges(want[1], Top.object))
            OBVIOUS
          <5>2. l \in Nat /\ z \in Nat /\ y \in 1 .. l /\ y >= z /\ z > l
            BY <4>2, <4>3, <4>4, <5>1
          <5> QED
            BY <5>2
      <3> QED
        BY <3>1
    <2>3. k \in 1 .. n - 1 /\ k \in 1 .. Len(stack') /\ \A j \in 1 .. k - 1 : j \in 1 .. n - 1
      BY <1>1, <2>1, <2>2
    <2>4. q[k] >= stack'[k].next /\ \A j \in 1 .. k - 1 : q[j] = stack'[j].next - 1
      BY <2>1, <2>3
    <2> QED
      BY <2>1, <2>3, <2>4 DEF Pending
  <1> QED
    BY <1>2, <1>3

(* At the start of a direction everything is pending. *)
LEMMA StartPending ==
  ASSUME NEW way, NEW c, NEW i, ChainEdge(way, c, i), NEW o
  PROVE  Pending(<< Frame(o, << >>) >>, Append(c.path, i))
  <1> DEFINE q == Append(c.path, i)
  <1> DEFINE st == << Frame(o, << >>) >>
  <1>1. LeadsTo(way, q, c, i)
    BY EdgePath
  <1> HIDE DEF q
  <1>2. Len(q) \in Nat \ {0} /\ \A k \in 1 .. Len(q) : q[k] \in Nat \ {0}
    BY <1>1 DEF LeadsTo
  <1>3. Len(st) = 1 /\ st[1].next = 1
    BY DEF Frame
  <1> HIDE DEF st
  <1>4. 1 \in 1 .. Len(st) /\ 1 <= Len(q) /\ q[1] >= st[1].next
    BY <1>2, <1>3
  <1>5. \A j \in 1 .. 1 - 1 : q[j] = st[j].next - 1
    OBVIOUS
  <1>6. Pending(st, q)
    BY <1>4, <1>5 DEF Pending
  <1> QED
    BY <1>6 DEF st, q

(* One row more. *)
LEMMA OneMoreRow ==
  ASSUME NEW s, s \in Seq(Range(s)), NEW x
  PROVE  /\ Append(s, x) \in Seq(Range(Append(s, x)))
         /\ \A r : r \in Range(Append(s, x)) <=> r \in Range(s) \/ r = x
         /\ IsInjective(s) /\ x \notin Range(s) => IsInjective(Append(s, x))
  <1>1. PICK S : S = Range(s) \union {x}
    OBVIOUS
  <1>2. s \in Seq(S) /\ x \in S
    BY <1>1
  <1>3. PICK t : t = Append(s, x)
    OBVIOUS
  <1>4. /\ t \in Seq(S) /\ Len(t) = Len(s) + 1 /\ Len(s) \in Nat
        /\ (\A k \in 1 .. Len(s) : t[k] = s[k]) /\ t[Len(s) + 1] = x
    BY <1>2, <1>3, OneMore
  <1>5. DOMAIN s = 1 .. Len(s) /\ DOMAIN t = 1 .. Len(s) + 1
    BY <1>2, <1>4, LenProperties
  <1>6. ASSUME NEW r PROVE r \in Range(t) <=> r \in Range(s) \/ r = x
    <2>1. ASSUME r \in Range(t) PROVE r \in Range(s) \/ r = x
      <3>1. PICK k \in 1 .. Len(s) + 1 : r = t[k]
        BY <1>5, <2>1 DEF Range
      <3>2. k = Len(s) + 1 \/ k \in 1 .. Len(s)
        BY <1>4
      <3> QED
        BY <1>4, <1>5, <3>1, <3>2 DEF Range
    <2>2. ASSUME r \in Range(s) PROVE r \in Range(t)
      <3>1. PICK k \in 1 .. Len(s) : r = s[k]
        BY <1>5, <2>2 DEF Range
      <3>2. k \in 1 .. Len(s) + 1 /\ r = t[k]
        BY <1>4, <3>1
      <3> QED
        BY <1>5, <3>2 DEF Range
    <2>3. x \in Range(t)
      <3>1. Len(s) + 1 \in 1 .. Len(s) + 1
        BY <1>4
      <3> QED
        BY <1>4, <1>5, <3>1 DEF Range
    <2> QED
      BY <2>1, <2>2, <2>3
  <1>7. Range(t) = S
    BY <1>1, <1>6
  <1>8. ASSUME IsInjective(s), x \notin Range(s) PROVE IsInjective(t)
    <2>1. \A k \in 1 .. Len(s) : s[k] # x
      BY <1>5, <1>8 DEF Range
    <2>2. ASSUME NEW a \in 1 .. Len(s) + 1, NEW b \in 1 .. Len(s) + 1, t[a] = t[b] PROVE a = b
      <3>1. a = Len(s) + 1 \/ a \in 1 .. Len(s)
        BY <1>4
      <3>2. b = Len(s) + 1 \/ b \in 1 .. Len(s)
        BY <1>4
      <3>3. CASE a \in 1 .. Len(s) /\ b \in 1 .. Len(s)
        <4>1. s[a] = s[b]
          BY <1>4, <2>2, <3>3
        <4> QED
          BY <1>5, <1>8, <3>3, <4>1 DEF IsInjective
      <3>4. CASE a = Len(s) + 1
        BY <1>4, <2>1, <2>2, <3>2, <3>4
      <3>5. CASE b = Len(s) + 1
        BY <1>4, <2>1, <2>2, <3>1, <3>5
      <3> QED
        BY <3>1, <3>2, <3>3, <3>4, <3>5
    <2> QED
      BY <1>5, <2>2 DEF IsInjective
  <1> QED
    BY <1>3, <1>4, <1>6, <1>7, <1>8

(* The path of a row tells its edge. *)
LEMMA RowPath == \A way, c, i : EdgeRow(way, c, i).path = Append(c.path, i)
                                /\ EdgeRow(way, c, i).way = way
  BY DEF EdgeRow

(* The rows after a step over an edge. *)
LEMMA EdgeRows ==
  ASSUME AtObject, WalkEdge, rows \in Seq(Range(rows)), IsInjective(rows)
  PROVE  /\ rows' \in Seq(Range(rows')) /\ IsInjective(rows')
         /\ \A r : r \in Range(rows') <=>
                     r \in Range(rows) \/ r = EdgeRow(want[1], WalkChain, Top.next)
         /\ RowsInv(want[1])'
  <1>1. PICK way, row : way = want[1] /\ row = EdgeRow(way, WalkChain, Top.next)
    OBVIOUS
  <1>2. /\ root' = root /\ max_depth' = max_depth /\ want' = want
        /\ \A o : Describable(o)' <=> Describable(o)
        /\ rows' = Append(rows, row) /\ ChainEdge(way, WalkChain, Top.next)
    BY <1>1, EdgeSays
  <1>3. WalkChain.path = Top.path
    BY DEF WalkChain
  <1>4. row.path = NextPath /\ row.way = way
    BY <1>1, <1>3, RowPath DEF NextPath
  <1>5. RowsInv(way)
    BY <1>1 DEF AtObject, WalkRows
  <1>6. row \notin Range(rows)
    <2> SUFFICES ASSUME row \in Range(rows) PROVE FALSE
      OBVIOUS
    <2>1. PICK c, i : /\ ChainEdge(way, c, i) /\ ~ Pending(stack, Append(c.path, i))
                      /\ row = EdgeRow(way, c, i)
      BY <1>4, <1>5 DEF RowsInv
    <2>2. Append(c.path, i) = NextPath
      BY <1>4, <2>1, RowPath
    <2> QED
      BY <2>1, <2>2, NextPending
  <1>7. /\ rows' \in Seq(Range(rows')) /\ IsInjective(rows')
        /\ \A r : r \in Range(rows') <=> r \in Range(rows) \/ r = row
    <2>1. /\ Append(rows, row) \in Seq(Range(Append(rows, row)))
          /\ IsInjective(Append(rows, row))
          /\ \A r : r \in Range(Append(rows, row)) <=> r \in Range(rows) \/ r = row
      BY <1>6, OneMoreRow
    <2> QED
      BY <1>2, <2>1
  <1>8. ASSUME NEW c, NEW i, ChainEdge(way, c, i)
        PROVE  Pending(stack', Append(c.path, i)) <=>
                 Pending(stack, Append(c.path, i)) /\ Append(c.path, i) # NextPath
    <2>1. PICK q : q = Append(c.path, i)
      OBVIOUS
    <2>2. LeadsTo(want[1], q, c, i) /\ ChainEdge(want[1], c, i)
      BY <1>1, <1>8, <2>1, EdgePath
    <2>3. Pending(stack', q) <=> Pending(stack, q) /\ q # NextPath
      BY <2>2, EdgeSettles
    <2> QED
      BY <2>1, <2>3
  <1>9. ASSUME NEW r
        PROVE  r \in Range(rows') /\ r.way = way <=>
                 \E c, i : /\ ChainEdge(way, c, i) /\ ~ Pending(stack', Append(c.path, i))
                           /\ r = EdgeRow(way, c, i)
    <2>1. ASSUME r \in Range(rows), r.way = way
          PROVE  \E c, i : /\ ChainEdge(way, c, i) /\ ~ Pending(stack', Append(c.path, i))
                           /\ r = EdgeRow(way, c, i)
      <3>1. PICK c, i : /\ ChainEdge(way, c, i) /\ ~ Pending(stack, Append(c.path, i))
                        /\ r = EdgeRow(way, c, i)
        BY <1>5, <2>1 DEF RowsInv
      <3> QED
        BY <1>8, <3>1
    <2>2. ASSUME r = row
          PROVE  \E c, i : /\ ChainEdge(way, c, i) /\ ~ Pending(stack', Append(c.path, i))
                           /\ r = EdgeRow(way, c, i)
      <3>1. ChainEdge(way, WalkChain, Top.next) /\ Append(WalkChain.path, Top.next) = NextPath
        BY <1>2, <1>3 DEF NextPath
      <3>2. PICK c, i : c = WalkChain /\ i = Top.next
        OBVIOUS
      <3>3. ChainEdge(way, c, i) /\ Append(c.path, i) = NextPath /\ r = EdgeRow(way, c, i)
        BY <1>1, <2>2, <3>1, <3>2
      <3>4. ~ Pending(stack', Append(c.path, i))
        BY <1>8, <3>3
      <3> QED
        BY <3>3, <3>4
    <2>3. ASSUME NEW c, NEW i, ChainEdge(way, c, i), ~ Pending(stack', Append(c.path, i)),
                 r = EdgeRow(way, c, i)
          PROVE  r \in Range(rows') /\ r.way = way
      <3>1. r.way = way
        BY <2>3, RowPath
      <3>2. CASE Append(c.path, i) = NextPath
        <4>1. c = WalkChain /\ i = Top.next
          <5>1. PICK d, j : d = WalkChain /\ j = Top.next
            OBVIOUS
          <5>2. ChainEdge(way, d, j) /\ Append(c.path, i) = Append(d.path, j)
            BY <1>2, <1>3, <3>2, <5>1 DEF NextPath
          <5>3. c = d /\ i = j
            BY <2>3, <5>2, SamePath
          <5> QED
            BY <5>1, <5>3
        <4> QED
          BY <1>1, <1>7, <2>3, <3>1, <4>1
      <3>3. CASE Append(c.path, i) # NextPath
        <4>1. ~ Pending(stack, Append(c.path, i))
          BY <1>8, <2>3, <3>3
        <4>2. r \in Range(rows)
          BY <1>5, <2>3, <4>1 DEF RowsInv
        <4> QED
          BY <1>7, <3>1, <4>2
      <3> QED
        BY <3>2, <3>3
    <2>4. r \in Range(rows') /\ r.way = way =>
            \E c, i : /\ ChainEdge(way, c, i) /\ ~ Pending(stack', Append(c.path, i))
                      /\ r = EdgeRow(way, c, i)
      BY <1>7, <2>1, <2>2
    <2>5. (\E c, i : /\ ChainEdge(way, c, i) /\ ~ Pending(stack', Append(c.path, i))
                     /\ r = EdgeRow(way, c, i)) => r \in Range(rows') /\ r.way = way
      BY <2>3
    <2> QED
      BY <2>4, <2>5
  <1>10. /\ \A c, i : ChainEdge(way, c, i)' <=> ChainEdge(way, c, i)
         /\ \A c, i : EdgeRow(way, c, i)' = EdgeRow(way, c, i)
    BY <1>2, SameChains
  <1>11. RowsInv(way)'
    BY <1>9, <1>10 DEF RowsInv
  <1>12. want'[1] = way
    BY <1>1, <1>2
  <1>13. RowsInv(want[1])'
    BY <1>11, <1>12
  <1> QED
    BY <1>1, <1>7, <1>13

(* A step over an edge keeps what is known of the walk. *)
LEMMA EdgeKeepsRows ==
  ASSUME AtObject, WalkEdge, rows \in Seq(Range(rows)), IsInjective(rows)
  PROVE  WalkRows' /\ rows' \in Seq(Range(rows')) /\ IsInjective(rows')
  <1> DEFINE n == Len(stack)
  <1>1. /\ n \in Nat \ {0} /\ Top = stack[n] /\ Top \in Frames /\ Len(Top.path) = n - 1
        /\ \A j \in 1 .. n - 1 : Top.path[j] = stack[j].next - 1
        /\ want[1] \in {"parent", "child"} /\ max_depth \in Nat
        /\ visited \in Seq(Objects) /\ Len(visited) = n /\ Last(visited) = Top.object
        /\ IsChain(want[1], WalkChain)
    BY ObjectOnTop
  <1>2. /\ \A k \in 1 .. n - 1 : stack'[k] = stack[k]
        /\ stack'[n].next = Top.next + 1 /\ stack'[n].path = Top.path
        /\ ~ EdgeFollowed => Len(stack') = n /\ visited' = visited
        /\ EdgeFollowed => /\ Len(stack') = n + 1 /\ stack'[n + 1] = Frame(NextObject, NextPath)
                           /\ visited' = Append(visited, NextObject) /\ NextObject \in Objects
    BY EdgeStack
  <1>3. /\ root' = root /\ max_depth' = max_depth /\ want' = want
        /\ \A o : Describable(o)' <=> Describable(o)
        /\ ChainEdge(want[1], WalkChain, Top.next)
    BY EdgeSays
  <1>4. PICK s, x : s = Top.path /\ x = Top.next
    OBVIOUS
  <1>5. s \in Seq(Nat) /\ Len(s) = n - 1 /\ x \in Nat /\ NextPath = Append(s, x)
    BY <1>1, <1>4 DEF NextPath, Frames
  <1>6. /\ Len(Append(s, x)) = Len(s) + 1 /\ Append(s, x)[Len(s) + 1] = x
        /\ \A k \in 1 .. Len(s) : Append(s, x)[k] = s[k]
    BY <1>5, OneMore
  <1>7. Len(s) + 1 = n
    BY <1>1, <1>5
  <1>8. Len(NextPath) = n /\ NextPath[n] = x /\ \A k \in 1 .. n - 1 : NextPath[k] = s[k]
    BY <1>5, <1>6, <1>7
  <1>9. ASSUME NEW k \in 1 .. Len(stack')
        PROVE  /\ Len(stack'[k].path) = k - 1
               /\ \A j \in 1 .. k - 1 : stack'[k].path[j] = stack'[j].next - 1
    <2> HIDE DEF n
    <2>1. Len(stack') \in {n, n + 1} /\ k \in Nat /\ (k = n + 1 => EdgeFollowed)
      BY <1>1, <1>2
    <2>2. CASE k \in 1 .. n - 1
      <3>1. k \in 1 .. Len(stack)
        BY <1>1, <2>2 DEF n
      <3>2. /\ Len(stack[k].path) = k - 1
            /\ \A j \in 1 .. k - 1 : stack[k].path[j] = stack[j].next - 1
        BY <3>1 DEF AtObject, WalkRows, PathsInv
      <3>3. \A j \in 1 .. k - 1 : j \in 1 .. n - 1
        BY <1>1, <2>2
      <3> QED
        BY <1>2, <2>2, <3>2, <3>3
    <2>3. CASE k = n
      BY <1>1, <1>2, <2>3
    <2>4. CASE k = n + 1
      <3>1. stack'[k].path = NextPath
        BY <1>2, <2>1, <2>4 DEF Frame
      <3>2. ASSUME NEW j \in 1 .. n PROVE NextPath[j] = stack'[j].next - 1
        <4>1. j = n \/ j \in 1 .. n - 1
          BY <1>1
        <4>2. CASE j = n
          <5>1. stack'[n].next = x + 1
            BY <1>2, <1>4
          <5> QED
            BY <1>5, <1>8, <4>2, <5>1
        <4>3. CASE j \in 1 .. n - 1
          BY <1>1, <1>2, <1>4, <1>8, <4>3
        <4> QED
          BY <4>1, <4>2, <4>3
      <3>3. k - 1 = n
        BY <1>1, <2>4
      <3> QED
        BY <1>8, <3>1, <3>2, <3>3
    <2> QED
      BY <1>1, <2>1, <2>2, <2>3, <2>4
  <1>10. PathsInv'
    BY <1>9 DEF PathsInv
  <1>11. IsChain(want[1], WalkChain)'
    <2>1. PICK way, c : way = want[1] /\ c = WalkChain
      OBVIOUS
    <2>2. c.objects = visited /\ c.path = Top.path
      BY <2>1 DEF WalkChain
    <2>3. IsChain(way, c) /\ ChainEdge(way, c, x)
      BY <1>1, <1>3, <1>4, <2>1
    <2>4. CASE ~ EdgeFollowed
      <3>1. Top' = stack'[n]
        BY <1>2, <2>4 DEF Top, Last
      <3>2. WalkChain' = c
        BY <1>2, <2>1, <2>4, <3>1 DEF WalkChain
      <3>3. IsChain(way, c)'
        BY <1>3, <2>3, SameChains
      <3>4. want'[1] = way
        BY <1>3, <2>1
      <3> QED
        BY <3>2, <3>3, <3>4
    <2>5. CASE EdgeFollowed
      <3>1. Top' = stack'[n + 1]
        BY <1>2, <2>5 DEF Top, Last
      <3>2. Top'.path = NextPath
        BY <1>2, <2>5, <3>1 DEF Frame
      <3>3. WalkChain' = [ objects |-> Append(visited, NextObject), path |-> NextPath ]
        BY <1>2, <2>5, <3>2 DEF WalkChain
      <3>4. Extended(way, c, x) = [ objects |-> Append(visited, NextObject), path |-> NextPath ]
        BY <1>1, <1>4, <1>5, <2>1, <2>2 DEF Extended, NextObject
      <3>5. Extends(way, c, x) /\ Len(c.objects) < max_depth
        BY <1>1, <1>4, <2>1, <2>2, <2>3, <2>5 DEF Extends, EdgeFollowed, ChainEdge, Deeper
      <3>6. IsChain(way, Extended(way, c, x))
        BY <1>1, <2>1, <2>3, <3>5, ExtendChain
      <3>7. PICK d : d = Extended(way, c, x)
        OBVIOUS
      <3>8. IsChain(way, d)'
        BY <1>3, <3>6, <3>7, SameChains
      <3>9. WalkChain' = d /\ want'[1] = way
        BY <1>3, <2>1, <3>3, <3>4, <3>7
      <3> QED
        BY <3>8, <3>9
    <2> QED
      BY <2>4, <2>5
  <1>12. /\ rows' \in Seq(Range(rows')) /\ IsInjective(rows')
         /\ \A r : r \in Range(rows') <=>
                     r \in Range(rows) \/ r = EdgeRow(want[1], WalkChain, Top.next)
         /\ RowsInv(want[1])'
    BY EdgeRows
  <1>13. /\ want' \in {<<"parent">>, <<"child">>, <<"parent", "child">>}
         /\ want' = <<"parent", "child">> => \A r \in Range(rows') : r.way # "child"
    <2>1. /\ want \in {<<"parent">>, <<"child">>, <<"parent", "child">>}
          /\ want = <<"parent", "child">> => \A r \in Range(rows) : r.way # "child"
      BY DEF AtObject, WalkRows
    <2>2. EdgeRow(want[1], WalkChain, Top.next).way = want[1]
      BY RowPath
    <2> QED
      BY <1>3, <1>12, <2>1, <2>2
  <1> QED
    BY <1>10, <1>11, <1>12, <1>13 DEF WalkRows

(* The walk leaves an object. *)
LEMMA ReturnKeepsRows ==
  ASSUME AtObject, WalkReturn
  PROVE  WalkRows' /\ rows' = rows
  <1> DEFINE n == Len(stack)
  <1>1. /\ n \in Nat \ {0} /\ stack \in Seq(Frames) /\ Top = stack[n] /\ Len(Top.path) = n - 1
        /\ \A j \in 1 .. n - 1 : Top.path[j] = stack[j].next - 1
        /\ max_depth \in Nat /\ visited \in Seq(Objects) /\ Len(visited) = n
        /\ IsChain(want[1], WalkChain) /\ \A k \in 1 .. n : stack[k] \in Frames
    BY ObjectOnTop
  <1>2. /\ stack' = SubSeq(stack, 1, n - 1) /\ visited' = SubSeq(visited, 1, n - 1)
        /\ UNCHANGED <<down, describe_, root, max_depth, want, rows, status>>
    BY <1>1 DEF WalkReturn, Front, engine
  <1>3. /\ Len(stack') = n - 1 /\ \A k \in 1 .. n - 1 : stack'[k] = stack[k]
    <2>1. stack # << >>
      BY DEF AtObject
    <2> QED
      BY <1>1, <1>2, <2>1, AllButLast
  <1>4. PathsInv
    BY DEF AtObject, WalkRows
  <1>5. ASSUME NEW k \in 1 .. n - 1
        PROVE  /\ Len(stack'[k].path) = k - 1
               /\ \A j \in 1 .. k - 1 : stack'[k].path[j] = stack'[j].next - 1
    <2>1. k \in 1 .. Len(stack) /\ \A j \in 1 .. k - 1 : j \in 1 .. n - 1
      BY <1>1
    <2>2. /\ Len(stack[k].path) = k - 1
          /\ \A j \in 1 .. k - 1 : stack[k].path[j] = stack[j].next - 1
      BY <1>4, <2>1 DEF PathsInv
    <2> QED
      BY <1>3, <2>1, <2>2
  <1>6. PathsInv'
    BY <1>3, <1>5 DEF PathsInv
  <1>7. \A o : Describable(o)' <=> Describable(o)
    BY <1>2 DEF Describable
  <1>8. /\ \A way, c : IsChain(way, c)' <=> IsChain(way, c)
        /\ \A way, c, i : ChainEdge(way, c, i)' <=> ChainEdge(way, c, i)
        /\ \A way, c, i : EdgeRow(way, c, i)' = EdgeRow(way, c, i)
    BY <1>2, <1>7, SameChains
  <1>9. PICK way, c : way = want[1] /\ c = WalkChain
    OBVIOUS
  <1>10. want'[1] = way
    BY <1>2, <1>9
  <1>11. ASSUME stack' # << >> PROVE IsChain(want[1], WalkChain)'
    <2>1. c.objects = visited /\ c.path = Top.path /\ IsChain(way, c)
      BY <1>1, <1>9 DEF WalkChain
    <2>2. n - 1 # 0 /\ n - 1 \in 1 .. n - 1
      <3>1. stack' \in Seq(Frames)
        <4>1. stack # << >>
          BY DEF AtObject
        <4> QED
          BY <1>1, <1>2, <4>1, AllButLast
      <3>2. Len(stack') # 0
        BY <1>11, <3>1
      <3> QED
        BY <1>1, <1>3, <3>2
    <2>3. PICK m : m = n - 1
      OBVIOUS
    <2>4. m \in 1 .. Len(c.path)
      BY <1>1, <2>1, <2>2, <2>3
    <2>5. IsChain(way, FirstOf(c, m))
      BY <1>1, <2>1, <2>4, PrefixChain
    <2>6. Top' = stack[m]
      BY <1>3, <2>2, <2>3 DEF Top, Last
    <2>7. stack[m].path = SubSeq(c.path, 1, m - 1)
      <3>1. PICK s, t : s = c.path /\ t = stack[m].path
        OBVIOUS
      <3>2. m \in 1 .. n /\ m \in 1 .. Len(stack)
        BY <1>1, <2>2, <2>3
      <3>3. s \in Seq(Nat) /\ t \in Seq(Nat) /\ Len(s) = n - 1
        BY <1>1, <2>1, <3>1, <3>2, ChainEnd DEF Frames
      <3>4. /\ Len(t) = m - 1 /\ \A j \in 1 .. m - 1 : t[j] = stack[j].next - 1
        BY <1>4, <3>1, <3>2 DEF PathsInv
      <3>5. \A j \in 1 .. m - 1 : s[j] = stack[j].next - 1
        <4>1. \A j \in 1 .. m - 1 : j \in 1 .. n - 1
          BY <1>1, <2>3
        <4> QED
          BY <1>1, <2>1, <3>1, <4>1
      <3>6. PICK l : l = m - 1
        OBVIOUS
      <3>7. /\ l \in 0 .. Len(s) /\ l <= Len(t) /\ l = Len(t)
            /\ \A k \in 1 .. l : s[k] = t[k]
        BY <1>1, <2>2, <2>3, <3>3, <3>4, <3>5, <3>6
      <3>8. SubSeq(s, 1, l) = SubSeq(t, 1, l)
        BY <3>3, <3>7, SameFirst
      <3>9. SubSeq(t, 1, l) = t
        BY <3>3, <3>7, AllElements
      <3> QED
        BY <3>1, <3>6, <3>8, <3>9
    <2>8. WalkChain' = [ objects |-> SubSeq(visited, 1, m), path |-> stack[m].path ]
      BY <1>2, <2>3, <2>6 DEF WalkChain
    <2>9. PICK d : d = FirstOf(c, m)
      OBVIOUS
    <2>10. WalkChain' = d
      BY <2>1, <2>7, <2>8, <2>9 DEF FirstOf
    <2>11. IsChain(way, d)'
      BY <1>8, <2>5, <2>9
    <2> QED
      BY <1>10, <2>10, <2>11
  <1>12. ASSUME NEW d, NEW i, ChainEdge(way, d, i)
         PROVE  Pending(stack', Append(d.path, i)) <=> Pending(stack, Append(d.path, i))
    <2>1. PICK q : q = Append(d.path, i)
      OBVIOUS
    <2>2. LeadsTo(want[1], q, d, i) /\ ChainEdge(want[1], d, i)
      BY <1>9, <1>12, <2>1, EdgePath
    <2>3. Pending(stack', q) <=> Pending(stack, q)
      BY <1>3, <2>2, ReturnSettles
    <2> QED
      BY <2>1, <2>3
  <1>13. RowsInv(way)'
    <2>1. RowsInv(way)
      BY <1>9 DEF AtObject, WalkRows
    <2>2. \A r : r \in Range(rows') /\ r.way = way <=>
                   \E d, i : /\ ChainEdge(way, d, i) /\ ~ Pending(stack', Append(d.path, i))
                             /\ r = EdgeRow(way, d, i)
      BY <1>2, <1>12, <2>1 DEF RowsInv
    <2> QED
      BY <1>8, <2>2 DEF RowsInv
  <1>14. RowsInv(want[1])'
    BY <1>10, <1>13
  <1>15. /\ want' \in {<<"parent">>, <<"child">>, <<"parent", "child">>}
         /\ want' = <<"parent", "child">> => \A r \in Range(rows') : r.way # "child"
    BY <1>2 DEF AtObject, WalkRows
  <1> QED
    BY <1>2, <1>6, <1>11, <1>14, <1>15 DEF WalkRows

(* A direction begins: its chain is the root, and none of its edges has a row. *)
Starts ==
  /\ want \in {<<"parent">>, <<"child">>, <<"parent", "child">>}
  /\ root \in Objects /\ max_depth \in Nat \ {0}
  /\ stack = << Frame(root, << >>) >> /\ visited = << root >>
  /\ \A r \in Range(rows) : r.way # want[1]
  /\ want = <<"parent", "child">> => \A r \in Range(rows) : r.way # "child"

(* So all of them are pending. *)
LEMMA StartRows == Starts => WalkRows
  <1> SUFFICES ASSUME Starts PROVE WalkRows
    OBVIOUS
  <1>1. Top = Frame(root, << >>) /\ Top.path = << >>
    BY DEF Starts, Top, Last, Frame
  <1>2. PICK c, way : c = [ objects |-> << root >>, path |-> << >> ] /\ way = want[1]
    OBVIOUS
  <1>3. WalkChain = c
    BY <1>1, <1>2 DEF WalkChain, Starts
  <1>4. IsChain(want[1], WalkChain)
    BY <1>2, <1>3, RootChain DEF Starts
  <1>5. PathsInv
    <2>1. Len(stack) = 1 /\ stack[1].path = << >>
      BY <1>1 DEF Starts, Frame
    <2>2. \A k \in 1 .. 1 : k = 1
      OBVIOUS
    <2>3. Len(stack[1].path) = 1 - 1
      BY <2>1
    <2>4. \A j \in 1 .. 1 - 1 : FALSE
      OBVIOUS
    <2> QED
      BY <2>1, <2>2, <2>3, <2>4 DEF PathsInv
  <1>6. RowsInv(want[1])
    <2>1. ASSUME NEW d, NEW i, ChainEdge(way, d, i) PROVE Pending(stack, Append(d.path, i))
      BY <2>1, StartPending DEF Starts
    <2>2. \A r \in Range(rows) : r.way # way
      BY <1>2 DEF Starts
    <2>3. RowsInv(way)
      BY <2>1, <2>2 DEF RowsInv
    <2> QED
      BY <1>2, <2>3
  <1> QED
    BY <1>4, <1>5, <1>6 DEF WalkRows, Starts

(* While nothing is walked there are no rows. *)
LEMMA NoRows ==
  ASSUME rows' = << >>, status' # "walking"
  PROVE  GraphInv'
  <1>1. << >> \in Seq(Range(<< >>)) /\ IsInjective(<< >>)
    BY DEF IsInjective
  <1>2. rows' \in Seq(Range(rows')) /\ IsInjective(rows')
    BY <1>1
  <1> QED
    BY <1>2 DEF GraphInv

(* A step of a call of salesforce_relationship_graph. *)
LEMMA GraphInvGraph ==
  ASSUME WalkOK, GraphInv, GraphNext
  PROVE  GraphInv'
  <1>1. CASE OrgChanges
    <2>1. rows' = << >> /\ status' # "walking"
      BY <1>1 DEF OrgChanges, GraphInv
    <2> QED
      BY <2>1, NoRows
  <1>2. ASSUME NEW r \in Objects, NEW depth \in 0 .. kMaxDepth + 1,
               NEW ways \in {<<"parent">>, <<"child">>, <<"parent", "child">>},
               RelGraphBind(r, depth, ways)
        PROVE  GraphInv'
    <2>1. rows' = << >> /\ root' = r /\ want' = ways
      BY <1>2 DEF RelGraphBind
    <2>2. CASE Describable(r)
      <3>1. /\ status' = "walking" /\ stack' = << Frame(r, << >>) >> /\ visited' = << r >>
        BY <1>2, <2>2 DEF RelGraphBind
      <3>2. max_depth' \in Nat \ {0}
        BY <1>2, MetadataEngineAssumption DEF RelGraphBind
      <3>3. Range(rows') = {}
        BY <2>1 DEF Range
      <3>4. Starts'
        BY <1>2, <2>1, <3>1, <3>2, <3>3 DEF Starts, Frame
      <3>5. WalkRows'
        BY <3>4, StartRows, PTL
      <3>6. << >> \in Seq(Range(<< >>)) /\ IsInjective(<< >>)
        BY DEF IsInjective
      <3>7. rows' \in Seq(Range(rows')) /\ IsInjective(rows')
        BY <2>1, <3>6
      <3> QED
        BY <3>1, <3>5, <3>7 DEF GraphInv
    <2>3. CASE ~ Describable(r)
      <3>1. status' = "failed"
        BY <1>2, <2>3 DEF RelGraphBind
      <3> QED
        BY <2>1, <3>1, NoRows
    <2> QED
      BY <2>2, <2>3
  <1>3. CASE WalkEdge
    <2>1. AtObject /\ rows \in Seq(Range(rows)) /\ IsInjective(rows)
      BY <1>3 DEF AtObject, GraphInv, WalkEdge
    <2>2. WalkRows' /\ rows' \in Seq(Range(rows')) /\ IsInjective(rows')
      BY <1>3, <2>1, EdgeKeepsRows
    <2>3. status' = "walking"
      BY <1>3 DEF WalkEdge
    <2> QED
      BY <2>2, <2>3 DEF GraphInv
  <1>4. CASE GlobalDescribeFails
    <2>1. rows' = rows /\ status' = "failed"
      BY <1>4 DEF GlobalDescribeFails
    <2> QED
      BY <2>1 DEF GraphInv
  <1>5. CASE WalkReturn
    <2>1. AtObject /\ rows \in Seq(Range(rows)) /\ IsInjective(rows)
      BY <1>5 DEF AtObject, GraphInv, WalkReturn
    <2>2. WalkRows' /\ rows' = rows
      BY <1>5, <2>1, ReturnKeepsRows
    <2>3. status' = "walking"
      BY <1>5 DEF WalkReturn
    <2> QED
      BY <2>1, <2>2, <2>3 DEF GraphInv
  <1>6. CASE NextDirection
    <2>1. /\ rows' = rows /\ root' = root /\ max_depth' = max_depth /\ want' = Tail(want)
          /\ status = "walking"
      BY <1>6 DEF NextDirection
    <2>2. WalkRows /\ IsInjective(rows) /\ rows \in Seq(Range(rows))
      BY <2>1 DEF GraphInv
    <2>3. CASE Len(want) > 1
      <3>1. want = <<"parent", "child">>
        <4>1. want \in {<<"parent">>, <<"child">>, <<"parent", "child">>}
          BY <2>2 DEF WalkRows
        <4>2. Len(<<"parent">>) = 1 /\ Len(<<"child">>) = 1
          OBVIOUS
        <4> QED
          BY <2>3, <4>1, <4>2
      <3>2. want' = <<"child">>
        BY <2>1, <3>1
      <3>3. /\ stack' = << Frame(root, << >>) >> /\ visited' = << root >> /\ status' = "walking"
        BY <1>6, <2>1, <2>3 DEF NextDirection
      <3>4. root \in Objects /\ max_depth \in Nat \ {0}
        BY <2>1, MetadataEngineAssumption DEF WalkOK, WalkInv, EngineTypeOK
      <3>5. \A r \in Range(rows') : r.way # want'[1]
        BY <2>1, <2>2, <3>1, <3>2 DEF WalkRows
      <3>6. want'[1] = "child" /\ want' # <<"parent", "child">>
        BY <3>2
      <3>7. Starts'
        BY <2>1, <3>2, <3>3, <3>4, <3>5, <3>6 DEF Starts, Frame
      <3>8. WalkRows'
        BY <3>7, StartRows, PTL
      <3> QED
        BY <2>1, <2>2, <3>3, <3>8 DEF GraphInv
    <2>4. CASE ~ (Len(want) > 1)
      <3>1. status' = "done"
        BY <1>6, <2>4 DEF NextDirection
      <3> QED
        BY <2>1, <2>2, <3>1 DEF GraphInv
    <2> QED
      BY <2>3, <2>4
  <1> QED
    BY <1>1, <1>2, <1>3, <1>4, <1>5, <1>6 DEF GraphNext

(* Every step keeps what is known of the rows. *)
LEMMA GraphInvNext ==
  ASSUME EngineTypeOK, WalkInv, GraphInv, [BridgeNext]_allVars
  PROVE  GraphInv'
  <1> DEFINE Quiet == status \in {"idle", "bridge"} /\ rows' = rows /\ status' # "walking"
  <1>1. CASE UNCHANGED allVars
    <2>1. /\ UNCHANGED <<down, describe_, root, max_depth, want, stack, visited, rows, status>>
      BY <1>1 DEF allVars, engineVars
    <2>2. \A o : Describable(o)' <=> Describable(o)
      BY <2>1 DEF Describable
    <2>3. /\ \A way, c : IsChain(way, c)' <=> IsChain(way, c)
          /\ \A way, c, i : ChainEdge(way, c, i)' <=> ChainEdge(way, c, i)
          /\ \A way, c, i : EdgeRow(way, c, i)' = EdgeRow(way, c, i)
      BY <2>1, <2>2, SameChains
    <2>4. PICK way, c : way = want[1] /\ c = WalkChain
      OBVIOUS
    <2>5. Top' = Top /\ WalkChain' = c /\ want'[1] = way
      BY <2>1, <2>4 DEF Top, WalkChain
    <2>6. ASSUME WalkRows PROVE WalkRows'
      <3>1. PathsInv'
        BY <2>1, <2>6 DEF WalkRows, PathsInv
      <3>2. stack # << >> => IsChain(way, c)'
        BY <2>3, <2>4, <2>6 DEF WalkRows
      <3>3. RowsInv(way)'
        <4>1. RowsInv(way)
          BY <2>4, <2>6 DEF WalkRows
        <4> QED
          BY <2>1, <2>3, <4>1 DEF RowsInv
      <3>4. (stack # << >> => IsChain(want[1], WalkChain))' /\ RowsInv(want[1])'
        BY <2>1, <2>5, <3>2, <3>3
      <3> QED
        BY <2>1, <2>6, <3>1, <3>4 DEF WalkRows
    <2> QED
      BY <2>1, <2>6 DEF GraphInv
  <1>2. CASE GraphStep
    BY <1>2, GraphInvGraph DEF GraphStep, WalkOK
  <1>3. ASSUME Quiet PROVE GraphInv'
    <2>1. rows' = << >> /\ status' # "walking"
      BY <1>3 DEF GraphInv
    <2> QED
      BY <2>1, NoRows
  <1>4. CASE RefreshCatalog \/ \E o \in Objects : RefreshObject(o)
    <2>1. Quiet
      BY <1>4 DEF RefreshCatalog, RefreshAll, RefreshObject, Refresh
    <2> QED
      BY <1>3, <2>1
  <1>5. CASE ReturnRows
    <2>1. rows' = << >> /\ status' # "walking"
      BY <1>5 DEF ReturnRows, Return
    <2> QED
      BY <2>1, NoRows
  <1>6. CASE SchemaChanges
    <2>1. Quiet
      BY <1>6 DEF SchemaChanges, engineVars
    <2> QED
      BY <1>3, <2>1
  <1>7. CASE \E r \in Reports : ReportSoqlBind(r)
    <2>1. Quiet
      BY <1>7 DEF ReportSoqlBind, walkVars
    <2> QED
      BY <1>3, <2>1
  <1>8. CASE ResolveBase \/ BaseNotValidated \/ SkipBase
    <2>1. Quiet
      BY <1>8 DEF ResolveBase, BaseNotValidated, SkipBase, walkVars
    <2> QED
      BY <1>3, <2>1
  <1>9. CASE ResolveColumn \/ ColumnsDone \/ TranslateFilter \/ FinishSoql
    <2>1. Quiet
      BY <1>9 DEF ResolveColumn, ColumnsDone, TranslateFilter, FinishSoql, walkVars
    <2> QED
      BY <1>3, <2>1
  <1>10. CASE (\E s \in Samples : ReportBind(s)) \/ (\E snap \in Snapshots : ExplainBind(snap))
    <2>1. Quiet
      BY <1>10 DEF ReportBind, ExplainBind, walkVars
    <2> QED
      BY <1>3, <2>1
  <1>11. CASE (\E o \in Objects : MetaFieldsBind(o)) \/ MetaObjectsBind \/ RequestFails
    <2>1. Quiet
      BY <1>11 DEF MetaFieldsBind, MetaObjectsBind, RequestFails, walkVars
    <2> QED
      BY <1>3, <2>1
  <1> QED
    BY <1>1, <1>2, <1>4, <1>5, <1>6, <1>7, <1>8, <1>9, <1>10, <1>11, Zenon DEF BridgeNext

(* At the end of a direction its rows are EdgesOf. *)
LEMMA RowsAreEdges ==
  ASSUME WalkOK, WalkRows, status = "walking", stack = << >>
  PROVE  { r \in Range(rows) : r.way = want[1] } = EdgesOf(want[1])
  <1>1. PICK way : way = want[1]
    OBVIOUS
  <1>2. way \in {"parent", "child"} /\ RowsInv(way)
    BY <1>1 DEF WalkRows
  <1>3. root \in Objects /\ max_depth \in Nat \ {0}
    BY MetadataEngineAssumption DEF WalkOK, WalkInv, EngineTypeOK
  <1>4. \A c : c \in ChainsOf(way) <=> IsChain(way, c)
    BY <1>2, <1>3, ChainsAre
  <1>5. \A q : ~ Pending(stack, q)
    BY DEF Pending
  <1>6. EdgesOf(way) = UNION { { EdgeRow(way, c, i) : i \in DOMAIN Edges(way, Last(c.objects)) } :
                               c \in ChainsOf(way) }
    BY Zenon DEF EdgesOf, EdgeRow
  <1>7. ASSUME NEW r PROVE r \in EdgesOf(way) <=> \E c, i : ChainEdge(way, c, i) /\ r = EdgeRow(way, c, i)
    <2>1. ASSUME r \in EdgesOf(way) PROVE \E c, i : ChainEdge(way, c, i) /\ r = EdgeRow(way, c, i)
      <3>1. PICK c \in ChainsOf(way) :
              r \in { EdgeRow(way, c, i) : i \in DOMAIN Edges(way, Last(c.objects)) }
        BY <1>6, <2>1
      <3> QED
        BY <1>4, <3>1 DEF ChainEdge
    <2>2. ASSUME NEW c, NEW i, ChainEdge(way, c, i), r = EdgeRow(way, c, i) PROVE r \in EdgesOf(way)
      <3>1. c \in ChainsOf(way) /\ i \in DOMAIN Edges(way, Last(c.objects))
        BY <1>4, <2>2 DEF ChainEdge
      <3>2. r \in { EdgeRow(way, c, j) : j \in DOMAIN Edges(way, Last(c.objects)) }
        BY <2>2, <3>1
      <3> QED
        BY <1>6, <3>1, <3>2
    <2> QED
      BY <2>1, <2>2
  <1>8. \A r : r \in Range(rows) /\ r.way = way <=> r \in EdgesOf(way)
    BY <1>2, <1>5, <1>7 DEF RowsInv
  <1>9. { r \in Range(rows) : r.way = way } = EdgesOf(way)
    BY <1>8
  <1> QED
    BY <1>1, <1>9

-----------------------------------------------------------------------------
(* The names of a sample's columns.                                        *)

(* names[k] are the names of the first k columns, up to n of them. *)
NamesUpTo(columns, names, n) ==
  names = [ k \in 0 .. n |->
              IF k = 0 THEN << >>
              ELSE Append(names[k - 1], Disambiguated(ColumnName(columns[k]), Range(names[k - 1]))) ]

(* There is such a function: one more column is one more name. *)
LEMMA NamesExist ==
  ASSUME NEW columns
  PROVE  \A n \in Nat : \E names : NamesUpTo(columns, names, n)
  <1> DEFINE Next1(k, names) == Append(names, Disambiguated(ColumnName(columns[k]), Range(names)))
  <1> DEFINE T == { n \in Nat : ~ \E names : NamesUpTo(columns, names, n) }
  <1> SUFFICES ASSUME T # {} PROVE FALSE
    OBVIOUS
  <1>1. T \subseteq Nat /\ Min(T) \in T /\ \A l \in T : Min(T) <= l
    BY LeastRank
  <1>2. PICK m : m \in T /\ \A l \in T : m <= l
    BY <1>1
  <1>3. \A names, n : NamesUpTo(columns, names, n) <=>
          names = [ k \in 0 .. n |-> IF k = 0 THEN << >> ELSE Next1(k, names[k - 1]) ]
    BY DEF NamesUpTo
  <1> HIDE DEF Next1
  <1>4. m # 0
    <2> DEFINE none == [ k \in 0 .. 0 |-> << >> ]
    <2>1. none = [ k \in 0 .. 0 |-> IF k = 0 THEN << >> ELSE Next1(k, none[k - 1]) ]
      OBVIOUS
    <2>2. NamesUpTo(columns, none, 0)
      BY <1>3, <2>1
    <2> QED
      BY <1>2, <2>2
  <1>5. m \in Nat /\ m - 1 \in Nat /\ m - 1 \notin T
    BY <1>1, <1>2, <1>4
  <1>6. PICK g : NamesUpTo(columns, g, m - 1)
    BY <1>5
  <1>7. \A k \in 0 .. m - 1 : g[k] = IF k = 0 THEN << >> ELSE Next1(k, g[k - 1])
    BY <1>3, <1>6
  <1> DEFINE h == [ k \in 0 .. m |-> IF k = m THEN Next1(m, g[m - 1]) ELSE g[k] ]
  <1>8. ASSUME NEW k \in 0 .. m PROVE h[k] = IF k = 0 THEN << >> ELSE Next1(k, h[k - 1])
    <2>1. CASE k = m
      <3>1. h[k] = Next1(k, g[k - 1]) /\ k # 0
        BY <1>4, <2>1
      <3>2. k - 1 \in 0 .. m /\ k - 1 # m
        BY <1>5, <2>1
      <3>3. h[k - 1] = g[k - 1]
        BY <3>2
      <3> QED
        BY <3>1, <3>3
    <2>2. CASE k # m
      <3>1. k \in 0 .. m - 1 /\ (k # 0 => k - 1 \in 0 .. m - 1)
        BY <1>5, <2>2
      <3>2. k - 1 # m
        BY <1>5, <3>1
      <3>3. h[k] = g[k] /\ (k # 0 => h[k - 1] = g[k - 1])
        BY <1>5, <2>2, <3>1, <3>2
      <3> QED
        BY <1>7, <3>1, <3>3
    <2> QED
      BY <2>1, <2>2
  <1>9. NamesUpTo(columns, h, m)
    <2>1. h = [ k \in 0 .. m |-> h[k] ]
      OBVIOUS
    <2> HIDE DEF h
    <2>2. h = [ k \in 0 .. m |-> IF k = 0 THEN << >> ELSE Next1(k, h[k - 1]) ]
      BY <1>8, <2>1
    <2> QED
      BY <1>3, <2>2
  <1> QED
    BY <1>2, <1>9

(* So the names of n columns are those of the one before and one more. *)
LEMMA NamesOf ==
  ASSUME NEW columns, Len(columns) \in Nat
  PROVE  \E names :
           /\ ColumnNames(columns) = names[Len(columns)] /\ names[0] = << >>
           /\ \A k \in 1 .. Len(columns) :
                names[k] = Append(names[k - 1],
                                  Disambiguated(ColumnName(columns[k]), Range(names[k - 1])))
  <1> DEFINE f == CHOOSE names : NamesUpTo(columns, names, Len(columns))
  <1>1. NamesUpTo(columns, f, Len(columns))
    BY NamesExist
  <1>2. ColumnNames(columns) = f[Len(columns)]
    BY DEF ColumnNames, NamesUpTo
  <1> HIDE DEF f
  <1>3. f[0] = << >>
    BY <1>1 DEF NamesUpTo
  <1>4. ASSUME NEW k \in 1 .. Len(columns)
        PROVE  f[k] = Append(f[k - 1], Disambiguated(ColumnName(columns[k]), Range(f[k - 1])))
    <2>1. k \in 0 .. Len(columns) /\ k # 0
      OBVIOUS
    <2> QED
      BY <1>1, <2>1 DEF NamesUpTo
  <1> QED
    BY <1>2, <1>3, <1>4

(* Texts that differ in their last part only. *)
LEMMA AppendsDiffer ==
  ASSUME NEW V, NEW s \in Seq(V), NEW x \in V, NEW y \in V, Append(s, x) = Append(s, y)
  PROVE  x = y
  <1>1. Append(s, x)[Len(s) + 1] = x /\ Append(s, y)[Len(s) + 1] = y
    OBVIOUS
  <1> QED
    BY <1>1

(* A disambiguated name is not in use: there are more suffixes than names. *)
LEMMA FreeName ==
  ASSUME NEW V, NEW name \in Seq(V), NEW used, IsFiniteSet(used),
         NEW n \in Nat, Cardinality(used) < n,
         \A k \in 2 .. n + 1 : ToString(k) \in V,
         \A k, l \in 2 .. n + 1 : ToString(k) = ToString(l) => k = l
  PROVE  /\ Disambiguated(name, used) \notin used /\ Disambiguated(name, used) \in Seq(V)
         /\ \/ Disambiguated(name, used) = name
            \/ \E k \in 2 .. n + 1 : Disambiguated(name, used) = Append(name, ToString(k))
  <1>1. CASE name \notin used
    BY <1>1 DEF Disambiguated
  <1>2. CASE name \in used
    <2> DEFINE c == Cardinality(used)
    <2> DEFINE free == { k \in 2 .. c + 2 : Append(name, ToString(k)) \notin used }
    <2>1. c \in Nat
      BY FS_CardinalityType
    <2>2. 2 .. c + 2 \subseteq 2 .. n + 1
      BY <2>1
    <2>3. free # {}
      <3> SUFFICES ASSUME free = {} PROVE FALSE
        OBVIOUS
      <3> DEFINE f == [ k \in 2 .. c + 2 |-> Append(name, ToString(k)) ]
      <3>1. f \in [ 2 .. c + 2 -> used ]
        OBVIOUS
      <3>2. IsFiniteSet(2 .. c + 2) /\ Cardinality(2 .. c + 2) = c + 1
        <4>1. 2 \in Int /\ c + 2 \in Int
          BY <2>1
        <4>2. /\ IsFiniteSet(2 .. c + 2)
              /\ Cardinality(2 .. c + 2) = IF 2 > c + 2 THEN 0 ELSE (c + 2) - 2 + 1
          BY <4>1, FS_Interval
        <4> HIDE DEF c
        <4> QED
          BY <2>1, <4>2
      <3>3. Cardinality(used) < Cardinality(2 .. c + 2)
        BY <2>1, <3>2
      <3>4. PICK x, y \in 2 .. c + 2 : x # y /\ f[x] = f[y]
        <4> DEFINE D == 2 .. c + 2
        <4>1. /\ IsFiniteSet(D) /\ IsFiniteSet(used) /\ Cardinality(used) < Cardinality(D)
              /\ f \in [ D -> used ]
          BY <3>1, <3>2, <3>3
        <4> HIDE DEF D, f
        <4>2. \E x, y \in D : x # y /\ f[x] = f[y]
          BY <4>1, FS_PigeonHole
        <4> QED
          BY <4>2 DEF D
      <3>5. Append(name, ToString(x)) = Append(name, ToString(y))
        BY <3>4
      <3>6. x \in 2 .. n + 1 /\ y \in 2 .. n + 1
        BY <2>2
      <3>7. ToString(x) = ToString(y)
        BY <3>5, <3>6, AppendsDiffer
      <3> QED
        BY <3>4, <3>6, <3>7
    <2>4. free \subseteq Nat
      BY <2>1
    <2>5. Min(free) \in free
      <3> HIDE DEF free
      <3> QED
        BY <2>3, <2>4, LeastRank
    <2>6. Disambiguated(name, used) = Append(name, ToString(Min(free)))
      BY <1>2 DEF Disambiguated
    <2>7. Min(free) \in 2 .. n + 1 /\ Append(name, ToString(Min(free))) \notin used
      BY <2>2, <2>5
    <2> HIDE DEF free
    <2> QED
      BY <2>6, <2>7
  <1> QED
    BY <1>1, <1>2

(* A list has no more elements than places. *)
LEMMA FewElements ==
  ASSUME NEW S, NEW s \in Seq(S)
  PROVE  IsFiniteSet(Range(s)) /\ Cardinality(Range(s)) <= Len(s) /\ Cardinality(Range(s)) \in Nat
  <1> DEFINE D == 1 .. Len(s)
  <1> DEFINE T == Range(s)
  <1>1. Len(s) \in Nat /\ DOMAIN s = 1 .. Len(s) /\ s \in [ 1 .. Len(s) -> S ]
    BY LenProperties
  <1>2. s \in Surjection(D, T)
    <2>1. s \in [ D -> T ]
      BY <1>1 DEF Range
    <2>2. \A t \in T : \E d \in D : s[d] = t
      BY <1>1 DEF Range
    <2> QED
      BY <2>1, <2>2 DEF Surjection
  <1>3. IsFiniteSet(D) /\ Cardinality(D) = Len(s)
    <2>1. 1 \in Int /\ Len(s) \in Int
      BY <1>1
    <2>2. IsFiniteSet(1 .. Len(s)) /\ Cardinality(1 .. Len(s)) = IF 1 > Len(s) THEN 0 ELSE Len(s) - 1 + 1
      BY <2>1, FS_Interval
    <2> QED
      BY <1>1, <2>2
  <1> HIDE DEF D, T
  <1>4. IsFiniteSet(T) /\ Cardinality(T) <= Cardinality(D)
    BY <1>2, <1>3, FS_Surjection
  <1> QED
    BY <1>3, <1>4, FS_CardinalityType DEF T

(* A column's name is a text, and not that of a diagnostic column. *)
LEMMA PlainName ==
  ASSUME NEW V, NEW c, c.label \in Seq(V), c.api \in Seq(V), "col_" \in V
  PROVE  ColumnName(c) \in Seq(V) /\ ColumnName(c) \notin Diagnostic
  <1> DEFINE name == IF c.label = << >> \/ c.label \in Reserved THEN c.api ELSE c.label
  <1> DEFINE safe == << "col_" >> \o c.api
  <1>1. ColumnName(c) = IF name = << >> \/ name \in Reserved THEN safe ELSE name
    BY DEF ColumnName
  <1>2. name \in Seq(V)
    OBVIOUS
  <1>3. safe \in Seq(V) /\ safe[1] = "col_"
    <2>1. PICK v \in V : v = "col_"
      OBVIOUS
    <2>2. << v >> \in Seq(V) /\ Len(<< v >>) = 1 /\ << v >>[1] = v
      OBVIOUS
    <2>3. << v >> \o c.api \in Seq(V) /\ (<< v >> \o c.api)[1] = v
      BY <2>2, ConcatProperties
    <2> QED
      BY <2>1, <2>3
  <1> HIDE DEF name, safe
  <1>4. CASE name = << >> \/ name \in Reserved
    BY <1>1, <1>3, <1>4, SampleAssumption
  <1>5. CASE ~ (name = << >> \/ name \in Reserved)
    BY <1>1, <1>2, <1>5, SampleAssumption
  <1> QED
    BY <1>4, <1>5

(* One more name that is free. *)
LEMMA OneMoreName ==
  ASSUME NEW S, NEW s \in Seq(S), NEW x \in S, IsInjective(s), x \notin Range(s),
         Range(s) \intersect Diagnostic = {}, x \notin Diagnostic
  PROVE  /\ Append(s, x) \in Seq(S) /\ Len(Append(s, x)) = Len(s) + 1
         /\ IsInjective(Append(s, x)) /\ Range(Append(s, x)) \intersect Diagnostic = {}
  <1> DEFINE t == Append(s, x)
  <1>1. PICK n \in Nat : n = Len(s) /\ DOMAIN s = 1 .. n
    BY LenProperties
  <1>2. /\ t \in Seq(S) /\ Len(t) = n + 1 /\ DOMAIN t = 1 .. n + 1
        /\ \A k \in 1 .. n : t[k] = s[k]
        /\ t[n + 1] = x
    BY <1>1
  <1> HIDE DEF t
  <1>3. \A k \in 1 .. n : s[k] \in Range(s)
    BY <1>1 DEF Range
  <1>4. ASSUME NEW j \in 1 .. n + 1, NEW k \in 1 .. n + 1, t[j] = t[k] PROVE j = k
    <2>1. CASE j \in 1 .. n /\ k \in 1 .. n
      BY <1>1, <1>2, <1>4, <2>1 DEF IsInjective
    <2>2. CASE j \in 1 .. n /\ k = n + 1
      BY <1>2, <1>3, <1>4, <2>2
    <2>3. CASE j = n + 1 /\ k \in 1 .. n
      BY <1>2, <1>3, <1>4, <2>3
    <2> QED
      BY <2>1, <2>2, <2>3
  <1>5. IsInjective(t)
    BY <1>2, <1>4 DEF IsInjective
  <1>6. \A k \in 1 .. n + 1 : t[k] \notin Diagnostic
    <2> SUFFICES ASSUME NEW k \in 1 .. n + 1 PROVE t[k] \notin Diagnostic
      OBVIOUS
    <2>1. CASE k \in 1 .. n
      BY <1>2, <1>3, <2>1
    <2>2. CASE k = n + 1
      BY <1>2, <2>2
    <2> QED
      BY <2>1, <2>2
  <1>7. Range(t) \intersect Diagnostic = {}
    BY <1>2, <1>6 DEF Range
  <1> QED
    BY <1>1, <1>2, <1>5, <1>7 DEF t

(* The names of all columns. *)
LEMMA SampleNames ==
  ASSUME NEW s \in Samples
  PROVE  LET names == ColumnNames(s.columns)
         IN  /\ IsInjective(names) /\ Range(names) \intersect Diagnostic = {}
             /\ Len(names) = Len(s.columns) /\ DOMAIN names = DOMAIN s.columns
  <1> DEFINE N == Len(s.columns)
  <1> DEFINE U == UNION { Range(c.label) \union Range(c.api) : c \in Range(s.columns) }
  <1> DEFINE W == { ToString(k) : k \in 2 .. N + 1 }
  <1> DEFINE V == {"col_"} \union U \union W
  <1>1. /\ s.columns \in Seq(Range(s.columns))
        /\ \A c \in Range(s.columns) : c.label \in Seq(Range(c.label)) /\ c.api \in Seq(Range(c.api))
        /\ \A k, l \in 2 .. N + 1 : ToString(k) = ToString(l) => k = l
        /\ \A k \in 2 .. N + 1 : \A d \in Diagnostic : Last(d) # ToString(k)
    BY SampleAssumption
  <1>2. N \in Nat /\ DOMAIN s.columns = 1 .. N /\ \A k \in 1 .. N : s.columns[k] \in Range(s.columns)
    BY <1>1, LenProperties DEF Range
  <1>3. /\ "col_" \in V /\ \A k \in 2 .. N + 1 : ToString(k) \in V
        /\ \A c \in Range(s.columns) : Range(c.label) \subseteq V /\ Range(c.api) \subseteq V
    <2>1. "col_" \in V
      OBVIOUS
    <2>2. \A k \in 2 .. N + 1 : ToString(k) \in V
      <3>1. \A k \in 2 .. N + 1 : ToString(k) \in W
        OBVIOUS
      <3> HIDE DEF W
      <3> QED
        BY <3>1
    <2>3. \A c \in Range(s.columns) : Range(c.label) \subseteq V /\ Range(c.api) \subseteq V
      <3> SUFFICES ASSUME NEW c \in Range(s.columns), NEW v \in Range(c.label) \union Range(c.api)
                   PROVE  v \in V
        BY Zenon
      <3> QED
        BY Zenon
    <2> QED
      BY <2>1, <2>2, <2>3
  <1>4. PICK names :
           /\ ColumnNames(s.columns) = names[N] /\ names[0] = << >>
           /\ \A k \in 1 .. N :
                names[k] = Append(names[k - 1],
                                  Disambiguated(ColumnName(s.columns[k]), Range(names[k - 1])))
    BY <1>2, NamesOf
  <1> HIDE DEF N, V
  <1>5. \A k \in 1 .. N : /\ ColumnName(s.columns[k]) \in Seq(V)
                          /\ ColumnName(s.columns[k]) \notin Diagnostic
    <2> SUFFICES ASSUME NEW k \in 1 .. N
                 PROVE  /\ ColumnName(s.columns[k]) \in Seq(V)
                        /\ ColumnName(s.columns[k]) \notin Diagnostic
      OBVIOUS
    <2>1. PICK c \in Range(s.columns) : c = s.columns[k]
      BY <1>2
    <2>2. c.label \in Seq(V) /\ c.api \in Seq(V)
      <3>1. \A R \in SUBSET V : Seq(R) \subseteq Seq(V)
        OBVIOUS
      <3> QED
        BY <1>1, <1>3, <3>1
    <2> QED
      BY <1>3, <2>1, <2>2, PlainName
  <1> DEFINE Good(k) == /\ names[k] \in Seq(Seq(V)) /\ Len(names[k]) = k /\ IsInjective(names[k])
                        /\ Range(names[k]) \intersect Diagnostic = {}
  <1>6. Good(0)
    <2>1. << >> \in Seq(Seq(V)) /\ Len(<< >>) = 0 /\ DOMAIN << >> = {}
      OBVIOUS
    <2> QED
      BY <1>4, <2>1 DEF IsInjective, Range
  <1>7. ASSUME NEW k \in 1 .. N, Good(k - 1) PROVE Good(k)
    <2> DEFINE t == names[k - 1]
    <2> DEFINE name == ColumnName(s.columns[k])
    <2> DEFINE x == Disambiguated(name, Range(t))
    <2>1. t \in Seq(Seq(V)) /\ Len(t) = k - 1 /\ names[k] = Append(t, x) /\ name \in Seq(V)
      BY <1>4, <1>5, <1>7
    <2> HIDE DEF t, name
    <2>2. IsFiniteSet(Range(t)) /\ Cardinality(Range(t)) < N
      <3>1. /\ IsFiniteSet(Range(t)) /\ Cardinality(Range(t)) <= Len(t)
            /\ Cardinality(Range(t)) \in Nat
        BY <2>1, FewElements
      <3> QED
        BY <1>2, <2>1, <3>1
    <2>3. /\ x \notin Range(t) /\ x \in Seq(V)
          /\ x = name \/ \E l \in 2 .. N + 1 : x = Append(name, ToString(l))
      <3>1. PICK used : used = Range(t)
        OBVIOUS
      <3>2. IsFiniteSet(used) /\ Cardinality(used) < N /\ x = Disambiguated(name, used)
        BY <2>2, <3>1
      <3> HIDE DEF x
      <3>3. /\ Disambiguated(name, used) \notin used /\ Disambiguated(name, used) \in Seq(V)
            /\ \/ Disambiguated(name, used) = name
               \/ \E l \in 2 .. N + 1 : Disambiguated(name, used) = Append(name, ToString(l))
        <4>1. /\ \A j \in 2 .. N + 1 : ToString(j) \in V
              /\ \A j, l \in 2 .. N + 1 : ToString(j) = ToString(l) => j = l
          BY <1>1, <1>3 DEF N
        <4>2. N \in Nat /\ name \in Seq(V)
          BY <1>2, <2>1
        <4> QED
          BY <3>2, <4>1, <4>2, FreeName, SMTT(30)
      <3> QED
        BY <3>1, <3>2, <3>3
    <2> HIDE DEF x
    <2>4. x \notin Diagnostic
      <3>1. CASE x = name
        BY <1>5, <3>1 DEF name
      <3>2. ASSUME NEW l \in 2 .. N + 1, x = Append(name, ToString(l)) PROVE x \notin Diagnostic
        <4>1. Last(x) = ToString(l)
          BY <1>3, <2>1, <3>2 DEF Last
        <4> QED
          BY <1>1, <4>1
      <3> QED
        BY <2>3, <3>1, <3>2
    <2>5. /\ Append(t, x) \in Seq(Seq(V)) /\ Len(Append(t, x)) = Len(t) + 1
          /\ IsInjective(Append(t, x)) /\ Range(Append(t, x)) \intersect Diagnostic = {}
      BY <1>7, <2>1, <2>3, <2>4, OneMoreName DEF t
    <2> QED
      BY <1>2, <2>1, <2>5
  <1> HIDE DEF Good
  <1>8. Good(N)
    <2> DEFINE T == { k \in 0 .. N : ~ Good(k) }
    <2> SUFFICES ASSUME T # {} PROVE FALSE
      BY <1>2
    <2>1. T \subseteq Nat
      OBVIOUS
    <2>2. PICK m : m \in T /\ \A l \in T : m <= l
      BY <2>1, LeastRank
    <2>3. m # 0
      BY <1>6, <2>2
    <2>4. m \in 1 .. N /\ m - 1 \in 0 .. N /\ m - 1 \notin T
      BY <1>2, <2>1, <2>2, <2>3
    <2> QED
      BY <1>7, <2>2, <2>4
  <1>9. DOMAIN names[N] = 1 .. N
    BY <1>8, LenProperties DEF Good
  <1> QED
    BY <1>2, <1>4, <1>8, <1>9 DEF Good, N

-----------------------------------------------------------------------------
(* The steps that are no part of a bind.                                   *)

(* The describes a step adds are those of the org; the others stay.        *)
LEMMA FreshFollows ==
  ASSUME FreshInv, SeenFollows, dropped' = dropped,
         \A o \in describe_ \intersect describe_' : o \notin changed' => o \notin changed
  PROVE  FreshInv'
  <1> SUFFICES ASSUME NEW o \in describe_' \ changed', NEW f \in Schema[o]
               PROVE  << o, f >> \in seen' <=> << o, f >> \in dropped'
    BY DEF FreshInv
  <1>1. CASE o \in describe_
    BY <1>1 DEF FreshInv, SeenFollows
  <1>2. CASE o \notin describe_
    BY <1>2 DEF SeenFollows
  <1> QED
    BY <1>1, <1>2

(* The cached describes lack fields of cached objects only. *)
LEMMA SeenKeeps ==
  ASSUME SeenFollows, dropped \subseteq Droppable, seen \subseteq Droppable
  PROVE  seen' \subseteq Droppable /\ \A p \in seen' : p[1] \in describe_'
  BY DEF SeenFollows

(* A walk of the relationship graph. *)
LEMMA GraphStepKeeps ==
  ASSUME BridgeInv, GraphStep
  PROVE  BridgeInv'
  <1>1. /\ GraphNext /\ SeenFollows /\ UNCHANGED <<dropped, changed, step, bind>>
        /\ WalkOK /\ BridgeTypeOK /\ FreshInv
    BY DEF GraphStep, BridgeInv, BridgeTypeOK, WalkOK, orgVars
  <1>2. /\ WalkOK' /\ describe_ \subseteq describe_' /\ status \in {"idle", "walking"}
        /\ status' # "bridge" /\ (status' = "idle" => status = "idle" /\ rows' = rows)
    BY <1>1, GraphKeeps
  <1>3. step = "none" /\ bind = NoBind /\ (status = "idle" => rows = << >>)
    BY <1>2 DEF BridgeInv, BridgeTypeOK
  <1>4. seen' \subseteq Droppable /\ \A p \in seen' : p[1] \in describe_'
    BY <1>1, SeenKeeps DEF BridgeTypeOK
  <1>5. FreshInv'
    BY <1>1, FreshFollows
  <1>6. bind'.kind = "none"
    BY <1>1, <1>3 DEF NoBind
  <1>7. BridgeTypeOK'
    BY <1>1, <1>2, <1>3, <1>4, <1>6 DEF BridgeTypeOK, WalkOK
  <1>8. SoqlInv' /\ AnswerInv'
    BY <1>2, <1>6 DEF SoqlInv, AnswerInv, SampleWellFormed
  <1> QED
    BY <1>1, <1>2, <1>3, <1>5, <1>7, <1>8 DEF BridgeInv, WalkOK

(* A refresh of one object, or of all of them. *)
LEMMA RefreshKeeps ==
  ASSUME BridgeInv, RefreshCatalog \/ \E o \in Objects : RefreshObject(o)
  PROVE  BridgeInv'
  <1> DEFINE Refreshed ==
        /\ SeenFollows /\ status = "idle" /\ describe_' \subseteq describe_
        /\ UNCHANGED <<down, root, max_depth, want, stack, visited, rows, calls, status>>
        /\ UNCHANGED <<dropped, step, bind>> /\ global_loaded_' \in BOOLEAN
        /\ changed' \subseteq changed
        /\ \A o \in describe_ \intersect describe_' : o \notin changed' => o \notin changed
  <1>1. Refreshed
    <2>1. CASE RefreshCatalog
      BY <2>1 DEF RefreshCatalog, RefreshAll
    <2>2. ASSUME NEW o \in Objects, RefreshObject(o) PROVE Refreshed
      <3>1. global_loaded_ \in BOOLEAN
        BY DEF BridgeInv, BridgeTypeOK, EngineTypeOK
      <3> QED
        BY <2>2, <3>1 DEF RefreshObject, Refresh
    <2> QED
      BY <2>1, <2>2
  <1>2. /\ BridgeTypeOK /\ FreshInv /\ WalkOK /\ step = "none" /\ bind = NoBind
        /\ rows = << >>
    BY <1>1 DEF BridgeInv, BridgeTypeOK, WalkOK
  <1>3. WalkOK'
    BY <1>1, <1>2 DEF WalkOK, EngineTypeOK, WalkInv
  <1>4. seen' \subseteq Droppable /\ \A p \in seen' : p[1] \in describe_'
    BY <1>1, <1>2, SeenKeeps DEF BridgeTypeOK
  <1>5. FreshInv'
    BY <1>1, <1>2, FreshFollows
  <1>6. bind'.kind = "none"
    BY <1>1, <1>2 DEF NoBind
  <1>7. BridgeTypeOK'
    BY <1>1, <1>2, <1>3, <1>4, <1>6 DEF BridgeTypeOK, WalkOK
  <1>8. SoqlInv' /\ AnswerInv'
    BY <1>1, <1>6 DEF SoqlInv, AnswerInv, SampleWellFormed
  <1> QED
    BY <1>1, <1>2, <1>3, <1>5, <1>7, <1>8 DEF BridgeInv, WalkOK

(* A call returns. *)
LEMMA ReturnKeeps ==
  ASSUME BridgeInv, ReturnRows
  PROVE  BridgeInv'
  <1>1. /\ status' = "idle" /\ root' = None /\ max_depth' = 1 /\ want' = << >>
        /\ stack' = << >> /\ visited' = << >> /\ rows' = << >>
        /\ UNCHANGED <<down, describe_, global_loaded_, calls, dropped, changed, seen>>
        /\ step' = "none" /\ bind' = NoBind
    BY DEF ReturnRows, Return, engine, orgVars
  <1>2. EngineTypeOK /\ BridgeTypeOK /\ FreshInv
    BY DEF BridgeInv, BridgeTypeOK
  <1>3. Range(want') = {} /\ Len(stack') = 0 /\ bind'.kind = "none"
    BY <1>1 DEF Range, NoBind
  <1>4. max_depth' \in 1 .. kMaxDepth /\ Len(stack') <= max_depth'
    BY <1>1, <1>3, MetadataEngineAssumption
  <1>5. EngineTypeOK'
    BY <1>1, <1>2, <1>3, <1>4 DEF EngineTypeOK
  <1>6. WalkInv'
    BY <1>1 DEF WalkInv
  <1>7. BridgeTypeOK'
    BY <1>1, <1>2, <1>3, <1>5 DEF BridgeTypeOK
  <1>8. FreshInv' /\ SoqlInv' /\ AnswerInv'
    BY <1>1, <1>2 DEF FreshInv, SoqlInv, AnswerInv, SampleWellFormed
  <1> QED
    BY <1>1, <1>6, <1>7, <1>8 DEF BridgeInv

(* An administrator removes fields or brings them back. *)
LEMMA SchemaKeeps ==
  ASSUME BridgeInv, SchemaChanges
  PROVE  BridgeInv'
  <1>1. /\ status = "idle" /\ dropped' \subseteq Droppable
        /\ changed' = changed \union { p[1] : p \in (dropped \ dropped') \union (dropped' \ dropped) }
        /\ UNCHANGED engineVars /\ UNCHANGED <<seen, step, bind>>
    BY DEF SchemaChanges
  <1>2. /\ BridgeTypeOK /\ FreshInv /\ WalkInv /\ step = "none" /\ bind = NoBind
    BY <1>1 DEF BridgeInv
  <1>3. changed' \subseteq Objects
    <2>1. \A p \in (dropped \ dropped') \union (dropped' \ dropped) : p[1] \in Objects
      BY <1>1, <1>2, ReportBridgeAssumption DEF BridgeTypeOK
    <2> QED
      BY <1>1, <1>2, <2>1 DEF BridgeTypeOK
  <1>4. BridgeTypeOK' /\ WalkInv'
    BY <1>1, <1>2, <1>3 DEF BridgeTypeOK, EngineTypeOK, WalkInv, engineVars
  <1>5. FreshInv'
    <2> SUFFICES ASSUME NEW o \in describe_' \ changed', NEW f \in Schema[o]
                 PROVE  << o, f >> \in seen' <=> << o, f >> \in dropped'
      BY DEF FreshInv
    <2>1. o \in describe_ \ changed /\ seen' = seen
      BY <1>1 DEF engineVars
    <2>2. << o, f >> \in seen <=> << o, f >> \in dropped
      BY <1>2, <2>1 DEF FreshInv
    <2>3. << o, f >> \in dropped <=> << o, f >> \in dropped'
      <3>1. << o, f >>[1] = o
        OBVIOUS
      <3>2. << o, f >> \notin (dropped \ dropped') \union (dropped' \ dropped)
        BY <1>1, <3>1
      <3> QED
        BY <3>2
    <2> QED
      BY <2>1, <2>2, <2>3
  <1>6. SoqlInv' /\ AnswerInv'
    BY <1>1 DEF SoqlInv, AnswerInv, SampleWellFormed, engineVars
  <1> QED
    BY <1>1, <1>2, <1>4, <1>5, <1>6 DEF BridgeInv, engineVars
-----------------------------------------------------------------------------
(* The steps of a call.                                                    *)

(* What every one of them keeps: the walk is at rest, the cache grows by   *)
(* objects, the org does not change.                                       *)
Call ==
  /\ Settled /\ UNCHANGED walkVars /\ changed' = changed
  /\ describe_' \subseteq Objects /\ global_loaded_' \in BOOLEAN
  /\ calls' \in 0 .. MaxCalls /\ status' \in {"bridge", "done", "failed"}

(* The parts of the invariant that are not about the bind. *)
LEMMA CallKeeps ==
  ASSUME BridgeInv, Call
  PROVE  /\ EngineTypeOK' /\ WalkInv' /\ FreshInv'
         /\ dropped' \subseteq Droppable /\ seen' \subseteq Droppable
         /\ (\A p \in seen' : p[1] \in describe_') /\ changed' \subseteq Objects
  <1>1. /\ EngineTypeOK /\ WalkInv /\ FreshInv /\ BridgeTypeOK
        /\ dropped \subseteq Droppable /\ seen \subseteq Droppable
        /\ (\A p \in seen : p[1] \in describe_) /\ changed \subseteq Objects
    BY DEF BridgeInv, BridgeTypeOK
  <1>2. EngineTypeOK' /\ WalkInv'
    BY <1>1 DEF Call, EngineTypeOK, WalkInv, walkVars
  <1>3. CASE SeenFollows
    <2>1. seen' \subseteq Droppable /\ \A p \in seen' : p[1] \in describe_'
      BY <1>1, <1>3, SeenKeeps
    <2>2. FreshInv'
      BY <1>1, <1>3, FreshFollows DEF Call, Settled
    <2> QED
      BY <1>1, <1>2, <2>1, <2>2 DEF Call, Settled
  <1>4. CASE UNCHANGED <<describe_, seen>>
    <2>1. FreshInv'
      BY <1>1, <1>4 DEF FreshInv, Call, Settled
    <2> QED
      BY <1>1, <1>2, <1>4, <2>1 DEF Call, Settled
  <1> QED
    BY <1>3, <1>4 DEF Call, Settled

(* A step of ReportSoqlBind. *)
LEMMA SoqlStep ==
  ASSUME BridgeInv, Call, SoqlOK(bind', step'), step' \in {"none", "base", "columns", "filters"},
         status' = IF step' = "none" THEN "done" ELSE "bridge"
  PROVE  BridgeInv'
  <1>1. bind'.kind = "soql"
    BY DEF SoqlOK, IsSoqlBind
  <1>2. SoqlOK(bind, step)'
    BY SoqlStable DEF Call
  <1>3. SoqlInv'
    BY <1>2 DEF SoqlInv
  <1>4. AnswerInv'
    BY <1>1 DEF AnswerInv, SampleWellFormed
  <1>5. BridgeTypeOK'
    BY <1>1, CallKeeps DEF BridgeTypeOK
  <1> QED
    BY <1>3, <1>4, <1>5, CallKeeps DEF BridgeInv

(* A call that fails. *)
LEMMA FailedStep ==
  ASSUME BridgeInv, Call, status' = "failed", UNCHANGED <<step, bind>>
  PROVE  BridgeInv'
  <1>1. BridgeTypeOK'
    BY CallKeeps DEF BridgeTypeOK, BridgeInv
  <1>2. SoqlInv' /\ AnswerInv'
    BY DEF SoqlInv, AnswerInv, SampleWellFormed
  <1> QED
    BY <1>1, <1>2, CallKeeps DEF BridgeInv

(* A call that answers at once. *)
LEMMA AnswerStep ==
  ASSUME BridgeInv, Call, status = "idle", status' = "done", step' = step,
         bind'.kind \in {"sample", "fields", "objects", "explain"}, AnswerInv'
  PROVE  BridgeInv'
  <1>1. step' = "none"
    BY DEF BridgeInv
  <1>2. BridgeTypeOK'
    BY <1>1, CallKeeps DEF BridgeTypeOK
  <1>3. SoqlInv'
    BY DEF SoqlInv
  <1> QED
    BY <1>1, <1>2, <1>3, CallKeeps DEF BridgeInv

(* What is known when a step begins. *)
LEMMA AtRest ==
  ASSUME BridgeInv
  PROVE  /\ describe_ \subseteq Objects /\ global_loaded_ \in BOOLEAN /\ calls \in 0 .. MaxCalls
         /\ status = "bridge" => SoqlOK(bind, step) /\ step # "none"
  BY DEF BridgeInv, BridgeTypeOK, EngineTypeOK, SoqlInv

(* A call begins: it is counted. *)
LEMMA Counted ==
  ASSUME BridgeInv, calls < MaxCalls, calls' = calls + 1
  PROVE  calls' \in 0 .. MaxCalls
  BY AtRest, MetadataEngineAssumption

(* The report is described. *)
LEMMA BeginStep ==
  ASSUME BridgeInv, NEW r \in Reports, ReportSoqlBind(r)
  PROVE  BridgeInv'
  <1>1. /\ calls < MaxCalls /\ calls' = calls + 1 /\ status' = "bridge" /\ step' = "base"
        /\ UNCHANGED <<walkVars, describe_, global_loaded_, dropped, changed, seen>>
    BY DEF ReportSoqlBind, engine, orgVars
  <1>2. Call
    BY <1>1, AtRest, Counted DEF Call, Settled
  <1>3. SoqlOK(bind', "base")
    BY BeginKeeps DEF ReportSoqlBind
  <1> QED
    BY <1>1, <1>2, <1>3, SoqlStep

(* The candidates of a base object are a list. *)
LEMMA CandidateRanks == \A r : DOMAIN BaseCandidates(r) \subseteq Nat
  <1> SUFFICES ASSUME NEW r PROVE DOMAIN BaseCandidates(r) \subseteq Nat
    OBVIOUS
  <1> DEFINE Source(name, by) == IF name = None THEN << >> ELSE << [ obj |-> name, by |-> by ] >>
  <1> DEFINE Names == {r.suffix, TheOnly(r.categories), r.builtin, DominantColumnPrefix(r)}
  <1> DEFINE Bys == {"custom_entity_suffix", "report_type_metadata",
                     "builtin_report_type_map", "column_prefix"}
  <1> DEFINE S == [ obj : Names, by : Bys ]
  <1>1. /\ Source(r.suffix, "custom_entity_suffix") \in Seq(S)
        /\ Source(TheOnly(r.categories), "report_type_metadata") \in Seq(S)
        /\ Source(r.builtin, "builtin_report_type_map") \in Seq(S)
        /\ Source(DominantColumnPrefix(r), "column_prefix") \in Seq(S)
    <2>1. \A name \in Names, by \in Bys : [ obj |-> name, by |-> by ] \in S
      OBVIOUS
    <2> HIDE DEF S
    <2>2. \A x \in S : << x >> \in Seq(S)
      OBVIOUS
    <2>3. \A name \in Names, by \in Bys : Source(name, by) \in Seq(S)
      BY <2>1, <2>2
    <2> QED
      BY <2>3
  <1>2. BaseCandidates(r) \in Seq(S)
    <2> HIDE DEF S
    <2> QED
      BY <1>1 DEF BaseCandidates
  <1> HIDE DEF S
  <1> QED
    BY <1>2

(* A base object is looked for. *)
LEMMA BaseStep ==
  ASSUME BridgeInv, ResolveBase
  PROVE  BridgeInv'
  <1> DEFINE sources == BaseCandidates(bind.report)
  <1> DEFINE valid == { i \in DOMAIN sources : sources[i].obj \in Safe /\ sources[i].obj \in Queryable }
  <1> DEFINE best == sources[Min(valid)]
  <1> DEFINE found == [bind EXCEPT !.base = best.obj, !.by = best.by]
  <1>1. /\ status = "bridge" /\ step = "base" /\ bind.blocked_by = None
        /\ bind' = IF valid = {} THEN set_block(bind, "base_object")
                   ELSE IF best.by = "column_prefix" THEN set_block(found, "base_object")
                   ELSE found
        /\ global_loaded_' \in BOOLEAN
        /\ step' = IF bind'.base = None THEN "filters" ELSE "columns"
        /\ UNCHANGED <<walkVars, describe_, calls, status, dropped, changed, seen>>
    <2>1. global_loaded_ \in BOOLEAN
      BY AtRest
    <2> QED
      BY <2>1 DEF ResolveBase, orgVars, translatable
  <1>2. Call
    BY <1>1, AtRest DEF Call, Settled
  <1>3. SoqlOK(bind, "base")
    BY <1>1, AtRest
  <1>4. CASE valid = {}
    <2>1. bind' = set_block(bind, "base_object")
      BY <1>1, <1>4
    <2>2. SoqlOK(bind', "filters") /\ bind'.base = None
      BY <1>1, <1>3, <2>1, NoBaseKeeps
    <2> QED
      BY <1>1, <1>2, <2>2, SoqlStep
  <1>5. CASE valid # {}
    <2>1. Min(valid) \in valid
      <3>1. valid \subseteq Nat
        BY CandidateRanks
      <3> HIDE DEF valid
      <3> QED
        BY <1>5, <3>1, LeastRank
    <2>2. best.obj \in Queryable
      BY <2>1
    <2>3. PICK o, by : o \in Queryable /\ o = best.obj /\ by = best.by
      BY <2>2
    <2>4. bind' = IF by = "column_prefix" THEN set_block(found, "base_object") ELSE found
      BY <1>1, <1>5, <2>3
    <2>5. found = WithBase(bind, o, by)
      BY <2>3 DEF WithBase
    <2> HIDE DEF found, best, valid, sources
    <2>6. SoqlOK(bind', "columns") /\ bind'.base = o
      <3>1. /\ by # "column_prefix" => SoqlOK(found, "columns")
            /\ by = "column_prefix" => SoqlOK(set_block(found, "base_object"), "columns")
            /\ found.base = o /\ set_block(found, "base_object").base = o
        <4>1. bind.blocked_by = None
          BY <1>1
        <4> QED
          BY <1>3, <2>3, <2>5, <4>1, BaseFoundKeeps
      <3> QED
        BY <2>4, <3>1
    <2>7. o # None
      BY <2>3, MetadataEngineAssumption, ReportBridgeAssumption
    <2> QED
      BY <1>1, <1>2, <2>6, <2>7, SoqlStep
  <1> QED
    BY <1>4, <1>5
(* Describe Global fails, or the report is blocked already. *)
LEMMA NoBaseStep ==
  ASSUME BridgeInv, BaseNotValidated \/ SkipBase
  PROVE  BridgeInv'
  <1>1. /\ status = "bridge" /\ step = "base" /\ step' = "filters"
        /\ UNCHANGED <<walkVars, describe_, global_loaded_, calls, status, dropped, changed, seen>>
        /\ \/ bind.blocked_by = None /\ bind' = set_block(bind, "base_object")
           \/ bind.blocked_by # None /\ bind' = bind
    BY DEF BaseNotValidated, SkipBase, engine, orgVars, translatable
  <1>2. Call
    BY <1>1, AtRest DEF Call, Settled
  <1>3. SoqlOK(bind, "base")
    BY <1>1, AtRest
  <1>4. SoqlOK(bind', "filters")
    BY <1>1, <1>3, NoBaseKeeps
  <1> QED
    BY <1>1, <1>2, <1>4, SoqlStep

(* A relationship leads to a queryable object. *)
LEMMA RelationshipTarget ==
  \A o, name : ResolveRelationship(o, name) \in Queryable \union {None}
  BY DEF ResolveRelationship

(* The objects a token asks for are objects of the org. *)
LEMMA DescribedObjects ==
  ASSUME NEW base \in Queryable, NEW token
  PROVE  \A i \in DOMAIN Described(base, token) : Described(base, token)[i] \in Objects
  <1>1. \A o \in Queryable : o \in Objects
    BY MetadataEngineAssumption
  <1>2. PICK target : target = ResolveRelationship(base, token[1])
    OBVIOUS
  <1>3. target \in Queryable \union {None}
    BY <1>2, RelationshipTarget
  <1>4. \/ Described(base, token) = << >>
        \/ target # None /\ Described(base, token) = << base, target >>
        \/ Described(base, token) = << base >>
    BY <1>2 DEF Described
  <1> QED
    BY <1>1, <1>3, <1>4

(* What the cache keeps of them. *)
LEMMA CachedObjects ==
  ASSUME NEW asked, describe_ \subseteq Objects, \A i \in DOMAIN asked : asked[i] \in Objects
  PROVE  describe_ \subseteq CachedUpToFailure(asked) /\ CachedUpToFailure(asked) \subseteq Objects
  BY DEF CachedUpToFailure

(* A column is judged, or its describe fails. *)
LEMMA ColumnStep ==
  ASSUME BridgeInv, ResolveColumn
  PROVE  BridgeInv'
  <1> DEFINE token == bind.report.columns[bind.next]
  <1> DEFINE asked == Described(bind.base, token)
  <1>1. /\ status = "bridge" /\ step = "columns" /\ bind.next <= Len(bind.report.columns)
        /\ describe_' = CachedUpToFailure(asked) /\ SeenFollows
        /\ \/ status' = "failed" /\ bind' = bind
           \/ status' = "bridge" /\ bind' = Advance(WithColumn(bind, token))
        /\ UNCHANGED <<walkVars, global_loaded_, calls, dropped, changed, step>>
    BY DEF ResolveColumn, orgVars
  <1>2. SoqlOK(bind, "columns")
    BY <1>1, AtRest
  <1>3. bind.base \in Queryable
    BY <1>2 DEF SoqlOK
  <1>4. describe_ \subseteq describe_' /\ describe_' \subseteq Objects
    <2>1. \A i \in DOMAIN asked : asked[i] \in Objects
      BY <1>3, DescribedObjects
    <2> HIDE DEF asked
    <2> QED
      BY <1>1, <2>1, AtRest, CachedObjects
  <1> HIDE DEF asked
  <1>5. Call
    BY <1>1, <1>4, AtRest DEF Call, Settled
  <1>6. SoqlOK(Advance(WithColumn(bind, token)), "columns")
    BY <1>1, <1>2, ColumnKeeps
  <1> HIDE DEF token
  <1>7. CASE status' = "failed" /\ bind' = bind
    BY <1>1, <1>5, <1>7, FailedStep
  <1>8. CASE status' = "bridge" /\ bind' = Advance(WithColumn(bind, token))
    BY <1>1, <1>5, <1>6, <1>8, SoqlStep
  <1> QED
    BY <1>1, <1>7, <1>8

(* The columns are done. *)
LEMMA ColumnsDoneStep ==
  ASSUME BridgeInv, ColumnsDone
  PROVE  BridgeInv'
  <1>1. /\ status = "bridge" /\ step = "columns" /\ bind.next > Len(bind.report.columns)
        /\ step' = "filters"
        /\ UNCHANGED <<walkVars, describe_, global_loaded_, calls, status, dropped, changed, seen>>
    BY DEF ColumnsDone, engine, orgVars
  <1>2. Call
    BY <1>1, AtRest DEF Call, Settled
  <1>3. SoqlOK(bind, "columns")
    BY <1>1, AtRest
  <1>4. SoqlOK(bind', "filters")
    BY <1>1, <1>3, ColumnsDoneKeeps DEF ColumnsDone
  <1> QED
    BY <1>1, <1>2, <1>4, SoqlStep

(* A filter is judged, or its describe fails. *)
LEMMA FilterStep ==
  ASSUME BridgeInv, TranslateFilter
  PROVE  BridgeInv'
  <1> DEFINE f == bind.report.filters[bind.next]
  <1> DEFINE asked == IF SafeOperator(f) /\ bind.base # None THEN Described(bind.base, f.field)
                      ELSE << >>
  <1> DEFINE judged == Advance(IF ~ SafeOperator(f) THEN set_block(bind, "operator")
                               ELSE IF bind.base = None THEN bind ELSE WithFilter(bind, f))
  <1>1. /\ status = "bridge" /\ step = "filters" /\ bind.next <= Len(bind.report.filters)
        /\ describe_' = CachedUpToFailure(asked) /\ SeenFollows
        /\ \/ status' = "failed" /\ bind' = bind
           \/ status' = "bridge" /\ bind' = judged
        /\ UNCHANGED <<walkVars, global_loaded_, calls, dropped, changed, step>>
    BY DEF TranslateFilter, orgVars
  <1>2. SoqlOK(bind, "filters")
    BY <1>1, AtRest
  <1>3. bind.base \in Queryable \union {None}
    BY <1>2 DEF SoqlOK
  <1>4. describe_ \subseteq describe_' /\ describe_' \subseteq Objects
    <2>1. \A i \in DOMAIN asked : asked[i] \in Objects
      BY <1>3, DescribedObjects
    <2> HIDE DEF asked
    <2> QED
      BY <1>1, <2>1, AtRest, CachedObjects
  <1> HIDE DEF asked
  <1>5. Call
    BY <1>1, <1>4, AtRest DEF Call, Settled
  <1>6. SoqlOK(judged, "filters")
    BY <1>1, <1>2, FilterKeeps
  <1> HIDE DEF judged
  <1>7. CASE status' = "failed" /\ bind' = bind
    BY <1>1, <1>5, <1>7, FailedStep
  <1>8. CASE status' = "bridge" /\ bind' = judged
    BY <1>1, <1>5, <1>6, <1>8, SoqlStep
  <1> QED
    BY <1>1, <1>7, <1>8

(* The filter logic is judged and the bind ends. *)
LEMMA FinishStep ==
  ASSUME BridgeInv, FinishSoql
  PROVE  BridgeInv'
  <1>1. /\ status = "bridge" /\ step = "filters" /\ bind.next > Len(bind.report.filters)
        /\ step' = "none" /\ status' = "done"
        /\ UNCHANGED <<walkVars, describe_, global_loaded_, calls, dropped, changed, seen>>
    BY DEF FinishSoql, engine, orgVars
  <1>2. Call
    BY <1>1, AtRest DEF Call, Settled
  <1>3. SoqlOK(bind, "filters")
    BY <1>1, AtRest
  <1>4. SoqlOK(bind', "none")
    BY <1>1, <1>3, FinishKeeps DEF FinishSoql
  <1> QED
    BY <1>1, <1>2, <1>4, SoqlStep
(* A report sample. *)
LEMMA SampleStep ==
  ASSUME BridgeInv, NEW s \in Samples, ReportBind(s)
  PROVE  BridgeInv'
  <1>1. /\ status = "idle" /\ calls < MaxCalls /\ calls' = calls + 1
        /\ status' \in {"done", "failed"}
        /\ UNCHANGED <<walkVars, describe_, global_loaded_, dropped, changed, seen, step>>
    BY DEF ReportBind, engine, orgVars
  <1>2. Call
    BY <1>1, AtRest, Counted DEF Call, Settled
  <1>3. CASE ~ s.tabular
    <2>1. status' = "failed" /\ bind' = bind
      BY <1>3, Zenon DEF ReportBind
    <2> QED
      BY <1>1, <1>2, <2>1, FailedStep
  <1>4. CASE s.tabular
    <2>1. /\ bind'.kind = "sample" /\ bind'.report = s /\ bind'.names = ColumnNames(s.columns)
          /\ \A i \in DOMAIN bind'.rows : DOMAIN bind'.rows[i] = DOMAIN s.columns
      <3> DEFINE cells == [i \in DOMAIN s.rows |-> [c \in DOMAIN s.columns |->
                             IF c <= s.rows[i] THEN "cell" ELSE ""]]
      <3> DEFINE all == s.allData # "absent"
      <3> DEFINE cut == s.allData = "false"
      <3>1. bind' = [ kind |-> "sample", report |-> s, names |-> ColumnNames(s.columns),
                      rows |-> cells, has_all_data |-> all, truncated |-> cut ]
        BY <1>4, Zenon DEF ReportBind
      <3>2. \A i \in DOMAIN cells : DOMAIN cells[i] = DOMAIN s.columns
        OBVIOUS
      <3> HIDE DEF cells, all, cut
      <3> QED
        BY <3>1, <3>2
    <2>2. status' = "done"
      BY <1>4, Zenon DEF ReportBind
    <2>3. SampleWellFormed'
      <3>1. PICK names : names = ColumnNames(s.columns)
        OBVIOUS
      <3>2. /\ IsInjective(names) /\ Range(names) \intersect Diagnostic = {}
            /\ Len(names) = Len(s.columns) /\ DOMAIN names = DOMAIN s.columns
        BY <3>1, SampleNames
      <3> QED
        BY <2>1, <3>1, <3>2 DEF SampleWellFormed
    <2>4. AnswerInv'
      BY <2>1, <2>3 DEF AnswerInv
    <2> QED
      BY <1>1, <1>2, <2>1, <2>2, <2>4, AnswerStep
  <1> QED
    BY <1>3, <1>4

(* The fields of an object. *)
LEMMA FieldsStep ==
  ASSUME BridgeInv, NEW o \in Objects, MetaFieldsBind(o)
  PROVE  BridgeInv'
  <1>1. /\ status = "idle" /\ calls < MaxCalls /\ calls' = calls + 1
        /\ status' \in {"done", "failed"} /\ describe_' = Cached(o) /\ SeenFollows
        /\ UNCHANGED <<walkVars, global_loaded_, dropped, changed, step>>
    BY DEF MetaFieldsBind, orgVars
  <1>2. Call
    BY <1>1, AtRest, Counted, CachedGrows DEF Call, Settled
  <1>3. CASE status' = "failed"
    <2>1. bind' = bind
      BY <1>3 DEF MetaFieldsBind
    <2> QED
      BY <1>1, <1>2, <1>3, <2>1, FailedStep
  <1>4. CASE status' = "done"
    <2>1. bind' = [ kind |-> "fields", object |-> o, fields |-> FieldsOf(o) ]
      BY <1>4 DEF MetaFieldsBind
    <2>2. bind'.kind = "fields" /\ bind'.object = o /\ bind'.fields = FieldsOf(o)
      BY <2>1
    <2>3. FieldsOf(o)' = FieldsOf(o)
      BY <1>2, FieldsStable DEF Call
    <2>4. FieldsOf(bind.object)' = FieldsOf(o)
      BY <2>2, <2>3 DEF FieldsOf
    <2>5. AnswerInv'
      BY <2>2, <2>4 DEF AnswerInv, SampleWellFormed
    <2> QED
      BY <1>1, <1>2, <1>4, <2>2, <2>5, AnswerStep
  <1> QED
    BY <1>1, <1>3, <1>4

(* The global list. *)
LEMMA ObjectsStep ==
  ASSUME BridgeInv, MetaObjectsBind
  PROVE  BridgeInv'
  <1>1. /\ status = "idle" /\ calls < MaxCalls /\ calls' = calls + 1 /\ status' = "done"
        /\ global_loaded_' = TRUE /\ bind' = [ kind |-> "objects" ]
        /\ UNCHANGED <<walkVars, describe_, dropped, changed, seen, step>>
    BY DEF MetaObjectsBind, orgVars
  <1>2. Call
    BY <1>1, AtRest, Counted DEF Call, Settled
  <1>3. bind'.kind = "objects"
    BY <1>1
  <1>4. AnswerInv'
    BY <1>3 DEF AnswerInv, SampleWellFormed
  <1> QED
    BY <1>1, <1>2, <1>3, <1>4, AnswerStep

(* A reason that is about a field tells whether the describe has it. *)
LEMMA ReasonTells ==
  ASSUME NEW item, NEW o, NEW ok \in BOOLEAN,
         ExplainReason(item, o, ok)
           \notin {"relationship_traversed", "metadata_unavailable", "complex_expression"}
  PROVE  (ExplainReason(item, o, ok) # "unresolved_field") = (item.field \in FieldsOf(o))
  <1>1. CASE item.role = "relationship"
    BY <1>1 DEF ExplainReason
  <1>2. CASE item.role # "relationship" /\ ~ ok
    BY <1>2 DEF ExplainReason
  <1>3. CASE item.role # "relationship" /\ ok
    <2>1. ExplainReason(item, o, ok) =
            IF item.field = None THEN "complex_expression"
            ELSE IF item.field \notin FieldsOf(o) THEN "unresolved_field"
            ELSE IF item.role = "projection" THEN "projected"
            ELSE IF item.role = "aggregate" THEN "aggregate_pushdown"
            ELSE IF item.pushed THEN "pushed_to_soql"
            ELSE IF << o, item.field >> \notin Filterable THEN "not_filterable"
            ELSE "unsupported_operator"
      BY <1>3 DEF ExplainReason
    <2> QED
      BY <2>1
  <1> QED
    BY <1>1, <1>2, <1>3

(* A request that answers nothing. *)
LEMMA RequestFailsStep ==
  ASSUME BridgeInv, RequestFails
  PROVE  BridgeInv'
  <1>1. /\ calls < MaxCalls /\ calls' = calls + 1 /\ status' = "failed"
        /\ UNCHANGED <<walkVars, describe_, global_loaded_, dropped, changed, seen, step, bind>>
    BY DEF RequestFails, engine, bridgeVars
  <1>2. Call
    BY <1>1, AtRest, Counted DEF Call, Settled
  <1> QED
    BY <1>1, <1>2, FailedStep
(* The last scan is explained. *)
LEMMA ExplainStep ==
  ASSUME BridgeInv, NEW snap \in Snapshots, ExplainBind(snap)
  PROVE  BridgeInv'
  <1> DEFINE ok == snap.attached /\ Describable(snap.object)
  <1> DEFINE about == [ i \in DOMAIN snap.items |-> ExplainReason(snap.items[i], snap.object, ok) ]
  <1> DEFINE tail == IF snap.object = None THEN << >>
                     ELSE << IF snap.count THEN "count_pushdown" ELSE "count_not_pushed", "transport" >>
  <1>1. /\ status = "idle" /\ calls < MaxCalls /\ calls' = calls + 1 /\ status' = "done"
        /\ describe_' = IF snap.attached THEN Cached(snap.object) ELSE describe_
        /\ SeenFollows /\ UNCHANGED <<walkVars, global_loaded_, dropped, changed, step>>
        /\ bind' = [ kind |-> "explain", snap |-> snap, reasons |-> about \o tail ]
    BY DEF ExplainBind, orgVars
  <1>2. describe_ \subseteq describe_' /\ describe_' \subseteq Objects
    BY <1>1, AtRest, CachedGrows, ReportBridgeAssumption
  <1>3. Call
    BY <1>1, <1>2, AtRest, Counted DEF Call, Settled
  <1>4. \A i \in DOMAIN snap.items : (about \o tail)[i] = ExplainReason(snap.items[i], snap.object, ok)
    <2> DEFINE S == { ExplainReason(snap.items[i], snap.object, ok) : i \in DOMAIN snap.items }
    <2>1. snap.items \in Seq(Range(snap.items))
      BY ReportBridgeAssumption
    <2>2. PICK n \in Nat : n = Len(snap.items) /\ DOMAIN snap.items = 1 .. n
      BY <2>1, LenProperties
    <2>3. \A i \in 1 .. n : about[i] = ExplainReason(snap.items[i], snap.object, ok)
      BY <2>2
    <2>4. about \in [ 1 .. n -> S ]
      BY <2>2
    <2>5. tail \in Seq({"count_pushdown", "count_not_pushed", "transport"})
      <3>1. PICK c : c = IF snap.count THEN "count_pushdown" ELSE "count_not_pushed"
        OBVIOUS
      <3>2. PICK T : T = {"count_pushdown", "count_not_pushed", "transport"}
        OBVIOUS
      <3>3. c \in T /\ "transport" \in T
        BY <3>1, <3>2
      <3>4. << >> \in Seq(T) /\ \A x, y \in T : << x, y >> \in Seq(T)
        OBVIOUS
      <3>5. tail \in Seq(T)
        <4>1. CASE snap.object = None
          BY <3>4, <4>1
        <4>2. CASE snap.object # None
          <5>1. << c, "transport" >> \in Seq(T)
            BY <3>3, <3>4
          <5> QED
            BY <3>1, <4>2, <5>1
        <4> QED
          BY <4>1, <4>2
      <3> QED
        BY <3>2, <3>5
    <2> HIDE DEF S, about, tail, ok
    <2>6. about \in Seq(S) /\ Len(about) = n
      BY <2>4
    <2>7. \A i \in 1 .. n : (about \o tail)[i] = about[i]
      BY <2>5, <2>6, ConcatProperties
    <2> QED
      BY <2>2, <2>3, <2>7
  <1>5. ok \in BOOLEAN
    OBVIOUS
  <1> HIDE DEF about, tail, ok
  <1>6. bind'.kind = "explain" /\ bind'.snap = snap /\ bind'.reasons = about \o tail
    BY <1>1
  <1>7. \A o : FieldsOf(o)' = FieldsOf(o)
    BY <1>3, FieldsStable DEF Call
  <1>8. FieldsOf(bind.snap.object)' = FieldsOf(snap.object)
    BY <1>6, <1>7 DEF FieldsOf
  <1>9. AnswerInv'
    <2> SUFFICES ASSUME NEW i \in DOMAIN snap.items,
                        bind'.reasons[i] \notin {"relationship_traversed", "metadata_unavailable",
                                                 "complex_expression"}
                 PROVE  (bind'.reasons[i] # "unresolved_field")
                          = (bind'.snap.items[i].field \in FieldsOf(bind.snap.object)')
      BY <1>6 DEF AnswerInv, SampleWellFormed
    <2>1. bind'.reasons[i] = ExplainReason(snap.items[i], snap.object, ok)
      BY <1>4, <1>6
    <2>2. (bind'.reasons[i] # "unresolved_field") = (snap.items[i].field \in FieldsOf(snap.object))
      BY <1>5, <2>1, ReasonTells
    <2> QED
      BY <1>6, <1>8, <2>2
  <1> QED
    BY <1>1, <1>3, <1>6, <1>9, AnswerStep

-----------------------------------------------------------------------------
(* The theorems.                                                           *)

(* The invariant holds before the first call. *)
LEMMA BridgeInvInit == BridgeInit => BridgeInv
  <1> SUFFICES ASSUME BridgeInit PROVE BridgeInv
    OBVIOUS
  <1>1. /\ down \subseteq Objects /\ describe_ = {} /\ global_loaded_ = FALSE /\ root = None
        /\ max_depth = 1 /\ want = << >> /\ stack = << >> /\ visited = << >> /\ rows = << >>
        /\ calls = 0 /\ status = "idle" /\ dropped = {} /\ seen = {} /\ changed = {}
        /\ step = "none" /\ bind = NoBind
    BY MetadataEngineAssumption DEF BridgeInit, EngineInit
  <1>2. Range(want) = {} /\ Len(stack) = 0 /\ bind.kind = "none"
    BY <1>1 DEF Range, NoBind
  <1>3. max_depth \in 1 .. kMaxDepth /\ calls \in 0 .. MaxCalls /\ Len(stack) <= max_depth
    BY <1>1, <1>2, MetadataEngineAssumption
  <1>4. EngineTypeOK
    BY <1>1, <1>2, <1>3 DEF EngineTypeOK
  <1>5. BridgeTypeOK
    BY <1>1, <1>2, <1>4 DEF BridgeTypeOK
  <1>6. WalkInv /\ FreshInv /\ SoqlInv /\ AnswerInv
    BY <1>1 DEF WalkInv, FreshInv, SoqlInv, AnswerInv, SampleWellFormed
  <1> QED
    BY <1>1, <1>5, <1>6 DEF BridgeInv

(* Every step keeps it. *)
LEMMA BridgeInvNext == BridgeInv /\ [BridgeNext]_allVars => BridgeInv'
  <1> SUFFICES ASSUME BridgeInv, [BridgeNext]_allVars PROVE BridgeInv'
    OBVIOUS
  <1>1. CASE UNCHANGED allVars
    <2>1. /\ UNCHANGED <<down, describe_, global_loaded_, root, max_depth, want>>
          /\ UNCHANGED <<stack, visited, rows, calls, status>>
          /\ UNCHANGED <<dropped, seen, changed, step, bind>>
      BY <1>1 DEF allVars, engineVars, bridgeVars
    <2>2. BridgeTypeOK' /\ WalkInv' /\ FreshInv'
      BY <2>1 DEF BridgeInv, BridgeTypeOK, EngineTypeOK, WalkInv, FreshInv
    <2>3. Settled
      BY <2>1 DEF Settled
    <2>4. SoqlInv'
      BY <2>1, <2>3, SoqlStable DEF SoqlInv, BridgeInv
    <2>5. FieldsOf(bind.object)' = FieldsOf(bind.object)
          /\ FieldsOf(bind.snap.object)' = FieldsOf(bind.snap.object)
      BY <2>1 DEF FieldsOf
    <2>6. AnswerInv'
      BY <2>1, <2>5 DEF AnswerInv, SampleWellFormed, BridgeInv
    <2> QED
      BY <2>1, <2>2, <2>4, <2>6 DEF BridgeInv
  <1>2. CASE GraphStep
    BY <1>2, GraphStepKeeps
  <1>3. CASE RefreshCatalog \/ \E o \in Objects : RefreshObject(o)
    BY <1>3, RefreshKeeps
  <1>4. CASE ReturnRows
    BY <1>4, ReturnKeeps
  <1>5. CASE SchemaChanges
    BY <1>5, SchemaKeeps
  <1>6. CASE \E r \in Reports : ReportSoqlBind(r)
    BY <1>6, BeginStep
  <1>7. CASE ResolveBase
    BY <1>7, BaseStep
  <1>8. CASE BaseNotValidated \/ SkipBase
    BY <1>8, NoBaseStep
  <1>9. CASE ResolveColumn
    BY <1>9, ColumnStep
  <1>10. CASE ColumnsDone
    BY <1>10, ColumnsDoneStep
  <1>11. CASE TranslateFilter
    BY <1>11, FilterStep
  <1>12. CASE FinishSoql
    BY <1>12, FinishStep
  <1>13. CASE \E s \in Samples : ReportBind(s)
    BY <1>13, SampleStep
  <1>14. CASE \E o \in Objects : MetaFieldsBind(o)
    BY <1>14, FieldsStep
  <1>15. CASE MetaObjectsBind
    BY <1>15, ObjectsStep
  <1>16. CASE \E snap \in Snapshots : ExplainBind(snap)
    BY <1>16, ExplainStep
  <1>17. CASE RequestFails
    BY <1>17, RequestFailsStep
  <1> QED
    BY <1>1, <1>2, <1>3, <1>4, <1>5, <1>6, <1>7, <1>8, <1>9, <1>10, <1>11, <1>12, <1>13,
       <1>14, <1>15, <1>16, <1>17, Zenon DEF BridgeNext

(* The inductive invariant of the functions on the shared engine. *)
THEOREM BridgeInvariant == BridgeSpec => []BridgeInv
  BY BridgeInvInit, BridgeInvNext, PTL DEF BridgeSpec

(* Every variable of the engine and of the functions that share it keeps   *)
(* its type, and no bind outlives its call, whatever the org, its reports  *)
(* and the calls.                                                          *)
THEOREM BridgeTypeCorrect == BridgeSpec => []BridgeTypeOK
  <1>1. BridgeInv => BridgeTypeOK
    BY DEF BridgeInv
  <1> QED
    BY <1>1, BridgeInvariant, PTL

(* ReportSoqlBind never drops a part of a report silently: a translatable  *)
(* report has every column and every filter in its SOQL, and any other one *)
(* is blocked by the first reason that applies, for every report, every    *)
(* schema and every state of the cache.                                    *)
THEOREM TranslationIsExact == BridgeSpec => []TranslationExact
  <1>1. BridgeInv => TranslationExact
    BY ExactWhenBound DEF BridgeInv
  <1> QED
    BY <1>1, BridgeInvariant, PTL

(* What a function answers about an object refreshed since it last changed *)
(* is true of the org, whichever calls filled the shared cache and however *)
(* they ended.                                                             *)
THEOREM AnswersAreFresh == BridgeSpec => []AnswersFresh
  <1>1. BridgeInv => AnswersFresh
    BY Fresh DEF BridgeInv
  <1> QED
    BY <1>1, BridgeInvariant, PTL

(* Whatever the labels of a report's columns, the sample's columns have    *)
(* names of their own, none of them that of a diagnostic column, and every *)
(* row has a cell for each: the disambiguation of ReportBind ends and      *)
(* never collides.                                                         *)
THEOREM SamplesAreWellFormed == BridgeSpec => []SampleWellFormed
  <1>1. BridgeInv => SampleWellFormed
    BY DEF BridgeInv, AnswerInv
  <1> QED
    BY <1>1, BridgeInvariant, PTL

(* What is known of the rows of a walk holds before the first call. *)
LEMMA GraphInvInit == BridgeInit => GraphInv
  <1> SUFFICES ASSUME BridgeInit PROVE GraphInv
    OBVIOUS
  <1>1. rows = << >> /\ status = "idle"
    BY DEF BridgeInit, EngineInit
  <1>2. << >> \in Seq(Range(<< >>)) /\ IsInjective(<< >>)
    BY DEF IsInjective
  <1> QED
    BY <1>1, <1>2 DEF GraphInv

(* salesforce_relationship_graph reports every edge of every chain of      *)
(* distinct objects up to max_depth exactly once and with its own status,  *)
(* for every schema, whatever earlier calls left in the cache: the one     *)
(* visited set the walk extends and cuts back, and the cache it fills on   *)
(* the way, lose no branch and repeat none.                                *)
THEOREM GraphIsExact == BridgeSpec => []GraphExact
  <1>1. BridgeInv /\ GraphInv /\ [BridgeNext]_allVars => GraphInv'
    <2> SUFFICES ASSUME BridgeInv, GraphInv, [BridgeNext]_allVars PROVE GraphInv'
      OBVIOUS
    <2>1. EngineTypeOK /\ WalkInv
      BY DEF BridgeInv, BridgeTypeOK
    <2> QED
      BY <2>1, GraphInvNext
  <1>2. BridgeInv /\ GraphInv => GraphExact
    <2> SUFFICES ASSUME BridgeInv, GraphInv PROVE GraphExact
      OBVIOUS
    <2>1. WalkOK
      BY DEF BridgeInv, BridgeTypeOK, WalkOK
    <2>2. status = "walking" /\ stack = << >> =>
            { r \in Range(rows) : r.way = want[1] } = EdgesOf(want[1])
      BY <2>1, RowsAreEdges DEF GraphInv
    <2> QED
      BY <2>2 DEF GraphInv, GraphExact
  <1> QED
    BY <1>1, <1>2, GraphInvInit, BridgeInvariant, PTL DEF BridgeSpec

-----------------------------------------------------------------------------
(* Functions by recursion on trees.                                        *)

(* The equation of a function by recursion on trees: a node has children   *)
(* and a value made of theirs.                                             *)
SolvesOn(f, D, T, Kids, Step) ==
  /\ f \in [D -> T]
  /\ \A e \in D : /\ \A k \in DOMAIN Kids[e] : Kids[e][k] \in D
                  /\ f[e] = Step[<<e, [k \in DOMAIN Kids[e] |-> f[Kids[e][k]]]>>]

(* The children of a node are lighter than the node. *)
Ranked(S, Weight, Kids) ==
  /\ Weight \in [S -> Nat] /\ Kids \in [S -> Seq(S)]
  /\ \A e \in S : \A k \in DOMAIN Kids[e] : Weight[Kids[e][k]] < Weight[e]

(* The nodes lighter than n. *)
Below(S, Weight, n) == {e \in S : Weight[e] < n}

(* Two solutions agree where both are defined. *)
LEMMA OneSolution ==
  ASSUME NEW S, NEW T, NEW Weight, NEW Kids, NEW Step, Ranked(S, Weight, Kids),
         NEW D \in SUBSET S, NEW E \in SUBSET S, NEW f, NEW g,
         SolvesOn(f, D, T, Kids, Step), SolvesOn(g, E, T, Kids, Step)
  PROVE  \A e \in D \cap E : f[e] = g[e]
  <1> DEFINE Bad == {e \in D \cap E : f[e] # g[e]}
  <1>1. SUFFICES ASSUME Bad # {} PROVE FALSE
    OBVIOUS
  <1>2. {Weight[e] : e \in Bad} \in SUBSET Nat /\ {Weight[e] : e \in Bad} # {}
    BY <1>1 DEF Ranked
  <1>3. PICK m \in {Weight[e] : e \in Bad} : \A n \in {Weight[e] : e \in Bad} : m <= n
    BY <1>2, LeastRank
  <1>4. PICK e \in Bad : Weight[e] = m
    OBVIOUS
  <1>5. ASSUME NEW k \in DOMAIN Kids[e] PROVE f[Kids[e][k]] = g[Kids[e][k]]
    <2>1. Kids[e][k] \in D \cap E /\ Weight[Kids[e][k]] < m
      BY <1>4 DEF SolvesOn, Ranked
    <2>2. Weight[Kids[e][k]] \in Nat /\ m \in Nat
      BY <2>1, <1>2 DEF Ranked
    <2>3. CASE f[Kids[e][k]] # g[Kids[e][k]]
      <3>1. Kids[e][k] \in Bad
        BY <2>1, <2>3
      <3>2. m <= Weight[Kids[e][k]]
        BY <3>1, <1>3
      <3> QED
        BY <3>2, <2>1, <2>2
    <2> QED
      BY <2>3
  <1>6. [k \in DOMAIN Kids[e] |-> f[Kids[e][k]]] = [k \in DOMAIN Kids[e] |-> g[Kids[e][k]]]
    BY <1>5
  <1>7. f[e] = Step[<<e, [k \in DOMAIN Kids[e] |-> f[Kids[e][k]]]>>]
    BY <1>4 DEF SolvesOn
  <1>8. g[e] = Step[<<e, [k \in DOMAIN Kids[e] |-> g[Kids[e][k]]]>>]
    BY <1>4 DEF SolvesOn
  <1> QED
    BY <1>4, <1>6, <1>7, <1>8

(* There is a solution on the nodes lighter than any n. *)
LEMMA SolutionsBelow ==
  ASSUME NEW S, NEW T, NEW Weight, NEW Kids, NEW Step, Ranked(S, Weight, Kids),
         Step \in [S \X Seq(T) -> T]
  PROVE  \A n \in Nat : \E f : SolvesOn(f, Below(S, Weight, n), T, Kids, Step)
  <1> DEFINE Solved(n) == \E f : SolvesOn(f, Below(S, Weight, n), T, Kids, Step)
             Bad == {n \in Nat : ~ Solved(n)}
  <1>1. Solved(0)
    <2>1. Below(S, Weight, 0) = {}
      BY DEF Below, Ranked
    <2>2. SolvesOn([e \in {} |-> 0], {}, T, Kids, Step)
      BY DEF SolvesOn
    <2> QED
      BY <2>1, <2>2
  <1>2. ASSUME NEW n \in Nat, Solved(n) PROVE Solved(n + 1)
    <2> DEFINE D == Below(S, Weight, n)
               E == Below(S, Weight, n + 1)
    <2>1. PICK f : SolvesOn(f, D, T, Kids, Step)
      BY <1>2
    <2> DEFINE Parts(e) == [k \in DOMAIN Kids[e] |-> f[Kids[e][k]]]
               g == [e \in E |-> Step[<<e, Parts(e)>>]]
    <2>2. D \subseteq E /\ E \subseteq S
      BY DEF Below, Ranked
    <2>3. ASSUME NEW e \in E PROVE \A k \in DOMAIN Kids[e] : Kids[e][k] \in D
      BY DEF Below, Ranked
    <2>4. ASSUME NEW e \in E PROVE Parts(e) \in Seq(T)
      <3>1. Kids[e] \in Seq(S)
        BY <2>2 DEF Ranked
      <3>2. DOMAIN Kids[e] = 1 .. Len(Kids[e]) /\ Len(Kids[e]) \in Nat
        BY <3>1
      <3>3. \A k \in DOMAIN Kids[e] : f[Kids[e][k]] \in T
        BY <2>1, <2>3 DEF SolvesOn
      <3> QED
        BY <3>2, <3>3
    <2>5. g \in [E -> T]
      BY <2>2, <2>4
    <2>6. ASSUME NEW e \in D PROVE g[e] = f[e]
      BY <2>1, <2>2 DEF SolvesOn
    <2>7. ASSUME NEW e \in E
          PROVE  g[e] = Step[<<e, [k \in DOMAIN Kids[e] |-> g[Kids[e][k]]]>>]
      <3>1. [k \in DOMAIN Kids[e] |-> g[Kids[e][k]]] = Parts(e)
        BY <2>3, <2>6
      <3> QED
        BY <3>1
    <2>8. SolvesOn(g, E, T, Kids, Step)
      <3> HIDE DEF g, D, E
      <3> QED
        BY <2>2, <2>3, <2>5, <2>7 DEF SolvesOn
    <2> QED
      BY <2>8
  <1>3. SUFFICES ASSUME Bad # {} PROVE FALSE
    OBVIOUS
  <1>4. PICK m \in Bad : \A n \in Bad : m <= n
    BY <1>3, LeastRank
  <1> HIDE DEF Solved
  <1>5. m # 0 /\ m \in Nat /\ ~ Solved(m)
    BY <1>1
  <1>6. m - 1 \in Nat /\ (m - 1) + 1 = m
    BY <1>5
  <1>7. Solved(m - 1)
    BY <1>4, <1>6
  <1>8. Solved((m - 1) + 1)
    BY <1>2, <1>6, <1>7
  <1> QED
    BY <1>5, <1>6, <1>8

(* There is one on all nodes. *)
LEMMA TreeRecursion ==
  ASSUME NEW S, NEW T, NEW Weight, NEW Kids, NEW Step, Ranked(S, Weight, Kids),
         Step \in [S \X Seq(T) -> T]
  PROVE  \E f : SolvesOn(f, S, T, Kids, Step)
  <1> DEFINE Solution(n) == CHOOSE f : SolvesOn(f, Below(S, Weight, n), T, Kids, Step)
             h == [e \in S |-> Solution(Weight[e] + 1)[e]]
  <1>1. ASSUME NEW n \in Nat PROVE SolvesOn(Solution(n), Below(S, Weight, n), T, Kids, Step)
    BY SolutionsBelow
  <1> HIDE DEF Solution
  <1>2. ASSUME NEW e \in S
        PROVE  /\ Weight[e] + 1 \in Nat
               /\ e \in Below(S, Weight, Weight[e] + 1)
               /\ Below(S, Weight, Weight[e] + 1) \in SUBSET S
    BY DEF Below, Ranked
  <1>3. ASSUME NEW e \in S, NEW d \in Below(S, Weight, Weight[e] + 1)
        PROVE  h[d] = Solution(Weight[e] + 1)[d]
    <2>1. d \in S
      BY <1>2
    <2>2. d \in Below(S, Weight, Weight[d] + 1) \cap Below(S, Weight, Weight[e] + 1)
      BY <1>2, <2>1
    <2>3. SolvesOn(Solution(Weight[d] + 1), Below(S, Weight, Weight[d] + 1), T, Kids, Step)
      BY <1>1, <1>2, <2>1
    <2>4. SolvesOn(Solution(Weight[e] + 1), Below(S, Weight, Weight[e] + 1), T, Kids, Step)
      BY <1>1, <1>2
    <2>5. /\ Below(S, Weight, Weight[d] + 1) \in SUBSET S
          /\ Below(S, Weight, Weight[e] + 1) \in SUBSET S
      BY <1>2, <2>1
    <2> HIDE DEF h
    <2>6. \A c \in Below(S, Weight, Weight[d] + 1) \cap Below(S, Weight, Weight[e] + 1) :
            Solution(Weight[d] + 1)[c] = Solution(Weight[e] + 1)[c]
      BY <2>3, <2>4, <2>5, OneSolution
    <2>7. Solution(Weight[d] + 1)[d] = Solution(Weight[e] + 1)[d]
      BY <2>2, <2>6
    <2> USE DEF h
    <2> QED
      BY <2>1, <2>7
  <1>4. ASSUME NEW e \in S
        PROVE  /\ h[e] \in T
               /\ \A k \in DOMAIN Kids[e] : Kids[e][k] \in S
               /\ h[e] = Step[<<e, [k \in DOMAIN Kids[e] |-> h[Kids[e][k]]]>>]
    <2> DEFINE s == Solution(Weight[e] + 1)
               D == Below(S, Weight, Weight[e] + 1)
    <2>1. SolvesOn(s, D, T, Kids, Step) /\ e \in D /\ D \subseteq S
      BY <1>1, <1>2
    <2>2. \A d \in D : h[d] = s[d]
      BY <1>3
    <2> HIDE DEF s, D, h
    <2>3. \A k \in DOMAIN Kids[e] : Kids[e][k] \in D
      BY <2>1 DEF SolvesOn
    <2>4. [k \in DOMAIN Kids[e] |-> h[Kids[e][k]]] = [k \in DOMAIN Kids[e] |-> s[Kids[e][k]]]
      BY <2>2, <2>3
    <2>5. s[e] \in T /\ s[e] = Step[<<e, [k \in DOMAIN Kids[e] |-> s[Kids[e][k]]]>>]
      BY <2>1 DEF SolvesOn
    <2>6. h[e] = s[e]
      BY <2>1, <2>2
    <2> QED
      BY <2>1, <2>3, <2>4, <2>5, <2>6
  <1>5. h \in [S -> T]
    BY <1>4
  <1>6. SolvesOn(h, S, T, Kids, Step)
    <2> HIDE DEF h
    <2> QED
      BY <1>4, <1>5 DEF SolvesOn
  <1> QED
    BY <1>6

-----------------------------------------------------------------------------
(* The translation of predicates.                                          *)

(* The parts of a predicate. *)
PartsOf == [e \in Predicates |-> IF e.is \in {"and", "or"} THEN e.args ELSE << >>]

(* The fields a predicate of each kind has, and where it has its parts. *)
LEMMA PredicateKinds ==
  ASSUME NEW e \in Predicates
  PROVE  \/ /\ e.is \in {"and", "or"} /\ e.args \in Seq(Predicates)
            /\ \A k \in DOMAIN e.args : Length[e.args[k]] < Length[e]
         \/ /\ e.field \in DOMAIN Fields
            /\ \/ /\ e.is = "compare" /\ e.op \in ComparisonOps /\ e.const \in Values
                  /\ e.flipped \in BOOLEAN
               \/ e.is = "distinct" /\ e.const \in ValueOrNull
               \/ /\ e.is = "between" /\ e.lo \in ValueOrNull /\ e.hi \in ValueOrNull
                  /\ e.lo_inc \in BOOLEAN /\ e.hi_inc \in BOOLEAN
               \/ e.is \in {"null", "notnull"}
               \/ e.is = "in" /\ e.consts \subseteq ValueOrNull
               \/ e.is = "like" /\ e.const \in Values
  <1>1. e \in ColumnPredicates \cup Conjunctions
    BY SoqlAssumption
  <1>2. CASE e \in Conjunctions
    BY <1>2, SoqlAssumption DEF Conjunctions
  <1>3. CASE e \in ColumnPredicates
    BY <1>3 DEF ColumnPredicates
  <1> QED
    BY <1>1, <1>2, <1>3

(* A predicate is longer than its parts. *)
LEMMA PredicatesRanked == Ranked(Predicates, Length, PartsOf)
  <1>1. Length \in [Predicates -> Nat]
    BY SoqlAssumption
  <1>2. ASSUME NEW e \in Predicates
        PROVE  /\ PartsOf[e] \in Seq(Predicates)
               /\ \A k \in DOMAIN PartsOf[e] : Length[PartsOf[e][k]] < Length[e]
    BY PredicateKinds DEF PartsOf
  <1>3. PartsOf \in [Predicates -> Seq(Predicates)]
    <2>1. PartsOf = [e \in Predicates |-> PartsOf[e]]
      BY DEF PartsOf
    <2> QED
      BY <1>2, <2>1
  <1> QED
    BY <1>1, <1>2, <1>3 DEF Ranked

(* The rows of a predicate, by those of its parts. *)
RowsOf(e, parts) ==
  CASE e.is = "and" -> { row \in Row : \A k \in DOMAIN parts : row \in parts[k] }
    [] e.is = "or" -> { row \in Row : \E k \in DOMAIN parts : row \in parts[k] }
    [] OTHER -> { row \in Row : SqlTrue(e, row[e.field]) }

(* SqlRows exists, and is what its definition says. *)
LEMMA SqlRowsAre ==
  /\ SqlRows \in [Predicates -> SUBSET Row]
  /\ \A e \in Predicates :
       SqlRows[e] =
         CASE e.is = "and" -> { row \in Row : \A k \in DOMAIN e.args : row \in SqlRows[e.args[k]] }
           [] e.is = "or" -> { row \in Row : \E k \in DOMAIN e.args : row \in SqlRows[e.args[k]] }
           [] OTHER -> { row \in Row : SqlTrue(e, row[e.field]) }
  <1> DEFINE Step == [x \in Predicates \X Seq(SUBSET Row) |-> RowsOf(x[1], x[2])]
             Body(g, e) ==
               CASE e.is = "and" -> { row \in Row : \A k \in DOMAIN e.args : row \in g[e.args[k]] }
                 [] e.is = "or" -> { row \in Row : \E k \in DOMAIN e.args : row \in g[e.args[k]] }
                 [] OTHER -> { row \in Row : SqlTrue(e, row[e.field]) }
  <1>1. Step \in [Predicates \X Seq(SUBSET Row) -> SUBSET Row]
    <2>1. \A e, p : RowsOf(e, p) \subseteq Row
      BY DEF RowsOf
    <2> QED
      BY <2>1
  <1>2. PICK f : SolvesOn(f, Predicates, SUBSET Row, PartsOf, Step)
    <2> HIDE DEF Step
    <2> QED
      BY <1>1, PredicatesRanked, TreeRecursion
  <1>3. ASSUME NEW e \in Predicates PROVE f[e] = Body(f, e)
    <2> DEFINE p == [k \in DOMAIN PartsOf[e] |-> f[PartsOf[e][k]]]
    <2>1. f[e] = Step[<<e, p>>] /\ f \in [Predicates -> SUBSET Row]
      BY <1>2 DEF SolvesOn
    <2>2. PartsOf[e] \in Seq(Predicates)
      BY PredicatesRanked DEF Ranked
    <2>3. p \in Seq(SUBSET Row)
      <3>1. DOMAIN PartsOf[e] = 1 .. Len(PartsOf[e]) /\ Len(PartsOf[e]) \in Nat
        BY <2>2
      <3>2. \A k \in DOMAIN PartsOf[e] : f[PartsOf[e][k]] \in SUBSET Row
        BY <2>1, <2>2
      <3> QED
        BY <3>1, <3>2
    <2>4. f[e] = RowsOf(e, p)
      <3> HIDE DEF p
      <3> QED
        BY <2>1, <2>3
    <2>5. CASE e.is \in {"and", "or"}
      <3>1. PartsOf[e] = e.args
        BY <2>5 DEF PartsOf
      <3>2. DOMAIN p = DOMAIN e.args /\ \A k \in DOMAIN e.args : p[k] = f[e.args[k]]
        BY <3>1
      <3> HIDE DEF p
      <3> QED
        BY <2>4, <2>5, <3>2 DEF RowsOf
    <2>6. CASE e.is \notin {"and", "or"}
      BY <2>4, <2>6 DEF RowsOf
    <2> QED
      BY <2>5, <2>6
  <1>4. f = [e \in Predicates |-> Body(f, e)]
    <2>1. f \in [Predicates -> SUBSET Row]
      BY <1>2 DEF SolvesOn
    <2> HIDE DEF Body
    <2> QED
      BY <1>3, <2>1
  <1>5. SqlRows = [e \in Predicates |-> Body(SqlRows, e)]
    BY <1>4 DEF SqlRows
  <1>6. ASSUME NEW e \in Predicates PROVE SqlRows[e] = Body(SqlRows, e)
    <2> HIDE DEF Body
    <2> QED
      BY <1>5
  <1>7. \A e : Body(SqlRows, e) \subseteq Row
    OBVIOUS
  <1>8. SqlRows \in [Predicates -> SUBSET Row]
    <2> HIDE DEF Body
    <2> QED
      BY <1>5, <1>7
  <1> QED
    BY <1>6, <1>8

(* The rows on which a predicate is alike, by those of its parts. *)
AlikeOf(e, parts) ==
  IF e.is \in {"and", "or"} THEN { row \in Row : \A k \in DOMAIN parts : row \in parts[k] }
  ELSE { row \in Row : OrgTrue(e, row[e.field]) <=> SqlTrue(e, row[e.field]) }

(* AlikeRows exists, and is what its definition says. *)
LEMMA AlikeRowsAre ==
  /\ AlikeRows \in [Predicates -> SUBSET Row]
  /\ \A e \in Predicates :
       AlikeRows[e] =
         IF e.is \in {"and", "or"}
         THEN { row \in Row : \A k \in DOMAIN e.args : row \in AlikeRows[e.args[k]] }
         ELSE { row \in Row : OrgTrue(e, row[e.field]) <=> SqlTrue(e, row[e.field]) }
  <1> DEFINE Step == [x \in Predicates \X Seq(SUBSET Row) |-> AlikeOf(x[1], x[2])]
             Body(g, e) ==
               IF e.is \in {"and", "or"}
               THEN { row \in Row : \A k \in DOMAIN e.args : row \in g[e.args[k]] }
               ELSE { row \in Row : OrgTrue(e, row[e.field]) <=> SqlTrue(e, row[e.field]) }
  <1>1. Step \in [Predicates \X Seq(SUBSET Row) -> SUBSET Row]
    <2>1. \A e, p : AlikeOf(e, p) \subseteq Row
      BY DEF AlikeOf
    <2> QED
      BY <2>1
  <1>2. PICK f : SolvesOn(f, Predicates, SUBSET Row, PartsOf, Step)
    <2> HIDE DEF Step
    <2> QED
      BY <1>1, PredicatesRanked, TreeRecursion
  <1>3. ASSUME NEW e \in Predicates PROVE f[e] = Body(f, e)
    <2> DEFINE p == [k \in DOMAIN PartsOf[e] |-> f[PartsOf[e][k]]]
    <2>1. f[e] = Step[<<e, p>>] /\ f \in [Predicates -> SUBSET Row]
      BY <1>2 DEF SolvesOn
    <2>2. PartsOf[e] \in Seq(Predicates)
      BY PredicatesRanked DEF Ranked
    <2>3. p \in Seq(SUBSET Row)
      <3>1. DOMAIN PartsOf[e] = 1 .. Len(PartsOf[e]) /\ Len(PartsOf[e]) \in Nat
        BY <2>2
      <3>2. \A k \in DOMAIN PartsOf[e] : f[PartsOf[e][k]] \in SUBSET Row
        BY <2>1, <2>2
      <3> QED
        BY <3>1, <3>2
    <2>4. f[e] = AlikeOf(e, p)
      <3> HIDE DEF p
      <3> QED
        BY <2>1, <2>3
    <2>5. CASE e.is \in {"and", "or"}
      <3>1. PartsOf[e] = e.args
        BY <2>5 DEF PartsOf
      <3>2. DOMAIN p = DOMAIN e.args /\ \A k \in DOMAIN e.args : p[k] = f[e.args[k]]
        BY <3>1
      <3> HIDE DEF p
      <3> QED
        BY <2>4, <2>5, <3>2 DEF AlikeOf
    <2>6. CASE e.is \notin {"and", "or"}
      BY <2>4, <2>6 DEF AlikeOf
    <2> QED
      BY <2>5, <2>6
  <1>4. f = [e \in Predicates |-> Body(f, e)]
    <2>1. f \in [Predicates -> SUBSET Row]
      BY <1>2 DEF SolvesOn
    <2> HIDE DEF Body
    <2> QED
      BY <1>3, <2>1
  <1>5. AlikeRows = [e \in Predicates |-> Body(AlikeRows, e)]
    BY <1>4 DEF AlikeRows
  <1>6. ASSUME NEW e \in Predicates PROVE AlikeRows[e] = Body(AlikeRows, e)
    <2> HIDE DEF Body
    <2> QED
      BY <1>5
  <1>7. \A e : Body(AlikeRows, e) \subseteq Row
    OBVIOUS
  <1>8. AlikeRows \in [Predicates -> SUBSET Row]
    <2> HIDE DEF Body
    <2> QED
      BY <1>5, <1>7
  <1> QED
    BY <1>6, <1>8

(* The clauses and translations that are put together are of their type. *)
LEMMA ClauseTypes ==
  /\ \A f \in DOMAIN Fields, op \in ComparisonOps, const \in ValueOrNull :
       Comparison(f, op, const) \in Clauses
  /\ \A f \in DOMAIN Fields : \A consts : InClause(f, consts) \in Clauses
  /\ \A f \in DOMAIN Fields, const \in Values : LikeClause(f, const) \in Clauses
  /\ \A is, cs : Joined(is, cs) \in Clauses
  <1>1. \A f \in DOMAIN Fields : Fields[f].id \in BOOLEAN
    BY SoqlAssumption
  <1>2. \A f \in DOMAIN Fields : \A consts : Rejects(f, consts) \in BOOLEAN
    BY <1>1 DEF Rejects
  <1>3. \A f \in DOMAIN Fields, op \in ComparisonOps, const \in ValueOrNull :
          Comparison(f, op, const) \in Clauses
    BY <1>2 DEF Comparison, Clauses
  <1>4. \A f \in DOMAIN Fields : \A consts : InClause(f, consts) \in Clauses
    BY <1>2 DEF InClause, Clauses
  <1>5. \A f \in DOMAIN Fields, const \in Values : LikeClause(f, const) \in Clauses
    BY DEF LikeClause, Clauses
  <1>6. \A is, cs : Joined(is, cs) \in Clauses
    BY DEF Joined, Clauses
  <1> QED
    BY <1>3, <1>4, <1>5, <1>6

(* So are the four outcomes of a translation. *)
LEMMA TranslationTypes ==
  /\ Residual \in Translations /\ Refused \in Translations
  /\ \A c \in Clauses : Exactly(c) \in Translations /\ Superset(c) \in Translations
  <1>1. NoClause \in Clauses
    BY DEF NoClause, Clauses
  <1> QED
    BY <1>1 DEF Residual, Refused, Exactly, Superset, Translations

(* The translation of a predicate on one column. *)
ColumnTranslation(e) ==
  CASE e.is = "compare" -> TranslateCompare(e)
    [] e.is = "between" -> TranslateBetween(e)
    [] e.is \in {"null", "notnull"} -> TranslateNullTest(e)
    [] e.is = "in" -> TranslateIn(e)
    [] e.is = "like" -> TranslateLike(e)
    [] OTHER -> Residual

(* A flipped comparison is a comparison. *)
LEMMA FlippedOp ==
  \A op \in ComparisonOps : FlipComparison(op) \in ComparisonOps
  BY DEF FlipComparison, ComparisonOps

(* A predicate on one column has a translation. *)
LEMMA ColumnTranslationType ==
  ASSUME NEW e \in Predicates, e.is \notin {"and", "or"}
  PROVE  ColumnTranslation(e) \in Translations
  <1>1. CASE e.is = "compare"
    <2>1. e.field \in DOMAIN Fields /\ e.op \in ComparisonOps /\ e.const \in ValueOrNull
      BY <1>1, PredicateKinds DEF ValueOrNull
    <2> DEFINE op == IF e.flipped THEN FlipComparison(e.op) ELSE e.op
    <2>2. op \in ComparisonOps
      BY <2>1, FlippedOp
    <2>3. Comparison(e.field, op, e.const) \in Clauses
      BY <2>1, <2>2, ClauseTypes
    <2>4. TranslateCompare(e) \in {Residual, Refused, Exactly(Comparison(e.field, op, e.const))}
      BY DEF TranslateCompare
    <2> HIDE DEF op
    <2>5. TranslateCompare(e) \in Translations
      BY <2>3, <2>4, TranslationTypes
    <2> QED
      BY <1>1, <2>5 DEF ColumnTranslation
  <1>2. CASE e.is = "between"
    <2>1. \E c \in Clauses : TranslateBetween(e) \in {Residual, Exactly(c)}
      BY ClauseTypes DEF TranslateBetween
    <2> QED
      BY <1>2, <2>1, TranslationTypes DEF ColumnTranslation
  <1>3. CASE e.is \in {"null", "notnull"}
    <2>1. e.field \in DOMAIN Fields
      BY <1>3, PredicateKinds
    <2>2. \A op \in {"=", "!="} : Comparison(e.field, op, Null) \in Clauses
      BY <2>1, ClauseTypes DEF ComparisonOps, ValueOrNull
    <2>3. \E op \in {"=", "!="} :
            TranslateNullTest(e) \in {Residual, Exactly(Comparison(e.field, op, Null))}
      BY DEF TranslateNullTest
    <2> QED
      BY <1>3, <2>2, <2>3, TranslationTypes DEF ColumnTranslation
  <1>4. CASE e.is = "in"
    <2>1. InClause(e.field, e.consts) \in Clauses
      BY <1>4, PredicateKinds, ClauseTypes
    <2>2. TranslateIn(e) \in {Residual, Refused, Superset(InClause(e.field, e.consts))}
      BY DEF TranslateIn
    <2> QED
      BY <1>4, <2>1, <2>2, TranslationTypes DEF ColumnTranslation
  <1>5. CASE e.is = "like"
    <2>1. LikeClause(e.field, e.const) \in Clauses
      BY <1>5, PredicateKinds, ClauseTypes
    <2>2. TranslateLike(e) \in {Residual, Superset(LikeClause(e.field, e.const))}
      BY DEF TranslateLike
    <2> QED
      BY <1>5, <2>1, <2>2, TranslationTypes DEF ColumnTranslation
  <1>6. CASE e.is = "distinct"
    BY <1>6, TranslationTypes DEF ColumnTranslation
  <1> QED
    BY <1>1, <1>2, <1>3, <1>4, <1>5, <1>6, PredicateKinds

(* So has an AND or OR, whatever its parts are. *)
LEMMA ConjunctionType ==
  ASSUME NEW e, NEW parts
  PROVE  TranslateConjunction(e, parts) \in Translations
  <1> DEFINE c == Joined(e.is, [k \in DOMAIN parts |-> parts[k].clause])
             x == e.is = "and" /\ \A k \in DOMAIN parts : parts[k].exact
  <1>1. c \in Clauses
    BY ClauseTypes
  <1>2. x \in BOOLEAN
    OBVIOUS
  <1>3. TranslateConjunction(e, parts) \in
          {Residual, Refused, [outcome |-> "translated", exact |-> x, clause |-> c]}
    BY DEF TranslateConjunction
  <1> HIDE DEF c, x
  <1>4. [outcome |-> "translated", exact |-> x, clause |-> c] \in Translations
    BY <1>1, <1>2 DEF Translations
  <1> QED
    BY <1>3, <1>4, TranslationTypes

(* TranslateExpr exists, and is what its definition says. *)
LEMMA TranslateExprIs ==
  /\ TranslateExpr \in [Predicates -> Translations]
  /\ \A e \in Predicates :
       TranslateExpr[e] =
         IF e.is \in {"and", "or"}
         THEN TranslateConjunction(e, [k \in DOMAIN e.args |-> TranslateExpr[e.args[k]]])
         ELSE ColumnTranslation(e)
  <1> DEFINE Made(e, p) == IF e.is \in {"and", "or"} THEN TranslateConjunction(e, p)
                           ELSE ColumnTranslation(e)
             Step == [x \in Predicates \X Seq(Translations) |-> Made(x[1], x[2])]
             Body(g, e) == Made(e, [k \in DOMAIN e.args |-> g[e.args[k]]])
  <1>1. Step \in [Predicates \X Seq(Translations) -> Translations]
    <2>1. ASSUME NEW e \in Predicates, NEW p PROVE Made(e, p) \in Translations
      BY ConjunctionType, ColumnTranslationType
    <2> HIDE DEF Made
    <2> QED
      BY <2>1
  <1>2. PICK f : SolvesOn(f, Predicates, Translations, PartsOf, Step)
    <2> HIDE DEF Step
    <2> QED
      BY <1>1, PredicatesRanked, TreeRecursion
  <1>3. ASSUME NEW e \in Predicates PROVE f[e] = Body(f, e)
    <2> DEFINE p == [k \in DOMAIN PartsOf[e] |-> f[PartsOf[e][k]]]
    <2>1. f[e] = Step[<<e, p>>] /\ f \in [Predicates -> Translations]
      BY <1>2 DEF SolvesOn
    <2>2. PartsOf[e] \in Seq(Predicates)
      BY PredicatesRanked DEF Ranked
    <2>3. p \in Seq(Translations)
      <3>1. DOMAIN PartsOf[e] = 1 .. Len(PartsOf[e]) /\ Len(PartsOf[e]) \in Nat
        BY <2>2
      <3>2. \A k \in DOMAIN PartsOf[e] : f[PartsOf[e][k]] \in Translations
        BY <2>1, <2>2
      <3> QED
        BY <3>1, <3>2
    <2>4. f[e] = Made(e, p)
      <3> HIDE DEF p, Made
      <3> QED
        BY <2>1, <2>3
    <2>5. CASE e.is \in {"and", "or"}
      <3>1. PartsOf[e] = e.args
        BY <2>5 DEF PartsOf
      <3>2. p = [k \in DOMAIN e.args |-> f[e.args[k]]]
        BY <3>1
      <3> QED
        BY <2>4, <3>2
    <2>6. CASE e.is \notin {"and", "or"}
      BY <2>4, <2>6
    <2> QED
      BY <2>5, <2>6
  <1>4. f = [e \in Predicates |-> Body(f, e)]
    <2>1. f \in [Predicates -> Translations]
      BY <1>2 DEF SolvesOn
    <2> HIDE DEF Body
    <2> QED
      BY <1>3, <2>1
  <1> DEFINE Defined(g) == [e \in Predicates |->
               CASE e.is = "compare" -> TranslateCompare(e)
                 [] e.is = "between" -> TranslateBetween(e)
                 [] e.is \in {"null", "notnull"} -> TranslateNullTest(e)
                 [] e.is = "in" -> TranslateIn(e)
                 [] e.is = "like" -> TranslateLike(e)
                 [] e.is \in {"and", "or"} ->
                      TranslateConjunction(e, [k \in DOMAIN e.args |-> g[e.args[k]]])
                 [] OTHER -> Residual]
  <1>5. ASSUME NEW g PROVE Defined(g) = [e \in Predicates |-> Body(g, e)]
    BY DEF ColumnTranslation
  <1>6. f = Defined(f)
    BY <1>4, <1>5
  <1>7. TranslateExpr = Defined(TranslateExpr)
    BY <1>6 DEF TranslateExpr
  <1> HIDE DEF Defined
  <1>8. TranslateExpr = [e \in Predicates |-> Body(TranslateExpr, e)]
    BY <1>5, <1>7
  <1>9. ASSUME NEW e \in Predicates PROVE Body(TranslateExpr, e) \in Translations
    BY ConjunctionType, ColumnTranslationType
  <1>10. ASSUME NEW e \in Predicates PROVE TranslateExpr[e] = Body(TranslateExpr, e)
    <2> HIDE DEF Body
    <2> QED
      BY <1>8
  <1>11. TranslateExpr \in [Predicates -> Translations]
    <2> HIDE DEF Body
    <2> QED
      BY <1>8, <1>9
  <1> QED
    BY <1>10, <1>11

-----------------------------------------------------------------------------
(* A translation means what its predicate does.                            *)

(* On a row where the comparisons of a predicate mean to the org what they *)
(* mean to SQL, its clause lets the row through if the predicate does, and *)
(* only then if it is called exact; and the org does not reject it.        *)
Sound(e, t) ==
  t.outcome = "translated" =>
    /\ \A row \in AlikeRows[e] :
         /\ row \in SqlRows[e] => row \in t.clause.rows
         /\ t.exact => (row \in t.clause.rows => row \in SqlRows[e])
    /\ t.clause.rejected = FALSE

(* What the org sees of a value is a number. *)
LEMMA SeenIsNat ==
  ASSUME NEW v \in Nat
  PROVE  Seen(v) \in Nat
  BY DEF Seen, Folded

(* The org compares a column with a constant by its own rules. *)
LEMMA ComparesAsTheOrg ==
  ASSUME NEW op \in ComparisonOps, NEW c \in Values, NEW v \in ValueOrNull
  PROVE  SoqlCompare(op, v, c) <=> IF v = Null THEN op = "!=" /\ NullsDiffer
                                   ELSE Compare(op, Seen(v), Seen(c))
  <1>1. c # Null
    BY SoqlAssumption
  <1> QED
    BY <1>1 DEF SoqlCompare

(* constant <op> column is column <flipped op> constant. *)
LEMMA FlippedMeansTheSame ==
  ASSUME NEW op \in ComparisonOps, NEW a \in Nat, NEW b \in Nat
  PROVE  Compare(FlipComparison(op), a, b) <=> Compare(op, b, a)
  <1>1. CASE op = "="
    BY <1>1 DEF Compare, FlipComparison
  <1>2. CASE op = "!="
    BY <1>2 DEF Compare, FlipComparison
  <1>3. CASE op = "<"
    BY <1>3 DEF Compare, FlipComparison
  <1>4. CASE op = ">"
    BY <1>4 DEF Compare, FlipComparison
  <1>5. CASE op = "<="
    BY <1>5 DEF Compare, FlipComparison
  <1>6. CASE op = ">="
    BY <1>6 DEF Compare, FlipComparison
  <1> QED
    BY <1>1, <1>2, <1>3, <1>4, <1>5, <1>6 DEF ComparisonOps

(* The rows of a predicate on a column. *)
LEMMA ColumnRows ==
  ASSUME NEW e \in Predicates, e.is \notin {"and", "or"}
  PROVE  /\ e.field \in DOMAIN Fields
         /\ SqlRows[e] = { row \in Row : SqlTrue(e, row[e.field]) }
         /\ AlikeRows[e] =
              { row \in Row : OrgTrue(e, row[e.field]) <=> SqlTrue(e, row[e.field]) }
         /\ \A row \in Row : row[e.field] \in ValueOrNull
  <1>1. e.field \in DOMAIN Fields
    BY PredicateKinds
  <1>2. SqlRows[e] = { row \in Row : SqlTrue(e, row[e.field]) }
    BY SqlRowsAre
  <1>3. AlikeRows[e] = { row \in Row : OrgTrue(e, row[e.field]) <=> SqlTrue(e, row[e.field]) }
    BY AlikeRowsAre
  <1> QED
    BY <1>1, <1>2, <1>3 DEF Row

(* A comparison says to the org what the user wrote, and is refused where  *)
(* the org would reject it.                                                *)
LEMMA CompareSound ==
  ASSUME NEW e \in Predicates, e.is = "compare"
  PROVE  Sound(e, TranslateCompare(e))
  <1>1. /\ e.op \in ComparisonOps /\ e.const \in Values /\ e.flipped \in BOOLEAN
        /\ e.field \in DOMAIN Fields
    BY PredicateKinds
  <1> DEFINE op == IF e.flipped THEN FlipComparison(e.op) ELSE e.op
             c == Comparison(e.field, op, e.const)
  <1>2. op \in ComparisonOps /\ (op = "!=" <=> e.op = "!=")
    BY <1>1 DEF FlipComparison, ComparisonOps
  <1>3. ASSUME NEW row \in Row
        PROVE  OrgTrue(e, row[e.field]) <=> SoqlCompare(op, row[e.field], e.const)
    <2> DEFINE v == row[e.field]
    <2>1. v \in ValueOrNull
      BY ColumnRows
    <2>2. OrgTrue(e, v) <=> IF v = Null THEN e.op = "!=" /\ NullsDiffer
                            ELSE IF e.flipped THEN Compare(e.op, Seen(e.const), Seen(v))
                            ELSE Compare(e.op, Seen(v), Seen(e.const))
      BY DEF OrgTrue
    <2> HIDE DEF v
    <2>3. SoqlCompare(op, v, e.const) <=> IF v = Null THEN op = "!=" /\ NullsDiffer
                                          ELSE Compare(op, Seen(v), Seen(e.const))
      BY <1>1, <1>2, <2>1, ComparesAsTheOrg
    <2>4. v # Null => Seen(v) \in Nat /\ Seen(e.const) \in Nat
      BY <1>1, <2>1, SeenIsNat, SoqlAssumption DEF ValueOrNull
    <2>5. v # Null /\ e.flipped =>
            (Compare(op, Seen(v), Seen(e.const)) <=> Compare(e.op, Seen(e.const), Seen(v)))
      BY <1>1, <2>4, FlippedMeansTheSame
    <2>6. ~ e.flipped => op = e.op
      OBVIOUS
    <2> HIDE DEF op
    <2>7. OrgTrue(e, v) <=> SoqlCompare(op, v, e.const)
      BY <1>1, <1>2, <2>2, <2>3, <2>5, <2>6
    <2> QED
      BY <2>7 DEF v
  <1>4. \A row \in AlikeRows[e] : row \in SqlRows[e] <=> row \in c.rows
    <2> HIDE DEF op
    <2> QED
      BY <1>3, ColumnRows DEF Comparison
  <1>5. c.rejected <=> op \in {"=", "!="} /\ CheckIdLiterals(e.field, {e.const})
    BY DEF Comparison, Rejects, CheckIdLiterals
  <1>6. c.rejected \in BOOLEAN
    BY <1>1, <1>2, ClauseTypes DEF Clauses, ValueOrNull
  <1>7. TranslateCompare(e) =
          CASE ~ FieldFor(e.field) -> Residual
            [] FieldFor(e.field) /\ op \in {"=", "!="} /\ CheckIdLiterals(e.field, {e.const})
                 -> Refused
            [] OTHER -> IF e.const \in Unprintable THEN Residual ELSE Exactly(c)
    BY DEF TranslateCompare
  <1> HIDE DEF op, c
  <1>8. CASE FieldFor(e.field) /\ ~ (op \in {"=", "!="} /\ CheckIdLiterals(e.field, {e.const}))
    <2>1. TranslateCompare(e) \in {Residual, Exactly(c)} /\ c.rejected = FALSE
      BY <1>5, <1>6, <1>7, <1>8
    <2> QED
      BY <1>4, <2>1 DEF Sound, Residual, Exactly
  <1>9. CASE ~ (FieldFor(e.field) /\ ~ (op \in {"=", "!="} /\ CheckIdLiterals(e.field, {e.const})))
    <2>1. TranslateCompare(e) \in {Residual, Refused}
      BY <1>7, <1>9
    <2> QED
      BY <2>1 DEF Sound, Residual, Refused
  <1> QED
    BY <1>8, <1>9

(* So does a range: both bounds are comparisons with a constant. *)
LEMMA BetweenSound ==
  ASSUME NEW e \in Predicates, e.is = "between"
  PROVE  Sound(e, TranslateBetween(e))
  <1>1. /\ e.lo \in ValueOrNull /\ e.hi \in ValueOrNull
        /\ e.lo_inc \in BOOLEAN /\ e.hi_inc \in BOOLEAN /\ e.field \in DOMAIN Fields
    BY PredicateKinds
  <1> DEFINE lo_op == IF e.lo_inc THEN ">=" ELSE ">"
             hi_op == IF e.hi_inc THEN "<=" ELSE "<"
             lower == Comparison(e.field, lo_op, e.lo)
             upper == Comparison(e.field, hi_op, e.hi)
             c == Joined("and", <<lower, upper>>)
  <1>2. TranslateBetween(e) =
          IF FieldFor(e.field) /\ {e.lo, e.hi} \intersect (Unprintable \union {Null}) = {}
          THEN Exactly(c) ELSE Residual
    BY DEF TranslateBetween
  <1>3. CASE ~ (FieldFor(e.field) /\ {e.lo, e.hi} \intersect (Unprintable \union {Null}) = {})
    BY <1>2, <1>3 DEF Sound, Residual
  <1>4. CASE FieldFor(e.field) /\ {e.lo, e.hi} \intersect (Unprintable \union {Null}) = {}
    <2>1. e.lo \in Values /\ e.hi \in Values /\ e.lo # Null /\ e.hi # Null
      BY <1>1, <1>4 DEF ValueOrNull
    <2>2. lo_op \in ComparisonOps \ {"=", "!="} /\ hi_op \in ComparisonOps \ {"=", "!="}
      BY DEF ComparisonOps
    <2>3. \A row \in Row :
            OrgTrue(e, row[e.field]) <=>
              /\ row[e.field] # Null
              /\ Compare(lo_op, Seen(row[e.field]), Seen(e.lo))
              /\ Compare(hi_op, Seen(row[e.field]), Seen(e.hi))
      BY <2>1 DEF OrgTrue
    <2> HIDE DEF lo_op, hi_op
    <2>4. ASSUME NEW row \in Row
          PROVE  OrgTrue(e, row[e.field]) <=>
                   SoqlCompare(lo_op, row[e.field], e.lo) /\ SoqlCompare(hi_op, row[e.field], e.hi)
      <3>1. row[e.field] \in ValueOrNull
        BY ColumnRows
      <3>2. /\ SoqlCompare(lo_op, row[e.field], e.lo) <=>
                 row[e.field] # Null /\ Compare(lo_op, Seen(row[e.field]), Seen(e.lo))
            /\ SoqlCompare(hi_op, row[e.field], e.hi) <=>
                 row[e.field] # Null /\ Compare(hi_op, Seen(row[e.field]), Seen(e.hi))
        BY <2>1, <2>2, <3>1, ComparesAsTheOrg
      <3> QED
        BY <2>3, <3>2
    <2>5. \A row \in AlikeRows[e] :
            row \in Row /\ (row \in SqlRows[e] <=> row \in lower.rows /\ row \in upper.rows)
      BY <2>4, ColumnRows DEF Comparison
    <2>6. lower.rejected = FALSE /\ upper.rejected = FALSE
      BY <2>2 DEF Comparison
    <2> HIDE DEF lower, upper
    <2>7. c.rows = { row \in Row :
                       \A k \in DOMAIN <<lower, upper>> : row \in <<lower, upper>>[k].rows }
      BY DEF Joined
    <2>8. c.rejected = (\E k \in DOMAIN <<lower, upper>> : <<lower, upper>>[k].rejected)
      BY DEF Joined
    <2>9. /\ DOMAIN <<lower, upper>> = {1, 2}
          /\ <<lower, upper>>[1] = lower /\ <<lower, upper>>[2] = upper
      OBVIOUS
    <2> HIDE DEF c
    <2>10. \A row \in AlikeRows[e] : row \in SqlRows[e] <=> row \in c.rows
      BY <2>5, <2>7, <2>9
    <2>11. c.rejected = FALSE
      BY <2>6, <2>8, <2>9
    <2> QED
      BY <1>2, <1>4, <2>10, <2>11 DEF Sound, Exactly
  <1> QED
    BY <1>3, <1>4

(* IS NULL and IS NOT NULL are exact on every row. *)
LEMMA NullTestSound ==
  ASSUME NEW e \in Predicates, e.is \in {"null", "notnull"}
  PROVE  Sound(e, TranslateNullTest(e))
  <1> DEFINE op == IF e.is = "null" THEN "=" ELSE "!="
             c == Comparison(e.field, op, Null)
  <1>1. TranslateNullTest(e) \in {Residual, Exactly(c)}
    BY DEF TranslateNullTest
  <1>2. SqlRows[e] = c.rows
    <2>1. \A row \in Row : SqlTrue(e, row[e.field]) <=> SoqlCompare(op, row[e.field], Null)
      BY DEF SqlTrue, SoqlCompare
    <2> QED
      BY <2>1, ColumnRows DEF Comparison
  <1>3. c.rejected = FALSE
    <2>1. {Null} \intersect BadIds = {}
      BY SoqlAssumption
    <2> QED
      BY <2>1 DEF Comparison, Rejects
  <1> QED
    BY <1>1, <1>2, <1>3, ColumnRows DEF Sound, Residual, Exactly

(* IN lets every row of its predicate through. *)
LEMMA InSound ==
  ASSUME NEW e \in Predicates, e.is = "in"
  PROVE  Sound(e, TranslateIn(e))
  <1> DEFINE c == InClause(e.field, e.consts)
  <1>1. TranslateIn(e) \in {Residual, Refused}
          \/ (TranslateIn(e) = Superset(c) /\ ~ CheckIdLiterals(e.field, e.consts))
    BY DEF TranslateIn
  <1>2. SqlRows[e] \subseteq c.rows
    <2>1. \A row \in Row : SqlTrue(e, row[e.field]) => SoqlIn(row[e.field], e.consts)
      BY DEF SqlTrue, SoqlIn
    <2> QED
      BY <2>1, ColumnRows DEF InClause
  <1>3. ~ CheckIdLiterals(e.field, e.consts) => c.rejected = FALSE
    BY DEF InClause, Rejects, CheckIdLiterals
  <1> HIDE DEF c
  <1> QED
    BY <1>1, <1>2, <1>3 DEF Sound, Residual, Refused, Superset

(* LIKE does, as the same spelling is the same text. *)
LEMMA LikeSound ==
  ASSUME NEW e \in Predicates, e.is = "like"
  PROVE  Sound(e, TranslateLike(e))
  <1> DEFINE c == LikeClause(e.field, e.const)
  <1>1. TranslateLike(e) \in {Residual, Superset(c)}
    BY DEF TranslateLike
  <1>2. e.const # Null
    BY PredicateKinds, SoqlAssumption
  <1>3. SqlRows[e] \subseteq c.rows /\ c.rejected = FALSE
    <2>1. \A row \in Row : SqlTrue(e, row[e.field]) => SoqlLike(row[e.field], e.const)
      BY <1>2 DEF SqlTrue, SoqlLike
    <2> QED
      BY <2>1, ColumnRows DEF LikeClause
  <1> HIDE DEF c
  <1> QED
    BY <1>1, <1>3 DEF Sound, Residual, Superset

(* A conjunction is sound when its parts are: AND and OR are monotonic. *)
LEMMA ConjunctionSound ==
  ASSUME NEW e \in Predicates, e.is \in {"and", "or"},
         \A k \in DOMAIN e.args : Sound(e.args[k], TranslateExpr[e.args[k]])
  PROVE  Sound(e, TranslateExpr[e])
  <1> DEFINE parts == [k \in DOMAIN e.args |-> TranslateExpr[e.args[k]]]
             cs == [k \in DOMAIN parts |-> parts[k].clause]
             t == TranslateConjunction(e, parts)
  <1>1. TranslateExpr[e] = t
    BY TranslateExprIs
  <1>2. DOMAIN parts = DOMAIN e.args /\ DOMAIN cs = DOMAIN e.args
    OBVIOUS
  <1>3. \A k \in DOMAIN e.args : Sound(e.args[k], parts[k]) /\ cs[k] = parts[k].clause
    OBVIOUS
  <1>4. \A k \in DOMAIN e.args : e.args[k] \in Predicates /\ SqlRows[e.args[k]] \subseteq Row
    <2>1. e.args \in Seq(Predicates)
      BY PredicateKinds
    <2> QED
      BY <2>1, SqlRowsAre
  <1>5. /\ e.is = "and" =>
             SqlRows[e] = { row \in Row : \A k \in DOMAIN e.args : row \in SqlRows[e.args[k]] }
        /\ e.is = "or" =>
             SqlRows[e] = { row \in Row : \E k \in DOMAIN e.args : row \in SqlRows[e.args[k]] }
    BY SqlRowsAre
  <1>6. \A row \in AlikeRows[e] :
          row \in Row /\ \A k \in DOMAIN e.args : row \in AlikeRows[e.args[k]]
    BY AlikeRowsAre
  <1>7. t.outcome = "translated" =>
          /\ \A k \in DOMAIN parts : parts[k].outcome = "translated"
          /\ t.exact => e.is = "and" /\ \A k \in DOMAIN parts : parts[k].exact
          /\ t.clause = Joined(e.is, cs)
    BY DEF TranslateConjunction, Refused, Residual
  <1> HIDE DEF parts, cs, t
  <1>8. SUFFICES ASSUME t.outcome = "translated"
                 PROVE  /\ \A row \in AlikeRows[e] :
                             /\ row \in SqlRows[e] => row \in Joined(e.is, cs).rows
                             /\ t.exact => (row \in Joined(e.is, cs).rows => row \in SqlRows[e])
                        /\ Joined(e.is, cs).rejected = FALSE
    BY <1>1, <1>7 DEF Sound
  <1>9. \A k \in DOMAIN e.args :
          /\ \A row \in AlikeRows[e.args[k]] :
               /\ row \in SqlRows[e.args[k]] => row \in cs[k].rows
               /\ parts[k].exact => (row \in cs[k].rows => row \in SqlRows[e.args[k]])
          /\ cs[k].rejected = FALSE
    BY <1>2, <1>3, <1>7, <1>8 DEF Sound
  <1>10. ASSUME NEW row \in AlikeRows[e], row \in SqlRows[e]
         PROVE  row \in Joined(e.is, cs).rows
    BY <1>2, <1>5, <1>6, <1>9, <1>10 DEF Joined
  <1>11. ASSUME NEW row \in AlikeRows[e], t.exact, row \in Joined(e.is, cs).rows
         PROVE  row \in SqlRows[e]
    BY <1>2, <1>5, <1>6, <1>7, <1>8, <1>9, <1>11 DEF Joined
  <1>12. Joined(e.is, cs).rejected = FALSE
    BY <1>2, <1>9 DEF Joined
  <1> QED
    BY <1>10, <1>11, <1>12

(* Every translation is sound: there is no shortest predicate whose        *)
(* translation is not.                                                     *)
LEMMA TranslationsSound == \A e \in Predicates : Sound(e, TranslateExpr[e])
  <1> DEFINE Bad == {e \in Predicates : ~ Sound(e, TranslateExpr[e])}
             Lengths == {Length[e] : e \in Bad}
  <1>1. SUFFICES ASSUME Bad # {} PROVE FALSE
    OBVIOUS
  <1>2. Lengths \subseteq Nat /\ Lengths # {}
    BY <1>1, SoqlAssumption
  <1>3. PICK m \in Lengths : \A n \in Lengths : m <= n
    <2> HIDE DEF Lengths
    <2> QED
      BY <1>2, LeastRank
  <1>4. PICK e \in Bad : Length[e] = m
    OBVIOUS
  <1>5. e \in Predicates /\ ~ Sound(e, TranslateExpr[e])
    BY <1>4
  <1>6. CASE e.is \in {"and", "or"}
    <2>1. ASSUME NEW k \in DOMAIN e.args PROVE Sound(e.args[k], TranslateExpr[e.args[k]])
      <3>1. e.args \in Seq(Predicates) /\ Length[e.args[k]] < Length[e]
        BY <1>5, <1>6, PredicateKinds
      <3>2. e.args[k] \in Predicates
        BY <3>1
      <3>3. Length[e.args[k]] \in Nat /\ m \in Nat
        BY <1>2, <3>2, SoqlAssumption
      <3>4. ASSUME e.args[k] \in Bad PROVE FALSE
        <4>1. m <= Length[e.args[k]]
          BY <1>3, <3>4
        <4> QED
          BY <1>4, <3>1, <3>3, <4>1
      <3> QED
        BY <3>2, <3>4
    <2> QED
      BY <1>5, <1>6, <2>1, ConjunctionSound
  <1>7. CASE e.is \notin {"and", "or"}
    <2>1. TranslateExpr[e] = ColumnTranslation(e)
      BY <1>5, <1>7, TranslateExprIs
    <2>2. CASE e.is = "compare"
      BY <1>5, <2>1, <2>2, CompareSound DEF ColumnTranslation
    <2>3. CASE e.is = "between"
      BY <1>5, <2>1, <2>3, BetweenSound DEF ColumnTranslation
    <2>4. CASE e.is \in {"null", "notnull"}
      BY <1>5, <2>1, <2>4, NullTestSound DEF ColumnTranslation
    <2>5. CASE e.is = "in"
      BY <1>5, <2>1, <2>5, InSound DEF ColumnTranslation
    <2>6. CASE e.is = "like"
      BY <1>5, <2>1, <2>6, LikeSound DEF ColumnTranslation
    <2>7. CASE e.is = "distinct"
      <3>1. TranslateExpr[e] = Residual
        BY <2>1, <2>7 DEF ColumnTranslation
      <3> QED
        BY <1>5, <3>1 DEF Sound, Residual
    <2> QED
      BY <1>5, <1>7, <2>2, <2>3, <2>4, <2>5, <2>6, <2>7, PredicateKinds
  <1> QED
    BY <1>6, <1>7

-----------------------------------------------------------------------------
(* The pushdown of the conjuncts of a query.                               *)

(* What is recorded of the conjuncts translated so far, and what is sent   *)
(* and kept: nothing and everything, until the WHERE is pushed.            *)
ConjunctsInv ==
  /\ \A i \in DOMAIN conjuncts :
       /\ translated[i] => TranslateExpr[conjuncts[i]].outcome = "translated"
       /\ exact[i] => TranslateExpr[conjuncts[i]].exact
  /\ \/ out_where = {} /\ remaining = DOMAIN conjuncts
     \/ /\ out_where = { i \in DOMAIN conjuncts : translated[i] }
        /\ remaining = { i \in DOMAIN conjuncts : ~ (translated[i] /\ exact[i]) }
        /\ phase = "pushed"

(* The inductive invariant. *)
PushdownInv == PushdownTypeOK /\ ConjunctsInv

(* It holds at the start. *)
LEMMA PushdownInvInit == PushdownInit => PushdownInv
  <1> SUFFICES ASSUME PushdownInit PROVE PushdownInv
    OBVIOUS
  <1>1. PICK n \in 0 .. MaxFilters : conjuncts \in [1 .. n -> Predicates]
    BY DEF PushdownInit
  <1>2. n \in Nat /\ n <= MaxFilters
    BY SoqlAssumption
  <1>3. conjuncts \in Seq(Predicates) /\ Len(conjuncts) = n /\ DOMAIN conjuncts = 1 .. n
    BY <1>1, <1>2
  <1>4. PushdownTypeOK
    BY <1>2, <1>3 DEF PushdownInit, PushdownTypeOK
  <1>5. ConjunctsInv
    BY DEF PushdownInit, ConjunctsInv
  <1> QED
    BY <1>4, <1>5 DEF PushdownInv

(* The loop records one more conjunct. *)
LEMMA TranslateNextKeeps ==
  ASSUME PushdownInv, TranslateNext
  PROVE  PushdownInv'
  <1> DEFINE e == conjuncts[next]
             t == TranslateExpr[e]
  <1>1. conjuncts \in Seq(Predicates) /\ next \in DOMAIN conjuncts /\ e \in Predicates
    <2>1. conjuncts \in Seq(Predicates) /\ next \in DOMAIN conjuncts
      BY DEF PushdownInv, PushdownTypeOK, TranslateNext
    <2> QED
      BY <2>1
  <1>2. t \in Translations
    BY <1>1, TranslateExprIs
  <1>3. t.exact \in BOOLEAN /\ (t.outcome = "translated") \in BOOLEAN
    BY <1>2 DEF Translations
  <1>4. /\ translated' = [translated EXCEPT ![next] = t.outcome = "translated"]
        /\ exact' = [exact EXCEPT ![next] = t.exact]
        /\ next' = next + 1 /\ phase = "translating"
        /\ UNCHANGED <<conjuncts, out_where, remaining, out_info, phase>>
    BY DEF TranslateNext
  <1> HIDE DEF t
  <1>5. PushdownTypeOK'
    <2>1. DOMAIN conjuncts = 1 .. Len(conjuncts) /\ Len(conjuncts) \in Nat
      BY <1>1
    <2>2. next' \in 1 .. Len(conjuncts') + 1
      BY <1>1, <1>4, <2>1
    <2>3. /\ translated' \in [DOMAIN conjuncts' -> BOOLEAN]
          /\ exact' \in [DOMAIN conjuncts' -> BOOLEAN]
      BY <1>3, <1>4 DEF PushdownInv, PushdownTypeOK
    <2>4. Size(out_where)' = Size(out_where)
      BY <1>4 DEF Size
    <2> QED
      BY <1>4, <2>2, <2>3, <2>4 DEF PushdownInv, PushdownTypeOK
  <1>6. ConjunctsInv'
    <2>1. translated \in [DOMAIN conjuncts -> BOOLEAN] /\ exact \in [DOMAIN conjuncts -> BOOLEAN]
      BY DEF PushdownInv, PushdownTypeOK
    <2>2. out_where = {} /\ remaining = DOMAIN conjuncts
      BY <1>4 DEF PushdownInv, ConjunctsInv
    <2>3. ASSUME NEW i \in DOMAIN conjuncts
          PROVE  /\ translated'[i] => TranslateExpr[conjuncts[i]].outcome = "translated"
                 /\ exact'[i] => TranslateExpr[conjuncts[i]].exact
      <3>1. CASE i = next
        BY <1>4, <2>1, <3>1 DEF t
      <3>2. CASE i # next
        BY <1>4, <2>1, <3>2 DEF PushdownInv, ConjunctsInv
      <3> QED
        BY <3>1, <3>2
    <2> QED
      BY <1>4, <2>2, <2>3 DEF ConjunctsInv
  <1> QED
    BY <1>5, <1>6 DEF PushdownInv

(* A WHERE over the cap changes nothing that is sent or kept. *)
LEMMA PushNothingKeeps ==
  ASSUME PushdownInv, PushNothing
  PROVE  PushdownInv'
  <1>1. Size(out_where)' = Size(out_where)
    BY DEF Size, PushNothing
  <1>2. out_info' \in [DOMAIN conjuncts -> [ pushed : BOOLEAN, exact : BOOLEAN ]]
    BY DEF PushNothing
  <1>3. PushdownTypeOK'
    BY <1>1, <1>2 DEF PushdownInv, PushdownTypeOK, PushNothing
  <1>4. out_where = {} /\ remaining = DOMAIN conjuncts
    BY DEF PushdownInv, ConjunctsInv, PushNothing, Translated
  <1>5. ConjunctsInv'
    BY <1>4 DEF PushdownInv, ConjunctsInv, PushNothing
  <1> QED
    BY <1>3, <1>5 DEF PushdownInv

(* A WHERE that is pushed is within the cap. *)
LEMMA PushWhereKeeps ==
  ASSUME PushdownInv, PushWhere
  PROVE  PushdownInv'
  <1>1. /\ out_where' = clauses /\ phase' = "pushed"
        /\ remaining' = { i \in DOMAIN conjuncts : ~ (translated[i] /\ exact[i]) }
        /\ UNCHANGED <<conjuncts, next, translated, exact>>
    BY DEF PushWhere
  <1>2. Size(out_where)' <= kMaxWhereChars
    <2>1. Size(out_where)' = Size(clauses)
      BY <1>1 DEF Size
    <2> QED
      BY <2>1 DEF PushWhere, Overlong
  <1>3. out_info' \in [DOMAIN conjuncts -> [ pushed : BOOLEAN, exact : BOOLEAN ]]
    BY DEF PushWhere, PushdownInv, PushdownTypeOK
  <1>4. PushdownTypeOK'
    BY <1>1, <1>2, <1>3 DEF PushdownInv, PushdownTypeOK, clauses
  <1>5. ConjunctsInv'
    BY <1>1 DEF PushdownInv, ConjunctsInv, clauses
  <1> QED
    BY <1>4, <1>5 DEF PushdownInv

(* Every step keeps it. *)
LEMMA PushdownInvStep == PushdownInv /\ [PushdownNext]_pushdownVars => PushdownInv'
  <1> SUFFICES ASSUME PushdownInv, [PushdownNext]_pushdownVars PROVE PushdownInv'
    OBVIOUS
  <1>1. CASE TranslateNext
    BY <1>1, TranslateNextKeeps
  <1>2. CASE RefuseId
    <2>1. Size(out_where)' = Size(out_where)
      BY <1>2 DEF RefuseId, Size
    <2>2. PushdownTypeOK'
      BY <1>2, <2>1 DEF PushdownInv, PushdownTypeOK, RefuseId
    <2>3. ConjunctsInv'
      BY <1>2 DEF PushdownInv, ConjunctsInv, RefuseId
    <2> QED
      BY <2>2, <2>3 DEF PushdownInv
  <1>3. CASE PushNothing
    BY <1>3, PushNothingKeeps
  <1>4. CASE PushWhere
    BY <1>4, PushWhereKeeps
  <1>5. CASE UNCHANGED pushdownVars
    <2>1. Size(out_where)' = Size(out_where)
      BY <1>5 DEF pushdownVars, Size
    <2> QED
      BY <1>5, <2>1 DEF PushdownInv, PushdownTypeOK, ConjunctsInv, pushdownVars
  <1> QED
    BY <1>1, <1>2, <1>3, <1>4, <1>5 DEF PushdownNext, Done

(* It holds at any time. *)
LEMMA PushdownInvariant == PushdownSpec => []PushdownInv
  BY PushdownInvInit, PushdownInvStep, PTL DEF PushdownSpec

(* The variables of PushdownToSoql keep their types, and no WHERE is sent  *)
(* that exceeds kMaxWhereChars.                                            *)
THEOREM PushdownTypeCorrect == PushdownSpec => []PushdownTypeOK
  <1>1. PushdownInv => PushdownTypeOK
    BY DEF PushdownInv
  <1> QED
    BY <1>1, PushdownInvariant, PTL

(* What is sent and kept answers the query. *)
LEMMA PushdownInvExact == PushdownInv => AlikeRowsExact
  <1> SUFFICES ASSUME PushdownInv PROVE AlikeRowsExact
    OBVIOUS
  <1>1. /\ out_where \subseteq DOMAIN conjuncts /\ remaining \subseteq DOMAIN conjuncts
        /\ \A i \in out_where : translated[i]
        /\ \A i \in DOMAIN conjuncts : i \in remaining \/ (i \in out_where /\ exact[i])
    BY DEF PushdownInv, PushdownTypeOK, ConjunctsInv
  <1>2. ASSUME NEW i \in out_where
        PROVE  LET e == conjuncts[i]
                   c == TranslateExpr[e].clause
               IN  /\ c.rejected = FALSE
                   /\ \A row \in AlikeRows[e] :
                        /\ row \in SqlRows[e] => row \in c.rows
                        /\ exact[i] => (row \in c.rows => row \in SqlRows[e])
    <2>1. i \in DOMAIN conjuncts /\ translated[i]
      BY <1>1
    <2>2. conjuncts \in Seq(Predicates)
      BY DEF PushdownInv, PushdownTypeOK
    <2>3. conjuncts[i] \in Predicates
      BY <2>1, <2>2
    <2>4. Sound(conjuncts[i], TranslateExpr[conjuncts[i]])
      BY <2>3, TranslationsSound
    <2>5. /\ TranslateExpr[conjuncts[i]].outcome = "translated"
          /\ exact[i] => TranslateExpr[conjuncts[i]].exact
      BY <2>1 DEF PushdownInv, ConjunctsInv
    <2> QED
      BY <2>4, <2>5 DEF Sound
  <1>3. ASSUME NEW row \in Row, \A i \in out_where : row \in AlikeRows[conjuncts[i]]
        PROVE  Reaches(row) <=> Wanted(row)
    <2>1. ASSUME Reaches(row), NEW i \in DOMAIN conjuncts PROVE row \in SqlRows[conjuncts[i]]
      <3>1. CASE i \in remaining
        BY <2>1, <3>1 DEF Reaches
      <3>2. CASE i \in out_where /\ exact[i]
        <4>1. row \in TranslateExpr[conjuncts[i]].clause.rows
          BY <2>1, <3>2 DEF Reaches
        <4> QED
          BY <1>2, <1>3, <3>2, <4>1
      <3> QED
        BY <1>1, <3>1, <3>2
    <2>2. ASSUME Wanted(row) PROVE Reaches(row)
      <3>1. \A i \in remaining : row \in SqlRows[conjuncts[i]]
        BY <1>1, <2>2 DEF Wanted
      <3>2. ASSUME NEW i \in out_where
            PROVE  row \in TranslateExpr[conjuncts[i]].clause.rows
        <4>1. row \in SqlRows[conjuncts[i]]
          BY <1>1, <2>2 DEF Wanted
        <4> QED
          BY <1>2, <1>3, <4>1
      <3> QED
        BY <3>1, <3>2 DEF Reaches
    <2> QED
      BY <2>1, <2>2 DEF Wanted
  <1>4. \A i \in out_where : ~ TranslateExpr[conjuncts[i]].clause.rejected
    BY <1>2
  <1> QED
    BY <1>3, <1>4 DEF AlikeRowsExact

(* Whatever PushdownToSoql sends and leaves to DuckDB, and whatever the    *)
(* org makes of null and of letter case, a row on which the comparisons of *)
(* the WHERE mean what SQL means by them reaches the query exactly when it *)
(* satisfies it, for predicates nested to any depth, any number of         *)
(* conjuncts and any lengths; and the org is sent no malformed Id.         *)
THEOREM AlikeRowsAreExact == PushdownSpec => []AlikeRowsExact
  BY PushdownInvExact, PushdownInvariant, PTL
=============================================================================
