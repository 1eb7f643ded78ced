---------------------------- MODULE ReportBridge ----------------------------
(***************************************************************************)
(* The functions that share the metadata engine of an attached org with    *)
(* salesforce_relationship_graph: salesforce_metadata_fields,              *)
(* salesforce_metadata_objects, and the Report Bridge                      *)
(* (salesforce_report.cpp), which runs a report as a sample                *)
(* (salesforce_report) and translates its definition to a candidate SOQL   *)
(* (salesforce_report_soql).  The org changes its fields between calls;    *)
(* the engine keeps what it read until a refresh.                          *)
(*                                                                         *)
(* A report token is the sequence of its dotted parts.  Its letter case is *)
(* left out: the code ignores it where it resolves a token.  Only the two  *)
(* sets that are searched for a dominant prefix or category keep it, so    *)
(* the reports are those that spell one prefix in one way.  The labels of  *)
(* a sample's columns are compared as they are spelled.                    *)
(***************************************************************************)
EXTENDS MetadataEngine, FiniteSets, FiniteSetsExt, TLC

CONSTANTS
  Schema,      \* the fields of an object: [Objects -> SUBSET fields]
  Droppable,   \* the <<object, field>> pairs an administrator may remove
  Filterable,  \* the <<object, field>> pairs that may stand in a WHERE
  Readings,    \* the field names a report token may mean, best first
  TokenMap,    \* sf_mock_report_token_map: <<object, token, token>> triples
  Safe,        \* the names that are safe identifiers
  Reports,     \* the report definitions DescribeReport may return
  Samples,     \* the report results RunReport may return
  Snapshots,   \* the last scans salesforce_query_explain may find recorded
  Reserved,    \* the names with the prefix __sf_report_
  Diagnostic   \* those of the columns that follow the report's own

(* reportBooleanFilter as its words: an index, AND, or anything else. *)
AndWord == -1
OtherWord == -2

(* None is not an object, lists are lists, a token has a part, which has   *)
(* readings, and a filter logic the org keeps has operands and operators   *)
(* in turn, unless it has another word.                                    *)
ASSUME ReportBridgeAssumption ==
  /\ None \notin Objects
  /\ \A p \in Droppable : p[1] \in Objects
  /\ \A t \in DOMAIN Readings : Readings[t] \in Seq(Range(Readings[t]))
  /\ \A m \in TokenMap : m[3] \in DOMAIN Readings
  /\ \A r \in Reports :
       /\ r.columns \in Seq(Range(r.columns)) /\ r.filters \in Seq(Range(r.filters))
       /\ \A t \in Range(r.columns) \union { f.field : f \in Range(r.filters) } :
            /\ t \in Seq(Range(t)) /\ t # << >>
            /\ Len(t) <= 2 => t[Len(t)] \in DOMAIN Readings
       /\ r.logic \in Seq(Int)
       /\ \/ \E i \in DOMAIN r.logic : r.logic[i] = OtherWord
          \/ \A i \in DOMAIN r.logic : IF i % 2 = 1 THEN r.logic[i] > 0 ELSE r.logic[i] = AndWord
  /\ \A snap \in Snapshots :
       /\ snap.items \in Seq(Range(snap.items))
       /\ snap.attached => snap.object \in Objects

(* The names of a sample's columns are texts, and the numbers that may be  *)
(* put after them have texts of their own.  A diagnostic column has the    *)
(* reserved prefix, so it does not begin with col_, and it does not end in *)
(* a number.                                                               *)
ASSUME SampleAssumption ==
  /\ Diagnostic \subseteq Reserved
  /\ \A d \in Diagnostic : d \in Seq(Range(d)) /\ d # << >> /\ d[1] # "col_"
  /\ \A s \in Samples :
       /\ s.columns \in Seq(Range(s.columns))
       /\ \A c \in Range(s.columns) : c.label \in Seq(Range(c.label)) /\ c.api \in Seq(Range(c.api))
       /\ \A m \in 2 .. Len(s.columns) + 1 :
            /\ \A n \in 2 .. Len(s.columns) + 1 : ToString(m) = ToString(n) => m = n
            /\ \A d \in Diagnostic : Last(d) # ToString(m)

VARIABLES
  dropped,     \* the pairs the org does not have now
  seen,        \* the pairs the cached describes do not have
  changed,     \* the objects that changed since they were last refreshed
  step,        \* the step of ReportSoqlBind
  bind         \* the bind data of the running function

orgVars == <<dropped, changed>>

bridgeVars == <<dropped, seen, changed, step, bind>>

walkVars == <<down, root, max_depth, want, stack, visited, rows>>

allVars == <<engineVars, bridgeVars>>

NoBind == [ kind |-> "none" ]

BridgeInit ==
  /\ EngineInit
  /\ dropped = {} /\ seen = {} /\ changed = {}
  /\ step = "none" /\ bind = NoBind

(* The describes a step adds to the cache show the org as it is now. *)
SeenFollows ==
  seen' = { p \in seen : p[1] \in describe_ \intersect describe_' }
            \union { p \in dropped : p[1] \in describe_' \ describe_ }

(* The fields of o in the describe the engine returns. *)
FieldsOf(o) ==
  { f \in Schema[o] : << o, f >> \notin (IF o \in describe_ THEN seen ELSE dropped) }

-----------------------------------------------------------------------------
(* The engine's resolution of names.                                       *)

(* ResolveField: the first reading of the token that is a field of o. *)
ResolveField(o, token) ==
  LET hits == { i \in DOMAIN Readings[token] : Readings[token][i] \in FieldsOf(o) }
  IN  IF hits = {} THEN None ELSE Readings[token][Min(hits)]

(* ResolveRelationship: the parent a relationship name leads to. *)
ResolveRelationship(o, name) ==
  LET hits == SelectSeq(Parents[o], LAMBDA e : e.name = name)
  IN  IF hits # << >> /\ ~ Polymorphic("parent", hits[1])
           /\ Target("parent", hits[1]) \in Queryable
      THEN Target("parent", hits[1]) ELSE None

(* A plain token: the field, or the field the token map gives for it. *)
ResolvePlain(o, token) ==
  LET mapped == { t \in TokenMap : t[1] = o /\ t[2] = token }
  IN  IF ResolveField(o, token) # None \/ mapped = {} THEN ResolveField(o, token)
      ELSE ResolveField(o, (CHOOSE t \in mapped : TRUE)[3])

(* resolve_field: the object and the field a report token names, or None.  *)
Resolve(base, token) ==
  LET target == IF Len(token) = 1 \/ token[1] = base THEN base
                ELSE ResolveRelationship(base, token[1])
      field == IF Len(token) > 2 \/ target = None THEN None
               ELSE IF Len(token) = 1 THEN ResolvePlain(base, token[1])
               ELSE ResolveField(target, token[2])
  IN  [ object |-> target, field |-> field ]

(* out_rel: the failure is reported as one of a relationship. *)
OverRelationship(base, token) == Len(token) > 1 /\ token[1] # base

(* The describes it asks for, in this order; each of them may throw. *)
Described(base, token) ==
  IF Len(token) > 2 THEN << >>
  ELSE IF OverRelationship(base, token) /\ ResolveRelationship(base, token[1]) # None
  THEN << base, ResolveRelationship(base, token[1]) >>
  ELSE << base >>

Throws(objects) == \E o \in Range(objects) : ~ Describable(o)

(* What stays in the cache: the describes up to the first one that fails. *)
CachedUpToFailure(objects) ==
  describe_ \union { objects[i] : i \in { j \in DOMAIN objects : ~ Throws(SubSeq(objects, 1, j)) } }

-----------------------------------------------------------------------------
(* ReportSoqlBind.                                                         *)

Reasons ==
  << "report_shape", "cross_filter", "base_object", "projected_field", "relationship",
     "filter_field", "filterability", "operator", "literal", "boolean_filter" >>

Rank(reason) == CHOOSE i \in DOMAIN Reasons : Reasons[i] = reason

(* The reason with the lowest rank is kept; translatable is false from now on. *)
set_block(b, reason) ==
  [b EXCEPT !.blocked_by = IF @ = None \/ Rank(reason) < Rank(@) THEN reason ELSE @]

translatable == bind.blocked_by = None

(* The one name in a set of names, or none. *)
TheOnly(names) == IF Cardinality(names) = 1 THEN CHOOSE n \in names : TRUE ELSE None

Tokens(r) == Range(r.columns) \union { f.field : f \in Range(r.filters) }

DominantColumnPrefix(r) == TheOnly({ t[1] : t \in { u \in Tokens(r) : Len(u) > 1 } })

(* The sources of a base object, best first. *)
BaseCandidates(r) ==
  LET Source(name, by) == IF name = None THEN << >> ELSE << [ obj |-> name, by |-> by ] >>
  IN  (IF r.suffix # None THEN Source(r.suffix, "custom_entity_suffix")
       ELSE Source(TheOnly(r.categories), "report_type_metadata")
              \o Source(r.builtin, "builtin_report_type_map"))
        \o Source(DominantColumnPrefix(r), "column_prefix")

(* The report is described; its shape and its cross filters are judged. *)
ReportSoqlBind(r) ==
  /\ status = "idle" /\ calls < MaxCalls
  /\ calls' = calls + 1
  /\ status' = "bridge" /\ step' = "base"
  /\ LET b0 == [ kind |-> "soql", report |-> r, blocked_by |-> None, base |-> None,
                 by |-> "unresolved", fields |-> << >>, clauses |-> << >>,
                 unresolved_columns |-> {}, unresolved_filters |-> {}, next |-> 1 ]
         b1 == IF r.tabular THEN b0 ELSE set_block(b0, "report_shape")
     IN  bind' = IF r.cross THEN set_block(b1, "cross_filter") ELSE b1
  /\ UNCHANGED <<walkVars, engine, orgVars, seen>>

(* The first safe and queryable candidate is the base object.  A column    *)
(* prefix is a hint only: it fills the base object and blocks.             *)
ResolveBase ==
  /\ status = "bridge" /\ step = "base" /\ translatable
  /\ LET sources == BaseCandidates(bind.report)
         valid == { i \in DOMAIN sources : sources[i].obj \in Safe /\ sources[i].obj \in Queryable }
         best == sources[Min(valid)]
         found == [bind EXCEPT !.base = best.obj, !.by = best.by]
     IN  bind' = IF valid = {} THEN set_block(bind, "base_object")
                 ELSE IF best.by = "column_prefix" THEN set_block(found, "base_object")
                 ELSE found
  /\ global_loaded_' = (global_loaded_ \/ \E c \in Range(BaseCandidates(bind.report)) : c.obj \in Safe)
  /\ step' = IF bind'.base = None THEN "filters" ELSE "columns"
  /\ UNCHANGED <<walkVars, describe_, calls, status, orgVars, seen>>

(* Describe Global fails: caught, and the report is blocked. *)
BaseNotValidated ==
  /\ status = "bridge" /\ step = "base" /\ translatable
  /\ ~ global_loaded_
  /\ \E c \in Range(BaseCandidates(bind.report)) : c.obj \in Safe
  /\ bind' = set_block(bind, "base_object")
  /\ step' = "filters"
  /\ UNCHANGED <<walkVars, engine, calls, status, orgVars, seen>>

(* A report that is blocked by its shape is not validated at all. *)
SkipBase ==
  /\ status = "bridge" /\ step = "base" /\ ~ translatable
  /\ step' = "filters"
  /\ UNCHANGED <<walkVars, engine, calls, status, orgVars, seen, bind>>

Advance(b) == [b EXCEPT !.next = @ + 1]

(* A mutant of WithColumn: an unresolved column is left out, silently. *)
WithColumnSkipped(b, token) ==
  LET r == Resolve(b.base, token)
  IN  IF r.field = None THEN b ELSE [b EXCEPT !.fields = Append(@, r)]

(* A column is projected, or it blocks. *)
WithColumn(b, token) ==
  LET r == Resolve(b.base, token)
  IN  IF r.field # None THEN [b EXCEPT !.fields = Append(@, r)]
      ELSE set_block([b EXCEPT !.unresolved_columns = @ \union {token}],
                     IF OverRelationship(b.base, token) THEN "relationship" ELSE "projected_field")

(* One column; a describe that fails is not caught. *)
ResolveColumn ==
  /\ status = "bridge" /\ step = "columns"
  /\ bind.next <= Len(bind.report.columns)
  /\ LET token == bind.report.columns[bind.next]
         asked == Described(bind.base, token)
     IN  /\ describe_' = CachedUpToFailure(asked)
         /\ IF Throws(asked) THEN status' = "failed" /\ UNCHANGED bind
            ELSE bind' = Advance(WithColumn(bind, token)) /\ UNCHANGED status
  /\ SeenFollows
  /\ UNCHANGED <<walkVars, global_loaded_, calls, orgVars, step>>

ColumnsDone ==
  /\ status = "bridge" /\ step = "columns"
  /\ bind.next > Len(bind.report.columns)
  /\ step' = "filters"
  /\ bind' = LET b == [bind EXCEPT !.next = 1]
             IN  IF bind.report.columns = << >> THEN set_block(b, "projected_field") ELSE b
  /\ UNCHANGED <<walkVars, engine, calls, status, orgVars, seen>>

(* SafeOperator: f.op is "like" for contains, "compare" for the others it  *)
(* knows.  A LIKE takes any value, a comparison no date, boolean or null.  *)
SafeOperator(f) == f.op \in {"compare", "like"}

AmbiguousLiteral(f) == f.op # "like" /\ f.value = "ambiguous"

Clause(r, f) ==
  [ object |-> r.object, field |-> r.field,
    form |-> IF f.op = "like" THEN "like" ELSE IF f.value = "numeric" THEN "bare" ELSE "quoted" ]

(* A filter becomes a clause, or it blocks. *)
WithFilter(b, f) ==
  LET r == Resolve(b.base, f.field)
  IN  IF r.field = None
      THEN set_block([b EXCEPT !.unresolved_filters = @ \union {f.field}],
                     IF OverRelationship(b.base, f.field) THEN "relationship" ELSE "filter_field")
      ELSE IF << r.object, r.field >> \notin Filterable THEN set_block(b, "filterability")
      ELSE IF AmbiguousLiteral(f) THEN set_block(b, "literal")
      ELSE [b EXCEPT !.clauses = Append(@, Clause(r, f))]

(* One filter.  The operator is judged even where there is no base. *)
TranslateFilter ==
  /\ status = "bridge" /\ step = "filters"
  /\ bind.next <= Len(bind.report.filters)
  /\ LET f == bind.report.filters[bind.next]
         asked == IF SafeOperator(f) /\ bind.base # None THEN Described(bind.base, f.field) ELSE << >>
     IN  /\ describe_' = CachedUpToFailure(asked)
         /\ IF Throws(asked) THEN status' = "failed" /\ UNCHANGED bind
            ELSE /\ bind' = Advance(IF ~ SafeOperator(f) THEN set_block(bind, "operator")
                                    ELSE IF bind.base = None THEN bind
                                    ELSE WithFilter(bind, f))
                 /\ UNCHANGED status
  /\ SeenFollows
  /\ UNCHANGED <<walkVars, global_loaded_, calls, orgVars, step>>

(* Only indices of filters, joined by AND. *)
BooleanFilterAndOnly(words, nfilters) ==
  words = << >> \/ /\ Len(words) % 2 = 1
                   /\ \A i \in DOMAIN words :
                        IF i % 2 = 1 THEN words[i] \in 1 .. nfilters ELSE words[i] = AndWord

(* The filter logic is judged and the bind data is complete: the SOQL is   *)
(* SELECT fields FROM base WHERE the clauses joined by AND, when nothing   *)
(* blocks it.                                                              *)
FinishSoql ==
  /\ status = "bridge" /\ step = "filters"
  /\ bind.next > Len(bind.report.filters)
  /\ bind' = IF BooleanFilterAndOnly(bind.report.logic, Len(bind.report.filters)) THEN bind
             ELSE set_block(bind, "boolean_filter")
  /\ step' = "none" /\ status' = "done"
  /\ UNCHANGED <<walkVars, engine, calls, orgVars, seen>>

-----------------------------------------------------------------------------
(* salesforce_report, salesforce_metadata_fields and _objects.             *)

(* The name of a report column: its label, its API name where the label is *)
(* missing or reserved, that with a prefix where it is reserved too.       *)
ColumnName(c) ==
  LET label == IF c.label = << >> \/ c.label \in Reserved THEN c.api ELSE c.label
  IN  IF label = << >> \/ label \in Reserved THEN << "col_" >> \o c.api ELSE label

(* A mutant of Disambiguated: one suffix is thought to be enough. *)
DisambiguatedOnce(name, used) == IF name \in used THEN Append(name, "2") ELSE name

(* A name in use gets the first free numeric suffix. *)
Disambiguated(name, used) ==
  LET free == { n \in 2 .. Cardinality(used) + 2 : Append(name, ToString(n)) \notin used }
  IN  IF name \in used THEN Append(name, ToString(Min(free))) ELSE name

ColumnNames(columns) ==
  LET names[k \in 0 .. Len(columns)] ==
        IF k = 0 THEN << >>
        ELSE Append(names[k - 1], Disambiguated(ColumnName(columns[k]), Range(names[k - 1])))
  IN  names[Len(columns)]

(* ReportBind: a sample of a tabular report, its rows cut or padded to the *)
(* columns.  allData may be missing: then nothing is claimed.              *)
ReportBind(s) ==
  /\ status = "idle" /\ calls < MaxCalls
  /\ calls' = calls + 1
  /\ IF s.tabular
     THEN /\ status' = "done"
          /\ bind' = [ kind |-> "sample", report |-> s, names |-> ColumnNames(s.columns),
                       rows |-> [i \in DOMAIN s.rows |-> [c \in DOMAIN s.columns |->
                                  IF c <= s.rows[i] THEN "cell" ELSE ""]],
                       has_all_data |-> s.allData # "absent",
                       truncated |-> s.allData = "false" ]
     ELSE status' = "failed" /\ UNCHANGED bind
  /\ UNCHANGED <<walkVars, engine, orgVars, seen, step>>

(* MetaFieldsBind: the fields of the describe, cached or not. *)
MetaFieldsBind(o) ==
  /\ status = "idle" /\ calls < MaxCalls
  /\ calls' = calls + 1
  /\ describe_' = Cached(o)
  /\ IF Describable(o)
     THEN status' = "done" /\ bind' = [ kind |-> "fields", object |-> o, fields |-> FieldsOf(o) ]
     ELSE status' = "failed" /\ UNCHANGED bind
  /\ SeenFollows
  /\ UNCHANGED <<walkVars, global_loaded_, orgVars, step>>

(* MetaObjectsBind: the global list. *)
MetaObjectsBind ==
  /\ status = "idle" /\ calls < MaxCalls
  /\ calls' = calls + 1
  /\ status' = "done" /\ bind' = [ kind |-> "objects" ]
  /\ global_loaded_' = TRUE
  /\ UNCHANGED <<walkVars, describe_, orgVars, seen, step>>

(* Why an item of the last scan was pushed or not, seen through the        *)
(* describe; ok: there is one.                                             *)
ExplainReason(item, o, ok) ==
  CASE item.role = "relationship" -> "relationship_traversed"
    [] item.role # "relationship" /\ ~ ok -> "metadata_unavailable"
    [] item.role # "relationship" /\ ok ->
         IF item.field = None THEN "complex_expression"
         ELSE IF item.field \notin FieldsOf(o) THEN "unresolved_field"
         ELSE IF item.role = "projection" THEN "projected"
         ELSE IF item.role = "aggregate" THEN "aggregate_pushdown"
         ELSE IF item.pushed THEN "pushed_to_soql"
         ELSE IF << o, item.field >> \notin Filterable THEN "not_filterable"
         ELSE "unsupported_operator"

(* ExplainBind: a row for every item, one for the count and one for the    *)
(* transport; none at all before the first scan.  A catalog that is gone   *)
(* and a describe that fails are caught: the rows lose their annotation.   *)
ExplainBind(snap) ==
  /\ status = "idle" /\ calls < MaxCalls
  /\ calls' = calls + 1
  /\ status' = "done"
  /\ describe_' = IF snap.attached THEN Cached(snap.object) ELSE describe_
  /\ LET ok == snap.attached /\ Describable(snap.object)
     IN  bind' = [ kind |-> "explain", snap |-> snap,
                   reasons |-> [i \in DOMAIN snap.items |-> ExplainReason(snap.items[i], snap.object, ok)]
                                 \o (IF snap.object = None THEN << >>
                                     ELSE << IF snap.count THEN "count_pushdown" ELSE "count_not_pushed",
                                             "transport" >>) ]
  /\ SeenFollows
  /\ UNCHANGED <<walkVars, global_loaded_, orgVars, step>>

(* A request that answers nothing: Describe Global, the report's describe, *)
(* its run.  The call fails and nothing is cached.                         *)
RequestFails ==
  /\ status = "idle" /\ calls < MaxCalls
  /\ calls' = calls + 1
  /\ status' = "failed"
  /\ UNCHANGED <<walkVars, engine, bridgeVars>>

-----------------------------------------------------------------------------
(* The org, the refreshes and the other functions.                         *)

(* An administrator removes fields or brings them back. *)
SchemaChanges ==
  /\ status = "idle"
  /\ dropped' \in SUBSET Droppable \ {dropped}
  /\ changed' = changed \union { p[1] : p \in (dropped \ dropped') \union (dropped' \ dropped) }
  /\ UNCHANGED <<engineVars, seen, step, bind>>

(* A walk of the relationship graph, on the shared cache. *)
GraphStep ==
  /\ GraphNext
  /\ SeenFollows
  /\ UNCHANGED <<orgVars, step, bind>>

(* A mutant of RefreshObject: the describe is kept. *)
RefreshObjectKeeps(o) ==
  /\ status = "idle"
  /\ changed' = changed \ {o}
  /\ UNCHANGED <<engineVars, seen, dropped, step, bind>>

RefreshObject(o) ==
  /\ Refresh(o)
  /\ SeenFollows
  /\ changed' = changed \ {o}
  /\ UNCHANGED <<dropped, step, bind>>

RefreshCatalog ==
  /\ RefreshAll
  /\ SeenFollows
  /\ changed' = {}
  /\ UNCHANGED <<dropped, step, bind>>

(* The rows are emitted, or the error is raised. *)
ReturnRows ==
  /\ Return
  /\ step' = "none" /\ bind' = NoBind
  /\ UNCHANGED <<orgVars, seen>>

BridgeNext ==
  \/ GraphStep \/ (\E o \in Objects : RefreshObject(o)) \/ RefreshCatalog \/ ReturnRows
  \/ SchemaChanges
  \/ (\E r \in Reports : ReportSoqlBind(r))
  \/ ResolveBase \/ BaseNotValidated \/ SkipBase
  \/ ResolveColumn \/ ColumnsDone \/ TranslateFilter \/ FinishSoql
  \/ (\E s \in Samples : ReportBind(s))
  \/ (\E o \in Objects : MetaFieldsBind(o)) \/ MetaObjectsBind
  \/ (\E snap \in Snapshots : ExplainBind(snap))
  \/ RequestFails

BridgeSpec == BridgeInit /\ [][BridgeNext]_allVars

-----------------------------------------------------------------------------
(* Properties.                                                             *)

(* Every variable keeps its type; what is left of a walk and of a bind     *)
(* does not outlive its call.                                              *)
BridgeTypeOK ==
  /\ EngineTypeOK
  /\ dropped \subseteq Droppable /\ seen \subseteq Droppable
  /\ \A p \in seen : p[1] \in describe_
  /\ changed \subseteq Objects
  /\ step \in {"none", "base", "columns", "filters"}
  /\ step # "none" => bind.kind = "soql"
  /\ bind.kind \in {"none", "soql", "sample", "fields", "objects", "explain"}
  /\ status = "idle" => bind = NoBind /\ rows = << >>

(* Does the reason apply to the bound report, whatever the bind met first? *)
Blocks(reason) ==
  LET r == bind.report
      validated == bind.base # None
      judged == { f \in Range(r.filters) : SafeOperator(f) }
      Unresolved(t) == Resolve(bind.base, t).field = None
      Allowed(f) == LET x == Resolve(bind.base, f.field) IN << x.object, x.field >> \in Filterable
  IN  \/ reason = "report_shape" /\ ~ r.tabular
      \/ reason = "cross_filter" /\ r.cross
      \/ reason = "base_object" /\ (~ validated \/ bind.by = "column_prefix")
      \/ /\ reason = "projected_field" /\ validated
         /\ \/ r.columns = << >>
            \/ \E t \in Range(r.columns) : Unresolved(t) /\ ~ OverRelationship(bind.base, t)
      \/ /\ reason = "relationship" /\ validated
         /\ \E t \in Range(r.columns) \union { f.field : f \in judged } :
              Unresolved(t) /\ OverRelationship(bind.base, t)
      \/ /\ reason = "filter_field" /\ validated
         /\ \E f \in judged : Unresolved(f.field) /\ ~ OverRelationship(bind.base, f.field)
      \/ /\ reason = "filterability" /\ validated
         /\ \E f \in judged : ~ Unresolved(f.field) /\ ~ Allowed(f)
      \/ reason = "operator" /\ judged # Range(r.filters)
      \/ /\ reason = "literal" /\ validated
         /\ \E f \in judged : ~ Unresolved(f.field) /\ Allowed(f) /\ AmbiguousLiteral(f)
      \/ /\ reason = "boolean_filter"
         /\ \/ \E i \in DOMAIN r.logic : r.logic[i] = OtherWord \/ r.logic[i] > Len(r.filters)
            \/ r.logic # << >> /\ Last(r.logic) = AndWord

(* "No silent partial SOQL": a bound report is translatable only when      *)
(* nothing blocks it, and then every column is projected and every filter  *)
(* is a clause, in order, on a root that is more than a guess; otherwise   *)
(* blocked_by is the first reason that applies, by precedence and not by   *)
(* the order in which the bind met them.                                   *)
TranslationExact ==
  status = "done" /\ bind.kind = "soql" =>
    LET r == bind.report
        reasons == { i \in DOMAIN Reasons : Blocks(Reasons[i]) }
    IN  IF reasons # {} THEN bind.blocked_by = Reasons[Min(reasons)]
        ELSE /\ translatable
             /\ bind.fields = [i \in DOMAIN r.columns |-> Resolve(bind.base, r.columns[i])]
             /\ bind.clauses = [i \in DOMAIN r.filters |->
                                  Clause(Resolve(bind.base, r.filters[i].field), r.filters[i])]
             /\ \A c \in Range(bind.clauses) : << c.object, c.field >> \in Filterable

(* What a function answers about an object that did not change since it    *)
(* was last refreshed is true of the org, whichever functions filled the   *)
(* shared cache and however their calls ended: metadata_fields shows the   *)
(* org's fields, a candidate SOQL names fields the org has, query_explain  *)
(* calls a field unresolved only when the org does not have it.            *)
AnswersFresh ==
  LET InOrg(o, f) == f \in Schema[o] /\ << o, f >> \notin dropped
  IN  status = "done" =>
        /\ bind.kind = "fields" /\ bind.object \notin changed =>
             bind.fields = { f \in Schema[bind.object] : InOrg(bind.object, f) }
        /\ bind.kind = "soql" /\ translatable =>
             \A x \in Range(bind.fields) \union Range(bind.clauses) :
               x.object \notin changed => InOrg(x.object, x.field)
        /\ bind.kind = "explain" /\ bind.snap.object \notin changed =>
             \A i \in DOMAIN bind.snap.items :
               bind.reasons[i] \notin {"relationship_traversed", "metadata_unavailable", "complex_expression"} =>
                 (bind.reasons[i] # "unresolved_field") = InOrg(bind.snap.object, bind.snap.items[i].field)

(* The columns of a report sample have names of their own, and none of     *)
(* them is that of a diagnostic column, whatever the labels; every row has *)
(* a cell for each.  Names are compared as spelled, the way the code's set *)
(* of used names is.                                                       *)
SampleWellFormed ==
  status = "done" /\ bind.kind = "sample" =>
    /\ IsInjective(bind.names) /\ Range(bind.names) \intersect Diagnostic = {}
    /\ Len(bind.names) = Len(bind.report.columns)
    /\ \A i \in DOMAIN bind.rows : DOMAIN bind.rows[i] = DOMAIN bind.names
=============================================================================
