-------------------------------- MODULE Soql --------------------------------
(***************************************************************************)
(* Filter pushdown (salesforce_soql.cpp): PushdownToSoql translates the    *)
(* conjuncts of a query into a SOQL WHERE.  A conjunct that is translated  *)
(* exactly is taken from DuckDB, which never applies it again; one that is *)
(* translated to something wider, or not at all, stays.                    *)
(*                                                                         *)
(* A predicate is a record with its kind in "is"; a clause of the WHERE is *)
(* what the org makes of its text: the rows it returns, and whether it     *)
(* rejects the whole query for it.  Values are numbers; 2k - 1 and 2k      *)
(* stand for two spellings of a text that differ in case.                  *)
(***************************************************************************)
EXTENDS Integers, Sequences, FiniteSets, Functions

CONSTANTS
  Fields,         \* the columns of the table: name |-> [filterable, id]
  Values,         \* the values of a column
  Null,           \* SQL's NULL and SOQL's null
  Predicates,     \* the conjuncts DuckDB may pass, and their parts
  Length,         \* the length of the clause of a predicate, where it has one
  MaxFilters,     \* bound: conjuncts of one call
  kMaxInItems,    \* cap on the constants of an IN (200 in the code)
  kMaxWhereChars, \* cap on the length of the WHERE (4000 in the code)
  Unprintable,    \* the constants SoqlLiteral has no literal for
  BadIds,         \* the constants that are no Salesforce Id
  NullsDiffer,    \* rule of the org: null satisfies field != constant
  FoldsCase       \* rule of the org: =, < and IN are blind to case, as LIKE is

ComparisonOps == {"=", "!=", "<", ">", "<=", ">="}

ValueOrNull == Values \union {Null}

(* The predicates on one column.  "like" stands for ~~, prefix, suffix and *)
(* contains: a text is like its constant when it has the same spelling.    *)
ColumnPredicates ==
  [ is : {"compare"}, field : DOMAIN Fields, op : ComparisonOps, const : Values,
    flipped : BOOLEAN ]
  \union [ is : {"distinct"}, field : DOMAIN Fields, const : ValueOrNull ]
  \union [ is : {"between"}, field : DOMAIN Fields, lo : ValueOrNull, hi : ValueOrNull,
           lo_inc : BOOLEAN, hi_inc : BOOLEAN ]
  \union [ is : {"null", "notnull"}, field : DOMAIN Fields ]
  \union [ is : {"in"}, field : DOMAIN Fields, consts : SUBSET ValueOrNull ]
  \union [ is : {"like"}, field : DOMAIN Fields, const : Values ]

Conjunctions == [ is : {"and", "or"}, args : Seq(Predicates) ]

(* A predicate is on a column or put together from shorter ones. *)
ASSUME SoqlAssumption ==
  /\ Fields \in [DOMAIN Fields -> [ filterable : BOOLEAN, id : BOOLEAN ]]
  /\ Values \subseteq Nat /\ Null \notin Values /\ BadIds \subseteq Values
  /\ MaxFilters \in Nat /\ kMaxInItems \in Nat /\ kMaxWhereChars \in Nat
  /\ NullsDiffer \in BOOLEAN /\ FoldsCase \in BOOLEAN
  /\ Predicates \subseteq ColumnPredicates \union Conjunctions
  /\ Length \in [Predicates -> Nat]
  /\ \A e \in Predicates \intersect Conjunctions :
       \A k \in DOMAIN e.args : Length[e.args[k]] < Length[e]

VARIABLES
  conjuncts,   \* filters: the conjuncts of the call
  next,        \* the one that is translated next
  translated,  \* translated[i]: conjunct i has a clause
  exact,       \* exact[i]: and the clause means the same
  out_where,   \* the conjuncts whose clauses the WHERE joins with AND
  remaining,   \* the conjuncts DuckDB still applies
  out_info,    \* what the diagnostics say of each conjunct
  phase        \* "translating", "pushed" or "error"

pushdownVars ==
  <<conjuncts, next, translated, exact, out_where, remaining, out_info, phase>>

Row == [DOMAIN Fields -> ValueOrNull]

-----------------------------------------------------------------------------
(* What SQL and SOQL say of a row.                                         *)

Compare(op, a, b) ==
  CASE op = "="  -> a = b
    [] op = "!=" -> a # b
    [] op = "<"  -> a < b
    [] op = ">"  -> a > b
    [] op = "<=" -> a <= b
    [] op = ">=" -> a >= b

(* The text of a value without its case. *)
Folded(v) == (v + 1) \div 2

(* What the org compares. *)
Seen(v) == IF FoldsCase THEN Folded(v) ELSE v

(* SQL: a comparison is never true of NULL, IS DISTINCT FROM may be. *)
SqlTrue(e, v) ==
  CASE e.is = "compare" -> v # Null /\ IF e.flipped THEN Compare(e.op, e.const, v)
                                                    ELSE Compare(e.op, v, e.const)
    [] e.is = "distinct" -> v # e.const
    [] e.is = "between" -> /\ v # Null /\ e.lo # Null /\ e.hi # Null
                           /\ Compare(IF e.lo_inc THEN ">=" ELSE ">", v, e.lo)
                           /\ Compare(IF e.hi_inc THEN "<=" ELSE "<", v, e.hi)
    [] e.is = "null" -> v = Null
    [] e.is = "notnull" -> v # Null
    [] e.is = "in" -> v # Null /\ v \in e.consts
    [] e.is = "like" -> v = e.const

(* The rows of a predicate. *)
SqlRows[e \in Predicates] ==
  CASE e.is = "and" -> { row \in Row : \A k \in DOMAIN e.args : row \in SqlRows[e.args[k]] }
    [] e.is = "or" -> { row \in Row : \E k \in DOMAIN e.args : row \in SqlRows[e.args[k]] }
    [] OTHER -> { row \in Row : SqlTrue(e, row[e.field]) }

(* SOQL: = null, != null and IN test for null, LIKE is blind to case. *)
SoqlCompare(op, v, const) ==
  IF const = Null THEN (v = Null) = (op = "=")
  ELSE IF v = Null THEN op = "!=" /\ NullsDiffer
  ELSE Compare(op, Seen(v), Seen(const))

SoqlIn(v, consts) ==
  \/ v \in consts
  \/ v # Null /\ \E c \in consts \ {Null} : Seen(c) = Seen(v)

SoqlLike(v, const) == v # Null /\ Folded(v) = Folded(const)

(* INVALID_QUERY_FILTER_OPERATOR: =, != or IN compares an Id with no Id. *)
Rejects(f, consts) == Fields[f].id /\ consts \intersect BadIds # {}

-----------------------------------------------------------------------------
(* TranslateExpr.                                                          *)

Clauses == [ rows : SUBSET Row, rejected : BOOLEAN ]

Comparison(f, op, const) ==
  [ rows |-> { row \in Row : SoqlCompare(op, row[f], const) },
    rejected |-> op \in {"=", "!="} /\ Rejects(f, {const}) ]

InClause(f, consts) ==
  [ rows |-> { row \in Row : SoqlIn(row[f], consts) }, rejected |-> Rejects(f, consts) ]

LikeClause(f, const) ==
  [ rows |-> { row \in Row : SoqlLike(row[f], const) }, rejected |-> FALSE ]

(* Clauses joined with AND or OR, in parentheses. *)
Joined(is, cs) ==
  [ rows |-> IF is = "and" THEN { row \in Row : \A k \in DOMAIN cs : row \in cs[k].rows }
                           ELSE { row \in Row : \E k \in DOMAIN cs : row \in cs[k].rows },
    rejected |-> \E k \in DOMAIN cs : cs[k].rejected ]

Translations ==
  [ outcome : {"translated", "residual", "refused"}, exact : BOOLEAN, clause : Clauses ]

NoClause == [ rows |-> Row, rejected |-> FALSE ]

Residual == [ outcome |-> "residual", exact |-> FALSE, clause |-> NoClause ]

(* The BinderException. *)
Refused == [ outcome |-> "refused", exact |-> FALSE, clause |-> NoClause ]

Exactly(c) == [ outcome |-> "translated", exact |-> TRUE, clause |-> c ]

(* A prefilter that lets at least the right rows through. *)
Superset(c) == [ outcome |-> "translated", exact |-> FALSE, clause |-> c ]

FlipComparison(op) ==
  CASE op = "<" -> ">" [] op = ">" -> "<" [] op = "<=" -> ">=" [] op = ">=" -> "<=" [] OTHER -> op

FieldFor(f) == Fields[f].filterable

(* A constant that is no Id is compared with an Id: the query is refused. *)
CheckIdLiterals(f, consts) == Fields[f].id /\ consts \intersect BadIds # {}

TranslateCompare(e) ==
  LET op == IF e.flipped THEN FlipComparison(e.op) ELSE e.op
  IN  CASE ~ FieldFor(e.field) -> Residual
        [] FieldFor(e.field) /\ op \in {"=", "!="} /\ CheckIdLiterals(e.field, {e.const}) -> Refused
        [] OTHER -> IF e.const \in Unprintable THEN Residual
                    ELSE Exactly(Comparison(e.field, op, e.const))

TranslateBetween(e) ==
  IF FieldFor(e.field) /\ {e.lo, e.hi} \intersect (Unprintable \union {Null}) = {}
  THEN Exactly(Joined("and", << Comparison(e.field, IF e.lo_inc THEN ">=" ELSE ">", e.lo),
                                Comparison(e.field, IF e.hi_inc THEN "<=" ELSE "<", e.hi) >>))
  ELSE Residual

TranslateNullTest(e) ==
  IF FieldFor(e.field) THEN Exactly(Comparison(e.field, IF e.is = "null" THEN "=" ELSE "!=", Null))
  ELSE Residual

TranslateIn(e) ==
  IF \/ ~ FieldFor(e.field)
     \/ Cardinality(e.consts) > kMaxInItems
     \/ e.consts \intersect Unprintable # {} THEN Residual
  ELSE IF CheckIdLiterals(e.field, e.consts) THEN Refused
  ELSE Superset(InClause(e.field, e.consts))

TranslateLike(e) ==
  IF FieldFor(e.field) THEN Superset(LikeClause(e.field, e.const)) ELSE Residual

(* AND and OR: every child must have a clause.  parts: their translations, *)
(* of which the code makes no more than the first that has none.           *)
TranslateConjunction(e, parts) ==
  CASE \A k \in DOMAIN parts : parts[k].outcome = "translated" ->
         [ outcome |-> "translated",
           exact |-> e.is = "and" /\ \A k \in DOMAIN parts : parts[k].exact,
           clause |-> Joined(e.is, [k \in DOMAIN parts |-> parts[k].clause]) ]
    [] \E k \in DOMAIN parts : /\ parts[k].outcome = "refused"
                               /\ \A j \in 1 .. k - 1 : parts[j].outcome = "translated" -> Refused
    [] OTHER -> Residual

TranslateExpr[e \in Predicates] ==
  CASE e.is = "compare" -> TranslateCompare(e)
    [] e.is = "between" -> TranslateBetween(e)
    [] e.is \in {"null", "notnull"} -> TranslateNullTest(e)
    [] e.is = "in" -> TranslateIn(e)
    [] e.is = "like" -> TranslateLike(e)
    [] e.is \in {"and", "or"} ->
         TranslateConjunction(e, [k \in DOMAIN e.args |-> TranslateExpr[e.args[k]]])
    [] OTHER -> Residual

-----------------------------------------------------------------------------
(* PushdownToSoql.                                                         *)

PushdownInit ==
  /\ conjuncts \in UNION { [1 .. n -> Predicates] : n \in 0 .. MaxFilters }
  /\ next = 1
  /\ translated = [i \in DOMAIN conjuncts |-> FALSE]
  /\ exact = [i \in DOMAIN conjuncts |-> FALSE]
  /\ out_where = {}
  /\ remaining = DOMAIN conjuncts
  /\ out_info = << >>
  /\ phase = "translating"

TranslateNext ==
  /\ phase = "translating"
  /\ next \in DOMAIN conjuncts
  /\ LET t == TranslateExpr[conjuncts[next]]
     IN  /\ t.outcome # "refused"
         /\ translated' = [translated EXCEPT ![next] = t.outcome = "translated"]
         /\ exact' = [exact EXCEPT ![next] = t.exact]
  /\ next' = next + 1
  /\ UNCHANGED <<conjuncts, out_where, remaining, out_info, phase>>

(* BinderException at plan time. *)
RefuseId ==
  /\ phase = "translating"
  /\ next \in DOMAIN conjuncts
  /\ TranslateExpr[conjuncts[next]].outcome = "refused"
  /\ phase' = "error"
  /\ UNCHANGED <<conjuncts, next, translated, exact, out_where, remaining, out_info>>

(* The conjuncts that have a clause. *)
clauses == { i \in DOMAIN conjuncts : translated[i] }

(* The length of a WHERE. *)
Size(cs) == SumFunction([i \in cs |-> Length[conjuncts[i]]])

(* A mutant of Overlong: the cap is off by one. *)
OverlongLate == ~ (Size(clauses) <= kMaxWhereChars + 1)

Overlong == ~ (Size(clauses) <= kMaxWhereChars)

Translated == phase = "translating" /\ next = Len(conjuncts) + 1

(* The guard on the length: nothing is pushed, everything stays. *)
PushNothing ==
  /\ Translated
  /\ Overlong
  /\ out_info' = [i \in DOMAIN conjuncts |-> [pushed |-> FALSE, exact |-> FALSE]]
  /\ phase' = "pushed"
  /\ UNCHANGED <<conjuncts, next, translated, exact, out_where, remaining>>

(* A mutant of PushWhere: every translated conjunct is taken from DuckDB. *)
PushWhereTakesAll ==
  /\ Translated
  /\ ~ Overlong
  /\ out_where' = clauses
  /\ remaining' = { i \in DOMAIN conjuncts : ~ translated[i] }
  /\ out_info' = [i \in DOMAIN conjuncts |-> [pushed |-> translated[i], exact |-> exact[i]]]
  /\ phase' = "pushed"
  /\ UNCHANGED <<conjuncts, next, translated, exact>>

(* The WHERE is sent; only what it says exactly is taken from DuckDB. *)
PushWhere ==
  /\ Translated
  /\ ~ Overlong
  /\ out_where' = clauses
  /\ remaining' = { i \in DOMAIN conjuncts : ~ (translated[i] /\ exact[i]) }
  /\ out_info' = [i \in DOMAIN conjuncts |-> [pushed |-> translated[i], exact |-> exact[i]]]
  /\ phase' = "pushed"
  /\ UNCHANGED <<conjuncts, next, translated, exact>>

Done == phase \in {"pushed", "error"} /\ UNCHANGED pushdownVars

PushdownNext == TranslateNext \/ RefuseId \/ PushNothing \/ PushWhere \/ Done

PushdownSpec == PushdownInit /\ [][PushdownNext]_pushdownVars

-----------------------------------------------------------------------------
(* Properties.                                                             *)

(* Every variable keeps its type, and a WHERE never exceeds its cap. *)
PushdownTypeOK ==
  /\ conjuncts \in Seq(Predicates) /\ Len(conjuncts) <= MaxFilters
  /\ next \in 1 .. Len(conjuncts) + 1
  /\ translated \in [DOMAIN conjuncts -> BOOLEAN]
  /\ exact \in [DOMAIN conjuncts -> BOOLEAN]
  /\ out_where \in SUBSET DOMAIN conjuncts
  /\ out_where # {} => Size(out_where) <= kMaxWhereChars
  /\ remaining \in SUBSET DOMAIN conjuncts
  /\ out_info \in {<< >>} \union [DOMAIN conjuncts -> [ pushed : BOOLEAN, exact : BOOLEAN ]]
  /\ phase \in {"translating", "pushed", "error"}

(* What a comparison of the query means to the org, as the user wrote it:  *)
(* its null and letter-case rules are not those of SQL.                    *)
OrgTrue(e, v) ==
  CASE e.is = "compare" ->
         IF v = Null THEN e.op = "!=" /\ NullsDiffer
         ELSE IF e.flipped THEN Compare(e.op, Seen(e.const), Seen(v))
         ELSE Compare(e.op, Seen(v), Seen(e.const))
    [] e.is = "between" -> /\ v # Null /\ e.lo # Null /\ e.hi # Null
                           /\ Compare(IF e.lo_inc THEN ">=" ELSE ">", Seen(v), Seen(e.lo))
                           /\ Compare(IF e.hi_inc THEN "<=" ELSE "<", Seen(v), Seen(e.hi))
    [] OTHER -> SqlTrue(e, v)

(* The rows on which the org and SQL agree about every comparison of a     *)
(* predicate.  IN, LIKE and the null tests are left to SQL's meaning.      *)
AlikeRows[e \in Predicates] ==
  IF e.is \in {"and", "or"}
  THEN { row \in Row : \A k \in DOMAIN e.args : row \in AlikeRows[e.args[k]] }
  ELSE { row \in Row : OrgTrue(e, row[e.field]) <=> SqlTrue(e, row[e.field]) }

(* A row reaches the query: the WHERE and what stays let it through. *)
Reaches(row) ==
  /\ \A i \in out_where : row \in TranslateExpr[conjuncts[i]].clause.rows
  /\ \A i \in remaining : row \in SqlRows[conjuncts[i]]

(* A row satisfies every conjunct. *)
Wanted(row) == \A i \in DOMAIN conjuncts : row \in SqlRows[conjuncts[i]]

(* The pushdown is exact where its comparisons are.  Whatever is pushed    *)
(* and whatever stays, whatever the org makes of null and of letter case:  *)
(* a row on which the comparisons of the WHERE mean what SQL means by them *)
(* reaches the query exactly when it satisfies every conjunct.  IN and     *)
(* LIKE, wider in SOQL, lose no row and add none.  And a malformed Id is   *)
(* reported at plan time (CheckIdLiterals): the org, which would reject    *)
(* the whole query for it, never sees one, however deep in an AND or OR.   *)
AlikeRowsExact ==
  phase = "pushed" =>
    /\ \A row \in Row :
         (\A i \in out_where : row \in AlikeRows[conjuncts[i]])
           => (Reaches(row) <=> Wanted(row))
    /\ \A i \in out_where : ~ TranslateExpr[conjuncts[i]].clause.rejected

(* "results are always correct; pushdown is purely an over-fetch           *)
(* optimisation" (salesforce_soql.cpp, head of the file): every row        *)
(* reaches the query exactly when it satisfies every conjunct.             *)
ResultExact == phase = "pushed" => \A row \in Row : Reaches(row) <=> Wanted(row)
=============================================================================
