SPECIFICATION TranslationSpec
CONSTANTS
  e1 = e1
  i1 = i1
  l1 = l1
  raw = raw
  alt = alt
  Exact <- MCExact
  Inexact <- MCInexact
  Local <- MCLocal
  Raw <- raw
  Alternative <- alt
  Aggregates <- MCAggregates
  MaxHooks = 2
  MaxRows = 3
  name = name
  id = id
  secret = secret
  Null = Null
  Fields <- MCFields
  Values <- MCValues
  Predicates <- MCPredicates
  Length <- MCLength
  MaxFilters = 2
  kMaxInItems = 2
  kMaxWhereChars = 4
  Unprintable = {3}
  BadIds = {4}
  NullsDiffer = TRUE
  FoldsCase = TRUE
  acc = acc
  con = con
  usr = usr
  log = log
  own = own
  who = who
  hist = hist
  Objects <- MCObjects
  Parents <- MCParents
  Children <- MCChildren
  Queryable <- MCQueryable
  Flaky <- MCFlaky
  Schema <- MCSchema
  Droppable <- MCDroppable
  Filterable <- MCFilterable
  Readings <- MCReadings
  TokenMap <- MCTokenMap
  Safe <- MCSafe
  Reports <- MCReports
  Samples <- MCSamples
  Snapshots <- MCSnapshots
  Reserved <- MCReserved
  Diagnostic <- MCDiagnostic
  kMaxDepth = 4
  MaxCalls = 2
INVARIANTS
  TypeOK PredicatesApplied AggregateExact
  PushdownTypeOK AlikeRowsExact
  BridgeTypeOK GraphExact TranslationExact AnswersFresh SampleWellFormed
