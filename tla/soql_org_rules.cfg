SPECIFICATION PushdownSpec
CONSTANTS
  name = name
  id = id
  secret = secret
  Null = Null
  Fields <- MCFields
  Values <- MCValues
  Predicates <- MCPredicates
  Length <- MCLength
  MaxFilters = 2
  kMaxInItems = 2
  kMaxWhereChars = 4
  Unprintable = {3}
  BadIds = {4}
  NullsDiffer = TRUE
  FoldsCase = TRUE
INVARIANT ResultExact
