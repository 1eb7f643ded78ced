SPECIFICATION Spec
CONSTANTS
  e1 = e1
  i1 = i1
  l1 = l1
  raw = raw
  alt = alt
  Exact <- MCExact
  Inexact <- MCInexact
  Local <- MCLocal
  Raw <- raw
  Alternative <- alt
  Aggregates <- MCAggregates
  MaxHooks = 2
  MaxRows = 3
INVARIANT RawFilterApplied
