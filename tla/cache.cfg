SPECIFICATION Spec
CONSTANTS
  p1 = p1
  p2 = p2
  Procs = {p1, p2}
  Last = 2
  PageSize = 1
  TTL = 0
  MaxNow = 1
  MaxChanges = 1
  MaxFaults = 1
INVARIANTS ServedTrue CarriedOnce ResetHolds
PROPERTIES ListStays PagingAdvances
