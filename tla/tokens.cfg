SPECIFICATION Spec
CONSTANTS
  a1 = a1 a2 = a2 a3 = a3 t1 = t1 t2 = t2 t3 = t3 t4 = t4 t5 = t5 p1 = p1
  Ports <- OnePort
  Accounts <- ThreeAccounts
  Values <- FiveTokens
  Empty = Empty
  NotYet = NotYet
  Gone = Gone
  Faults = {"store", "load", "crash"}
INVARIANTS TypeOK NobodyWithoutToken RangesSurvive TokensAreUnambiguous QueriesFollowRows
PROPERTY NeverRerolled
