SPECIFICATION Spec
CONSTANTS
  PortTable <- ThreePorts
  Packets <- Traffic
  Accounts = {"metered", "free"}
  Customers = {"metered"}
  LastMonth = 4
  LastDay = 9
  First <- Months
  Midnight <- Days
  Shortest = 2
  Persisters = {"persistLoop"}
  MaxForgotten = 0
  Limits = {0, 2}
  Anchors = {1, 2}
  Expiries = {0, 4}
INVARIANTS TypeOK StatusIsTruth ResetsAreDue
PROPERTIES RulesetKeepsPromise WithinBudget
CHECK_DEADLOCK FALSE
