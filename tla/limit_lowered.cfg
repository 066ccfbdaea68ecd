SPECIFICATION Spec
CONSTANTS
  PortTable <- ThreePorts
  Packets <- Traffic
  Accounts = {"metered", "free"}
  Customers = {"metered"}
  LastMonth = 4
  LastDay = 9
  First <- Months
  Midnight <- Days
  Shortest = 2
  Persisters = {}
  MaxForgotten = 0
  Limits = {1, 2}
  Anchors = {1, 2}
  Expiries = {0, 3, 6}
PROPERTY UsageFallsByReset
CHECK_DEADLOCK FALSE
