SPECIFICATION FairSpec
CONSTANTS
  a1 = a1 a2 = a2
  Accounts <- TwoAccounts
  Tiers = {"a", "c"}
  MaxTime = 2
  MaxCalls = 2
  Faults = {"fold", "load", "apply", "crash", "step"}
INVARIANTS TypeOK KernelIsOneMoment
PROPERTY KernelFollowsClock
