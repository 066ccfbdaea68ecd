SPECIFICATION Spec
CONSTANTS
  c1 = c1 c2 = c2 n1 = n1 n2 = n2
  Clients <- TwoClients
  Names <- OneName
  Tiers = {"b"}
  MaxPort = 1
  MaxAccts = 2
  MaxPorts = 1
  Calls = {"AddAccount", "DeleteAccount", "AddPort", "EditPort", "DeletePort", "MovePort", "SetTier"}
  Faults = {"fold", "load", "apply", "crash"}
INVARIANTS TypeOK KernelFollowsRows KernelIsUnambiguous
SYMMETRY Symmetry
CHECK_DEADLOCK FALSE
