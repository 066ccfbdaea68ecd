SPECIFICATION Spec
CONSTANTS
  c1 = c1 c2 = c2 n1 = n1 n2 = n2
  Clients <- TwoClients
  Names <- TwoNames
  Tiers = {"a", "c"}
  MaxPort = 2
  MaxAccts = 2
  MaxPorts = 1
  Calls = {"AddAccount", "DeleteAccount", "AddPort", "EditPort", "DeletePort", "MovePort", "SetTier", "SetExpiry"}
  Faults = {}
PROPERTIES StaleIdsAreHarmless PlainDeleteDropsNoPort ImplementsDirectory
SYMMETRY Symmetry
CHECK_DEADLOCK FALSE
