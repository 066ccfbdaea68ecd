SPECIFICATION Spec
CONSTANTS
  a1 = a1 p1 = p1 loop = loop rpc = rpc
  None = None
  Accounts <- OneAccount
  Ports <- OnePort
  Owner <- OwnedByA1
  Persisters <- LoopAndRpc
  PersistLoop = loop
  Ops = {"reset", "setusage"}
  Faults = {}
  MaxBytes = 2
  MaxGen = 2
  MaxCycle = 0
  MaxWaiting = 1
INVARIANT ViewNeverAhead
PROPERTY SeedsMatchLive
