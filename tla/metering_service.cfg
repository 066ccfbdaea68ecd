SPECIFICATION ServiceSpec
CONSTANTS
  a1 = a1 p1 = p1 loop = loop rpc = rpc
  None = None
  Accounts <- OneAccount
  Ports <- OnePort
  Owner <- OwnedByA1
  Persisters <- LoopOnly
  PersistLoop = loop
  Ops = {"reset", "settier"}
  Faults = {"apply"}
  MaxBytes = 0
  MaxGen = 1
  MaxCycle = 1
  MaxWaiting = 1
PROPERTIES UnsyncedHeals MonthlyResetHappens
