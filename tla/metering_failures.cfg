SPECIFICATION Spec
CONSTANTS
  a1 = a1 p1 = p1 loop = loop rpc = rpc
  None = None
  Accounts <- OneAccount
  Ports <- OnePort
  Owner <- OwnedByA1
  Persisters <- LoopOnly
  PersistLoop = loop
  Ops = {"reset", "settier", "other"}
  Faults = {"sample", "store", "load", "apply", "crash", "reboot"}
  MaxBytes = 1
  MaxGen = 1
  MaxCycle = 0
  MaxWaiting = 1
INVARIANTS TypeOK NoByteChargedTwice
PROPERTIES SeedsMatchLive RebuildKeepsMetered
