SPECIFICATION FairSpec
CONSTANTS
  svc = svc hand = hand
  Nobody = Nobody
  Service = svc
  ByHand <- OneByHand
  Scenarios <- TogetherAndByHand
INVARIANTS TypeOK SocketIsServers KernelHasTable
PROPERTIES SocketStays TeardownSparesServers ServiceComesBack
