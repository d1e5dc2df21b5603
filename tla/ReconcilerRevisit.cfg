\* A service or backend Synchronize replaces is inserted again into the map its loop ranges over; when the loop produces it again its store entry is gone, so it is removed, and Synchronize still returns nil.
CONSTANTS
  v1 = v1
  v2 = v2
  r1 = r1
  r2 = r2
  NoUpdate = NoUpdate
  Absent = Absent
  Ticker = Ticker
  Handler = Handler
  Syncers <- MCTicker
  VS <- MCVS
  RS <- MCRS
  FallbackOf <- MCFallback
  StoreSvcOpts <- MCHostSet
  Ports = {1, 2}
  MaxWeight = 2
  UpHealths = {100}
  DownHealths = {0}
  SyscallsMayFail = FALSE
  PulseNewMayFail = FALSE
  MaxProbes = 3
  HasEndpoint = TRUE
  MaxStoreWrites = 1
  MaxFaults = 0
  Flush = TRUE
SPECIFICATION Spec
INVARIANT SyncSuccessMeansInSync
