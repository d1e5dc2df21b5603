CONSTANTS
  v1 = v1
  v2 = v2
  r1 = r1
  r2 = r2
  NoUpdate = NoUpdate
  Absent = Absent
  Ticker = Ticker
  Handler = Handler
  Syncers <- MCBothSyncers
  VS <- MCVS
  RS <- MCRS
  FallbackOf <- MCFallback
  StoreSvcOpts <- MCHostSet
  Ports = {1, 2}
  MaxWeight = 2
  UpHealths = {100}
  DownHealths = {0}
  SyscallsMayFail = TRUE
  PulseNewMayFail = TRUE
  MaxProbes = 3
  HasEndpoint = TRUE
  MaxStoreWrites = 1
  MaxFaults = 1
  Flush = FALSE
SPECIFICATION Spec
PROPERTY Converges
