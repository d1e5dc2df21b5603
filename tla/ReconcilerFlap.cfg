\* A store entry relying on the default host is never in sync.
CONSTANTS
  v1 = v1
  v2 = v2
  r1 = r1
  r2 = r2
  NoUpdate = NoUpdate
  Absent = Absent
  Ticker = Ticker
  Handler = Handler
  Syncers <- MCTicker
  VS <- MCVS
  RS <- MCRS
  FallbackOf <- MCFallback
  StoreSvcOpts <- MCHostDefault
  Ports = {1, 2}
  MaxWeight = 2
  UpHealths = {100}
  DownHealths = {0}
  SyscallsMayFail = FALSE
  PulseNewMayFail = FALSE
  MaxProbes = 3
  HasEndpoint = TRUE
  MaxStoreWrites = 2
  MaxFaults = 2
  Flush = TRUE
SPECIFICATION Spec
PROPERTY Converges
