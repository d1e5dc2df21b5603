\* fb-zero-to-one only helps the backend whose Down update sees a service health of exactly 0.
CONSTANTS
  v1 = v1
  r1 = r1
  r2 = r2
  NoUpdate = NoUpdate
  VS <- MCVS
  RS <- MCRS
  FallbackOf <- MCFallback
  MaxWeight = 2
  UpHealths = {50, 100}
  DownHealths = {0, 50}
  SyscallsMayFail = FALSE
  PulseNewMayFail = FALSE
  MaxProbes = 2

SPECIFICATION Spec
INVARIANT ZeroToOneKeepsPathOpen
