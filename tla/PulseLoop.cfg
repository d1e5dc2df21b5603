\* Safety of the Context and the notification loop against REST mutators.
CONSTANTS
  v1 = v1
  r1 = r1
  r2 = r2
  NoUpdate = NoUpdate
  VS <- MCVS
  RS <- MCRS
  FallbackOf <- MCFallback
  MaxWeight = 2
  UpHealths = {50, 100}
  DownHealths = {0, 50}
  SyscallsMayFail = FALSE
  PulseNewMayFail = TRUE
  MaxProbes = 3

SPECIFICATION Spec
INVARIANT TypeOK
INVARIANT MapBackedByKernel
INVARIANT OneLiveProbePerBackend

