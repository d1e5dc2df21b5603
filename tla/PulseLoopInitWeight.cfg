\* A fresh backend's first Down stashes its in-memory weight, which createBackend never set.
CONSTANTS
  v1 = v1
  r1 = r1
  r2 = r2
  NoUpdate = NoUpdate
  VS <- MCVS
  RS <- MCRS
  FallbackOf <- MCFallback
  MaxWeight = 2
  UpHealths = {50, 100}
  DownHealths = {0, 50}
  SyscallsMayFail = FALSE
  PulseNewMayFail = FALSE
  MaxProbes = 2

SPECIFICATION Spec
PROPERTY StashHoldsPriorKernelWeight
