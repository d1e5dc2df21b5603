CONSTANTS
  v1 = v1
  v2 = v2
  r1 = r1
  s1 = s1
  s2 = s2
  NoUpdate = NoUpdate
  VS <- MCVS
  RS <- MCRS
  FallbackOf <- MCFallback
  Scrapers <- MCScrapers1
  MaxWeight = 1
  UpHealths = {100}
  DownHealths = {0}
  SyscallsMayFail = FALSE
  PulseNewMayFail = TRUE
  MaxProbes = 2

SPECIFICATION Spec
PROPERTY NoWriteDuringRange
