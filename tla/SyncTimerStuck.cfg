\* Units of 20 s: the default -store-sync-time of 60 s, the 60 s timeout,
\* Syncs of up to 100 s.
CONSTANTS
  SyncTime = 3
  Timeout = 3
  MaxSync = 5

SPECIFICATION Spec
PROPERTY StuckSyncLogged
