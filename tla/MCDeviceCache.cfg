SPECIFICATION FairSpec
CONSTANTS
  k1 = k1
  k2 = k2
  d1 = d1
  d2 = d2
  Scenes <- MCScenes
  Devices <- MCDevices
  Clients <- MCClients
  Absent = Absent
  MaxListed = 2
INVARIANTS
  TypeOK
  EntryIsListed
  ListedHasEntry
  OnlyClients
  PassDelivers
  PassForgets
PROPERTIES
  CrashExplained
  CacheCatchesUp
CHECK_DEADLOCK FALSE
