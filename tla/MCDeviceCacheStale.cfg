SPECIFICATION Spec
CONSTANTS
  k1 = k1
  k2 = k2
  d1 = d1
  d2 = d2
  Scenes <- MCScenes
  Devices <- MCDevices
  Clients <- MCClients
  Absent = Absent
  MaxListed = 2
INVARIANT
  CacheUpToDate
CHECK_DEADLOCK FALSE
