SPECIFICATION Spec
CONSTANTS
  w1 = w1
  w2 = w2
  s1 = s1
  s2 = s2
  s3 = s3
  d1 = d1
  None = None
  Workers <- MCWorkers
  Scenes <- MCScenes
  Devices <- MCDevices
  Given <- MCGiven
  MaxAlignments = 3
  MaxOthers = 3
  MaxFaults = 1
SYMMETRY MCSymmetry
INVARIANTS TypeOK LinkExplainsDevices
CHECK_DEADLOCK FALSE
