SPECIFICATION Spec
CONSTANTS
  w1 = w1
  w2 = w2
  s1 = s1
  s2 = s2
  d1 = d1
  Workers <- OneWorker
  Scenes <- MCScenes
  Devices <- MCDevices
  EmptyKey = EmptyKey
  NoScene = NoScene
  NoDevice = NoDevice
  Asked <- LinkRequests
  MaxFaults = 0
  MaxLinks = 2
INVARIANT
  OneSceneLink
CHECK_DEADLOCK FALSE
