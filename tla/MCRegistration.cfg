SPECIFICATION Spec
CONSTANTS
  w1 = w1
  w2 = w2
  s1 = s1
  s2 = s2
  d1 = d1
  Workers <- MCWorkers
  Scenes <- MCScenes
  Devices <- MCDevices
  EmptyKey = EmptyKey
  NoScene = NoScene
  NoDevice = NoDevice
  Asked <- MCAsked
  MaxFaults = 1
  MaxLinks = 1
SYMMETRY Symmetry
INVARIANTS
  TypeOK
  RegisteredOnce
  AnswersTrue
PROPERTIES
  CrashNeedsRival
  ImplementsRegistry
CHECK_DEADLOCK FALSE
