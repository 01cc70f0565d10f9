SPECIFICATION Spec
CONSTANTS
  w1 = w1
  w2 = w2
  k1 = k1
  f1 = f1
  n1 = n1
  n2 = n2
  Workers <- MCWorkers
  Keys <- MCKeys
  Fresh <- MCFresh
  KeyOrder <- MCKeyOrder
  Asked <- MCAsked
  NoKey = NoKey
  Words <- MCWords
  Ids <- MCIds
  NoNode = NoNode
  NoDoc = NoDoc
  Discover = TRUE
  DefaultRecords = 1
  MaxFaults = 1
  MaxCopies = 2
SYMMETRY Symmetry
INVARIANTS
  TypeOK
  NoFalseError
  RowsConfined
  PagesTile
  AnswersTrue
PROPERTIES
  ChangesOwn
