SPECIFICATION Spec
CONSTANTS
  root = root
  child = child
  Root = root
  Children = {child}
  Workers = {w1, w2}
  Backend = backend
  Scripts <- MCScripts
  MaxBatch = 2
  MaxProduced = 2
  Null = Null
CHECK_DEADLOCK FALSE
SYMMETRY Symmetry
INVARIANTS
  SequenceIsDense
  ProducersInOrder
  WorkersHaveNoGaps
  CausesComeFirst
  OperationsPair
  TerminalIsLogged
PROPERTIES
  ClosedToWorkers
