SPECIFICATION MCSpec
CONSTANTS
  Processor = {"a", "b", "c"}
  Inport = {"b1", "c1", "c2"}
  Owner <- Ports
  Producer = {"a", "b"}
  Optional = {}
  Background = {"a"}
  Throwing = {"b"}
  CallbackLevels = {1}
  MaxCallbacks = 2
  MaxLocks = 1
  None = "none"
INVARIANTS TypeOK ValidIsReady UpToDate ResourcesRemembered NothingForgotten OptionalInputs
PROPERTIES EvaluationEnds
