SPECIFICATION Spec
CONSTANTS
  a = a
  b = b
  c = c
  b1 = b1
  c1 = c1
  c2 = c2
  Processor = {a, b, c}
  Inport = {b1, c1, c2}
  Owner <- Ports
  Producer = {a, b}
  Optional = {c2}
  Background = {}
  Throwing = {}
  CallbackLevels = {1}
  MaxCallbacks = 1
  MaxLocks = 1
  None = None
INVARIANTS UpToDate
