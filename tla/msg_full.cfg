SPECIFICATION Spec
CONSTANTS
  NULL = NULL
  Servers = {A}
  Keys = {k1}
  Slots = {1, 2}
  Publishers <- AllPublish
  MaxOps = 3
PROPERTIES
  PublishReturns
CHECK_DEADLOCK FALSE
