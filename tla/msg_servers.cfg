SPECIFICATION Spec
CONSTANTS
  NULL = NULL
  Servers = {A, B}
  Keys = {k1}
  Slots = {1, 2}
  Publishers <- OnePublisher
  MaxOps = 4
INVARIANTS
  SubscriptionsKept
  OneCallEach
PROPERTIES
  PublishReturns
CHECK_DEADLOCK FALSE
