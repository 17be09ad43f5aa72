SPECIFICATION SessionSpec
CONSTANTS
  NULL = NULL  ABSENT = ABSENT  EMPTY = EMPTY
  sessions = sessions
  stamp = "stamp"  Now = Now  Unset = Unset
  Threads = {t1, t2}
  Namespaces = {sessions, n2}
  Keys = {k1}
  Values = {v1, EMPTY}
  Browsers = {b1, b2}
  Uuids = {u1, u2}
  OwnKeys = {u1, u2}
  OwnValues <- Contents
  SKeys = {"x", "y"}
  MaxFails = 1
  MaxOps = 5
SYMMETRY Symmetry
INVARIANTS
  OneRowPerKey
  SessionKept
  SessionsApart
PROPERTIES
  ImplementsStore
CHECK_DEADLOCK FALSE
