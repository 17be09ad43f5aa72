SPECIFICATION Spec
CONSTANTS
  NULL = NULL
  often = often  once = once
  Users = {u1, u2}
  Jobs <- TwoJobs
  Hour <- TwoHour
  Minute <- TwoMinute
  HourLen = 2
  MaxStarts = 2
  MaxCalls = 3
  MaxMinute = 2
INVARIANTS
  OneDaemon
  OncePerMinute
  CalledWhenDue
PROPERTIES
  StopTakesEffect
