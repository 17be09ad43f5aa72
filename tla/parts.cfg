SPECIFICATION PartsSpec
CONSTANTS
  MaxInt = 2
  Inputs <- SmallValues
  Templates <- ShortTemplates
  Tables <- FewTables
  MaxRows = 3
  MaxCalls = 6
  Micro = 3
  Fine = 4
  Hour = 2
  IntMax = 10
  Std = 1
  Shift = 2
  DstFrom = 2
  DstUntil = 6
  Instants <- MCInstants
  Clocks <- MCClocks
  Zones <- MCZones
  MaxTimes = 2
  Queries <- MCQueries
  PostMax = 11
  Tails <- MCTails
  PostForms <- MCForms
  Replies <- MCReplies
  ReplyBody <- MCBody
  MaxGets = 2
  Uploads <- MCUploads
  Padding = 6
  HeaderNames = {"remote-host", "session", "path-info", "url-path"}
  MaxLines = 5
  Intvl = 2
  MaxClock = 5
  MaxConns = 2
  Loggers = {t1, t2}
  MaxMsgs = 3
  MaxFiles = 2
INVARIANTS
  JsonFaithful
  TemplateFaithful
  RowsDelivered
  Instant
  ParamsIndependent
  HttpGetFaithful
  
  ServerFieldsWin
  StopsOnlyWhenTold
  LinesWhole
PROPERTIES
  LoopGoesOn
CHECK_DEADLOCK FALSE
