CONSTANTS
  FieldNames = {"id", "x"}
  NoMax = NoMax
  Templates <- MCTemplates
  MaxFields = 2
  MaxEntries = 3
  Members <- MCMembers
  Counts = {1, 2}
  MaxCount = 7
  Ids = {d1}
  Contents <- MCContents
  Specifications <- MCSpecifications
  Adapter = "sqlite"
  Tabs = {t1, t2}
  Files = {f1, f2, f3}
  Networks = {n1, n2, n3}
  NoNetwork = NoNetwork
  MaxAsked = 3
  Calls = {c1, c2, c3}
  NoPair = NoPair
  Durable = TRUE
  Peers = {p1, p2}
  Never = Never
  Threshold = 2
  Timeouts <- MCTimeouts
  MaxDelay = 2
  MaxTime = 5
SPECIFICATION ClientSpec
CONSTRAINT OneFormAtATime
INVARIANTS OnlyTypesBlockCreation CreatedIsUsable ScheduleCoversOnce SuccessfulImportIsWhole ValidReportIsComputable SettledShowsSelected SilenceIsReported
PROPERTIES UnlistedByStaleTabOnly KeypairIsKept
CHECK_DEADLOCK FALSE
