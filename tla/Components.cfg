SPECIFICATION ComponentsSpec
CONSTANTS
  Parts = {"office", "settings", "qq", "skill", "runtime", "dashboard", "memory", "conversation", "registry", "voice", "desktop office", "workbench", "rail", "shell", "panels"}
  Task = {t1, t2, t3}
  Agent = {"a", "b"}
  MaxActive = 2
  MaxTasks = 3
  OfficeMayFail = TRUE
  OfficeMayCrash = TRUE
  MaxRetries = 1
  CodexRun = {r1}
  MaxOverlap = 2
  QQUser = {o1, o2}
  QQSender = {o1}
  NoQQOwner = NoQQOwner
  MaxChannels = 2
  MaxMessages = 1
  MaxResults = 2
  MaxQQSubmits = 2
  QQBatch = 2
  Proposal = {s1, s2, s3}
  Content = {a, b, crit}
  Critical = {crit}
  Missing = Missing
  Edited = Edited
  MaxEvaluations = 2
  Path = {f}
  MaxOutput = 1
  MaxCommands = 1
  MaxTurns = 2
  DashClient = {d1, d2}
  EntryValue = {"a"}
  MaxEntries = 1
  MaxEntryIds = 2
  MaxKeys = 2
  MemoryId = {"d---d", "plain"}
  MemoryContent = {"tea"}
  Dashed = {"d---d"}
  Supervised = {"p"}
  ConvClient = {c1, c2}
  MaxSessions = 1
  MaxAsked = 2
  MaxPlanned = 1
  Routes = {"auto"}
  MaxProviders = 2
  MaxQueued = 3
  MaxStarts = 1
  MaxSubmits = 2
  OfficeAgent = {"coordinator", "research"}
  Coordinator = "coordinator"
  MaxOfficeChanges = 2
  Worker = {"w1", "w2"}
  MaxReads = 2
  MaxShells = 2
  Panels = {"jobs", "intents", "skills", "records"}
  MaxPanelReads = 2
  MaxPanelActs = 1
INVARIANTS ComponentsTypeOK OfficeCallsAgree GrantsPrecedeSettings ChannelKeepsFaith ActiveWasApproved NothingIsLeft OwnersRecordsAgree ConversationHolds RecordTellsProviders DesktopShowsWhatIs
PROPERTIES OldestFirst OwnersWordStands
CHECK_DEADLOCK FALSE
