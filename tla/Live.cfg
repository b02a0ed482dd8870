SPECIFICATION LiveSpec
CONSTANTS
  Parts = {"office", "runtime", "conversation", "voice", "desktop office", "shell", "panels"}
  Task = {t1, t2}
  Agent = {"a", "b"}
  MaxActive = 1
  MaxTasks = 2
  OfficeMayFail = TRUE
  OfficeMayCrash = TRUE
  MaxRetries = 1
  Path = {f}
  MaxOutput = 1
  MaxCommands = 1
  MaxTurns = 1
  ConvClient = {c1}
  MaxSessions = 1
  MaxAsked = 3
  MaxPlanned = 3
  Routes = {"one", "auto"}
  MaxStarts = 1
  MaxSubmits = 1
  OfficeAgent = {"coordinator"}
  Coordinator = "coordinator"
  MaxOfficeChanges = 2
  MaxShells = 2
  Panels = {"jobs", "intents"}
  MaxPanelReads = 2
  MaxPanelActs = 0
PROPERTIES QueuedTaskRuns WhatIsStoppedEnds PagesCatchUp
CHECK_DEADLOCK FALSE
