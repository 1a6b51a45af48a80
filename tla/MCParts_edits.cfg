SPECIFICATION PartsSpec
CONSTANTS
  Focused = {"files"}
  LogTurns = 2
  LogFaults = 2
  Usages = {1, 2}
  Prices = {1}
  MaxTurns = 2
  MaxRuns = 2
  KeepRecent = 1
  MaxForced = 1
  Fallbacks = 1
  SchemaRetries = 1
  MaxReentries = 1
  MaxSame = 1
  MaxStreak = 1
  ForceFinal = TRUE
  SkillListing = FALSE
  Loose = {}
  Calls = {c1, c2}
  Pieces = 2
  Rounds = 2
  Segments = {g1, g2}
  MaxRules = 2
  HookRuns = {r1, r2}
  Chain <- MCChain
  MaxVerify = 1
  MaxAnswers = 2
  Honoured = TRUE
  FileUsers = {s1, s2}
  Notes = {"n"}
  Workspace = {"w"}
  OffloadPaths = {"o"}
  BackendOf <- MCBackendOf
  Ephemeral = {}
  Disk = {"n", "o"}
  Texts <- MCTexts
  Marks = {"a", "b"}
  MaxFileCalls = 3
  Missing = Missing
  MemoryRuns = {r1, r2}
  MemoryIds = {1, 2}
  Extractions <- MCExtractions
  Queries <- MCQueries
  TierOrder <- MCTierOrder
  MinChanges = 2
  Interval = TRUE
  Clients = {p1, p2}
  MaxRows = 2
  Absent = Absent
  Openers = {o1, o2, o3}
  Configured <- MCConfigured
  Added <- MCAdded
  ToolsOf <- MCToolsOf
  Destructive = {"wipe", "drop"}
  MaxOpens = 2
  SkillDirs <- MCSkillDirs
  BuiltIns <- MCBuiltIns
  Lower <- MCLower
  ToolNames = {"Bash", "Read"}
  LastRun = 2
  LastTurn = 1
  TurnCalls = 1
  NoOverlay = NoOverlay
  Creators = {k1, k2}
  AgentFiles <- MCAgentFiles
  BaseName <- MCBaseName
  Spellings = {"Reviewer", "reviewer", "a"}
  Slug <- MCSlug
  BuiltInAgents = {"a"}
  HostFiles = 1
  NoFile = NoFile
  TracedRuns = {r1}
  SpanTurns = 2
  ToolIds = {1, 2}
  SpanFaults = 2
  NoTurn = NoTurn
  Injections <- MCInjections
  Contributions <- MCContributions
  Registered = {"Read", "Bash"}
  ContextTurns = 2
  NoCap = NoCap
  EveryTool = EveryTool
PROPERTY EditsKeepOthers
CHECK_DEADLOCK FALSE
