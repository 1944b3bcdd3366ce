SPECIFICATION Spec
CONSTANTS
  Sessions = {s1, s2}
  Workers = {w1, w2}
  NoWorker = NoWorker
  Room = 1
  MaxTurns = 2
  MaxAnswers = 2
  MaxCalls = 2
  MaxRecords = 3
  MaxQueue = 2
  Limit = 1
  MaxEvents = 3
  MaxItems = 1
  MaxTasks = 1
  Calls = {x1, x2}
  NoCall = NoCall
  MaxSessions = 2
  MaxActive = 1
  MaxOutput = 1
  Words = {"a", ""}
  MaxLines = 2
  MaxHunk = 2
  MaxShown = 3
  MaxCells = 3
  MaxLocal = 1
  Admins = {a1, a2}
  Startup = Startup
  MaxRuntimes = 2
  MaxVersions = 2
  MaxMessages = 2
  Chats = {c1, c2}
  NoChat = NoChat
  MaxStream = 1
  MaxTexts = 4
CHECK_DEADLOCK FALSE
INVARIANTS
  TypeOK
  RegistryFollowsView
  FlushMeansLoadable
  PagesAgree
  RequestsArePaired
  RestartTellsTheSame
  EndingsAgree
  EndIsToldLast
  SettledViewIsShown
  NoChildLeftBehind
  NothingSkipped
  DoneMeansSubstituted
  
  AgentMessageShownOnce
  
  
  SwitchIsObeyed
  
  
  
  TextReachesHandler
