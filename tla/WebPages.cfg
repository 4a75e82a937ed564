SPECIFICATION Spec
CONSTANTS
  g1 = g1
  n1 = n1
  Entries = {a, b}
  Savers = {p1, p2}
  ProxyGroups = {g1, g2, g3}
  ProxyLeaves = {n1}
  Latency <- MCLatency
  Older <- MCOlder
  DepthLimit = 1
  TargetLimit = 3
  DelayWorkers = {p1, p2}
  LoadSlots = {p1, p2}
  MaxAttempts = 1
  MaxChecks = 1
  MaxInstalls = 1
  Parts = {a, b}
  OpSlots = {p1, p2}
  SaveSlots = {p1, p2}
  NoPart = "none"
  EditFiles = {a, b}
  MainFile = a
  NoFile = "none"
  ReadSlots = {p1, p2}
  UserConfigs = {a}
  DefaultConfig = b
  Unsaved = "none"
  TextSlots = {p1, p2}
  SaveTasks = {p1}
  People = {a}
  FirstUser = b
  PeopleRoles = {"admin", "viewer"}
  Calls = {p1, p2}
  ListSlots = {p1}
  Cats = {a, b}
  RulesPer = 1
  RuleReads = {p1}
  RuleWrites = {p1}
  Sources = {a, b}
  SourceOps = {p1, p2}
  Hosts = {a, b}
  ClientOps = {p1, p2}
  ListModes = {"off", "white"}
  MaxRows = 2
  FormSaves = {p1}
  Contents = {0, 1}
  Fallback = 0
  FormPuts = {p1, p2}
  Upstreams = {a, b}
  SysCalls = {p1, p2}
  SysReads = {p1}
  Daemons = {a, b}
  DaemonReads = {p1, p2}
  RuleEntries = {a, b}
  RuleNames = {a, b}
  ConfigLoads = {p1, p2}
INVARIANTS
  PagesTypeOK
  EachMeasuredOnce
  BestDelayFound
  WatchIsAlive
  CardsTakeTurns
  FilesKeepTheirText
  
  LastWordStands
  PagesAgree
  UnmovedStayPicked
  RowsEditAlone
  SettingsAgree
PROPERTY RemovalsAreAsked
CONSTRAINT Tracked
CHECK_DEADLOCK FALSE
