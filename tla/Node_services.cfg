CONSTANTS
  Cargos = {1, 2}
  MaxOffers = 2
  Conns = {1, 2}
  Posts = {"chat", "connect", "disconnect", "mode"}
  MaxFds = 1
  MaxPublished = 2
  Peers = {1}
  TrustedAt = 4
  HighAt = 3
  MediumAt = 2
  LowAbove = 1
  AutoTrustAt = 2
  BlockAt = 2
  AnomaliesAt = 2
  LearnEvery = 2
  SaveEvery = 4
  MaxEvents = 6
  Agents = {"human", "x"}
  Senders = {"x"}
  All = "*"
  Self = "me"
  Others = {}
  Resources = {"skill"}
  QueueSize = 2
  Devices = {1, 2}
  Scenes = {"s"}
  MaxEntries = 2
  Shipped = {"a"}
  MaxSkills = 2
  MaxDirs = 2
  McpSkills = {"a", "general"}
  Builtin = {"general"}
  Taps = {"t"}
  Tasks = {1, 2}
  A2aPeers = {"p", "q"}
  RateLimit = 2
  WindowLength = 1
  MaxNow = 3
  MaxLines = 3
  Rated = {"r"}
  Votes = {0, 10, 12}
  Findings = {0, 9}
  BronzeAt = 2
  SilverAt = 3
  MaxVotes = 3
  MaxDeploys = 3
  Contacts = {"x", "default"}
  Jobs = {"default"}
  Values = {"a", "b"}
  MaxItems = 2
  Dbs = {0, 3}
  MaxList = 2
  MaxLogged = 3
  GroupNames = {"g"}
  Shareable = {"s"}
  Channels = {"admin"}
  Users = {"u", "v"}
  Tokens = {"token"}
  MaxShares = 2
SPECIFICATION FairNodeSpec
INVARIANTS CargoHolds ApiHolds  MessagesHold ModeTrail StudioHolds SkillsHold ServedBound EventsHold RatingsHold ListsHold
PROPERTIES NothingTakenBack 
CHECK_DEADLOCK FALSE
