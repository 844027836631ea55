SPECIFICATION MCSpec
CONSTANTS
  Kinds = {"draft", "legal", "analysis", "outline", "check", "meta", "editing", "structure", "images"}
  Providers = {"openrouter", "direct"}
  StepRetries = 1
  CallRetries = 2
  SdkRetries = 1
  SelfChecks = 2
  CheckBudget = 1
  MaxDownscales = 1
  Floor = 2
  Margin = 1
  Ceilings = {0, 6}
  Blocks = 2
  Searchers = {1, 2}
  Engines = {"google", "bing", "google+bing", "off"}
  Caches = {"redis", "memory"}
  Urls <- MCUrls
  Excluded = {"x"}
  UserUrls <- MCUserUrls
  Answers <- MCAnswers
  PerDomain = 1
  SerpAttempts = 2
  SerpRetries = 1
  MaxClears = 1
  Nothing = Nothing
  Slots = {1, 2}
  SiteRows = {"s1", "s2"}
  Keys = {1}
  Clients = {1, 2}
  MaxAsks = 3
  NoSite = NoSite
  Agents = {"content", "fact"}
  FallsBack = "content"
  FallBackTo = "fact"
  Presets = {"p"}
  Editors = {1, 2}
  MaxSaves = 4
  PageIds = {"p1", "p2"}
  RefIds = {"r1", "r2"}
  LegalTypes = {"privacy", "terms"}
  Setups <- MCSetups
  Runners = {"worker", "desktop"}
  MaxEdits = 2
  NoRef = NoRef
  ListReaders = {1, 2}
  ListWriters = {1}
  Ttl = 1
  LastTick = 2
  MaxChanges = 2
INVARIANTS
  ServicesTypeOK
  RequestsBounded CostKept
  OwnUrls NothingLost ClearedIsGone
  AgentServed AllTried ListFresh
PROPERTIES
  NoTwin DeleteClean LoneSave PageOnce ChoiceHonoured
  AllEnds
CHECK_DEADLOCK FALSE
