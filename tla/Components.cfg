SPECIFICATION Spec
CONSTANTS
  QuotaRequests <- TenRequests
  RequestKind <- Kinds
  User <- Users
  Site <- SitesAsked
  Org <- OrgOf
  Host <- HostOf
  Recipient <- OneRecipient
  Hour = 1
  Day = 2
  Cooldown = 1
  SiteHourly = 1
  OrgDaily = 2
  UserHourly = 2
  UserConcurrent = 1
  MailHourly = 1
  MailDaily = 2
  RecipientDaily = 1
  MailOpen = 1
  MaxTime = 2
  MaxRequests = 3
  ProofCalls = {"c", "d"}
  MaxChallenges = 2
  Attempts = {"a", "b"}
  Admins = {"x"}
  MaxGrants = 2
  MaxProofs = 3
  Metrics = {1, 2}
  MaxEvents = 3
  Urls = {"a", "b"}
  Files <- SiteFiles
  BadLine = "bad"
  Calls = {1, 2, 3}
  Tickers = {"v", "w"}
  Days = 2
  DayLength = 3
  Spring = 4
  Fall = 8
  Shift = 1
  WeekSlots <- TwoSlots
  Skew = 1
  MaxMoment = 8
  MaxSaves = 1
  ThirdParties = {"p"}
  DecisionCalls = {"c", "d"}
  CacheTime = 2
  AnswerTimeout = 1
  MaxHours = 3
  MaxAsks = 3
  MaxCompleted = 1
  Releases <- ThreeReleases
  Radix = 100
  AuditDocument = "d"
  Resources = {"r", "s", "t"}
  AuditRequests = 3
  HostRequests = 2
  AuditPages = 1
  AuditBytes = 5
  MaxLookups = 4
  MaxHandshakes = 4
  AuditRedirects = 1
  TunnelBytes = 4
  BodyBytes = 2
  Sizes = {2, 4}
  Sites = {"s", "t"}
  Workers = {"v"}
  MaxScans = 2
  MaxImports = 1
  MaxFaults = 0
  MaxActs = 2
  RobotsFiles <- ShortFiles
  RobotsPaths <- ShortPaths
  Agent = "us"
  MaxRules = 2
  MaxMatchSteps = 9
  Pages = {"a", "b", "c", "d", "w", "x"}
  FirstPage = "a"
  Origin <- OriginOf
  Family = {"s", "w"}
  Hrefs <- LinkLists
  MaxPages = 3
  MaxRedirects = 1
  Responses = {"a", "b", "c"}
  Slots = 3
  FetchUrls = {"u", "v", "file"}
  Proper = {"u", "v"}
  Addresses = {"p", "q", "local"}
  Public = {"p", "q"}
  FetchRedirects = 2
  FetchBytes = 2
CONSTRAINTS Canonical Focused
INVARIANTS TypeOK QuotasHold SomeoneGoesOn HistoryExplains TrafficWithinProfile CompleteIsWhole
INVARIANTS CursorLeavesNothingBehind AnswersAreSound RulesAreFollowed ReviewsCoverTheirEvidence
INVARIANTS RobotsAreKept ConnectionsAreChecked
PROPERTIES ProofsFollowDNS StopsAreFinal
CHECK_DEADLOCK FALSE
