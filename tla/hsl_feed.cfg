SPECIFICATION FeedSpec
CONSTANTS
  FeedVehicles = {"v1", "v2"}
  FeedFleet = 2
  FeedMoves = 3
  FeedSockets = 3
  LiveVehicles = {"v1", "v2", "v3"}
  LiveModes = {"bus", "tram"}
  LiveBands = {1, 2}
  LiveModeOf <- MCLiveModeOf
  LiveLineOf <- MCLiveLineOf
  LiveBandOf <- MCLiveBandOf
  LiveAhead <- MCLiveAhead
  LiveTop = 1
  LiveDepth = 1
  LiveInputs = 3
  BoardStops = {"s1", "s2"}
  BoardAlerts = {"a1", "a2"}
  BoardLineOf <- MCBoardLineOf
  BoardInputs = 2
  CompareCodes = {"a", "b", "c"}
  CompareMeasures = {"events", "aqi"}
  CompareEventsOf <- MCCompareEventsOf
  CompareAhead <- MCCompareAhead
  CompareTypes = {"alert"}
  CompareChoices <- MCCompareChoices
  CompareInputs = 1
  ComparisonsBodies = {"b", "c"}
  ComparisonsInputs = 2
  BikesStations = {"s1", "s2"}
  BikesAsked = {"unknown"}
  BikesSlots <- MCBikesSlots
  BikesNamed <- MCBikesNamed
  BikesVals = {"default", "own"}
  BikesGiven <- MCBikesGiven
  BikesNear <- MCBikesNear
  BikesSteps = 6
  BikesInputs = 2
  KeptLists = {"faults", "published", "plans", "places", "origins", "follows", "featured", "days", "acks", "filters", "terms", "names", "reports"}
  KeptKeys = {"all", "a"}
  KeptSubjects = {"x", "y"}
  KeptVals = {"1", "2"}
  KeptInputs = 2
  FormIds = {"a", "b"}
  FormOwn = {"b", "new"}
  FormTexts = {"", "x", "outside"}
  FormWords = {"", "p"}
  FormKinds = {"select"}
  FormRequired = {"v"}
  FormInputs = 4
  AgendaEvents <- MCAgendaEvents
  AgendaFinds <- MCAgendaFinds
  AgendaDays = 3
  AgendaWindow = 2
  AgendaMany = 2
  AgendaInputs = 3
  DocksStations <- MCDocksStations
  DocksPageSize = 1
  DocksMaxLines = 2
  DocksTop = 1
  DocksLast = 2
  DocksInputs = 3
  AirAirs <- MCAirAirs
  AirWeathers <- MCAirWeathers
  AirNear <- MCAirNear
  AirMeasured <- MCAirMeasured
  AirSilent <- MCAirSilent
  AirCodes <- MCAirCodes
  AirLinks <- MCAirLinks
  AirSaved <- MCAirSaved
  AirInputs = 2
  ReachPoints = {"c", "s", "p"}
  ReachAsked = {"", "p"}
  ReachStops <- MCReachStops
  ReachAt <- MCReachAt
  ReachNetworks <- MCReachNetworks
  ReachSamples <- MCReachSamples
  ReachCentre = "c"
  ReachPageSize = 1
  ReachMaxPages = 2
  ReachInputs = 2
  NewsArticles <- MCNewsArticles
  NewsPublished <- MCNewsPublished
  NewsTitled <- MCNewsTitled
  NewsTerm <- MCNewsTerm
  NewsNamed <- MCNewsNamed
  NewsLinks <- MCNewsLinks
  NewsSearches <- MCNewsSearches
  NewsWeeks = {"w1", "w2"}
  NewsInputs = 2
  QualityOrder <- MCQualityOrder
  QualityKnown <- MCQualityKnown
  QualitySchemas <- MCQualitySchemas
  QualityChecked = {"b", "c"}
  QualityScore <- MCQualityScore
  QualityComplete <- MCQualityComplete
  QualityFindings <- MCQualityFindings
  QualityLinks <- MCQualityLinks
  QualityTexts <- MCQualityTexts
  QualityOpened <- MCQualityOpened
  QualityInputs = 2
  PlanIds <- MCPlanIds
  PlanEvents <- MCPlanEvents
  PlanNamed <- MCPlanNamed
  PlanFeatured = {"e4"}
  PlanWalks <- MCPlanWalks
  PlanLinks <- MCPlanLinks
  PlanShared <- MCPlanShared
  PlanNow = 33
  PlanSuggested = 2
  PlanInputs = 2
  ExploreTypes = {"stop", "plan"}
  ExploreQueries = {"", "q"}
  ExploreGeos <- MCExploreGeos
  ExplorePublished <- MCExplorePublished
  ExploreSlots <- MCExploreSlots
  ExploreLinks <- MCExploreLinks
  ExploreMany = {"stop"}
  ExploreMoves = 1
INVARIANT LiveMissesNothing
CHECK_DEADLOCK FALSE
