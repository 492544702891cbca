--------------------------------- MODULE Apps ---------------------------------
(***************************************************************************)
(* The pages of the Apps (components/gitea/apps) and the explorer of the   *)
(* charts (components/viz), one behaviour of one of them at a time: live   *)
(* transport with its backend's feed, the comparison of districts, a bike  *)
(* station and its weather, the lists the Apps' servers keep, the alert    *)
(* form, events, stations, air and weather, the reach of transit, news,    *)
(* the quality of the data, a planned day.                                 *)
(* All but the explorer share page, server, calls and seen.                *)
(***************************************************************************)
EXTENDS Integers, Sequences

CONSTANTS
  FeedVehicles, FeedFleet, FeedMoves, FeedSockets,                      \* HslFeed
  LiveVehicles, LiveModes, LiveBands, LiveModeOf, LiveLineOf, LiveBandOf, LiveAhead, LiveTop,  \* HslLive
  LiveDepth, LiveInputs,
  BoardStops, BoardAlerts, BoardLineOf, BoardInputs,                    \* HslBoard
  CompareCodes, CompareMeasures, CompareEventsOf, CompareAhead, CompareTypes, CompareChoices,  \* DistrictCompare
  CompareInputs,
  ComparisonsBodies, ComparisonsInputs,                                 \* DistrictSaved
  BikesStations, BikesAsked, BikesSlots, BikesNamed, BikesVals, BikesGiven, BikesNear, BikesSteps,  \* BikeDemand
  BikesInputs,
  KeptLists, KeptKeys, KeptSubjects, KeptVals, KeptInputs,              \* AppLists
  FormIds, FormOwn, FormTexts, FormWords, FormKinds, FormRequired, FormInputs,  \* AlertForm
  AgendaEvents, AgendaFinds, AgendaDays, AgendaWindow, AgendaMany, AgendaInputs,  \* EventList
  DocksStations, DocksPageSize, DocksMaxLines, DocksTop, DocksLast, DocksInputs,  \* StationTable
  AirAirs, AirWeathers, AirNear, AirMeasured, AirSilent, AirCodes, AirLinks, AirSaved, AirInputs,  \* AirExplore
  ReachPoints, ReachAsked, ReachStops, ReachAt, ReachNetworks, ReachSamples, ReachCentre,  \* TransitReach
  ReachPageSize, ReachMaxPages, ReachInputs,
  NewsArticles, NewsPublished, NewsTitled, NewsTerm, NewsNamed, NewsLinks, NewsSearches, NewsWeeks,  \* NewsTopics
  NewsInputs,
  QualityOrder, QualityKnown, QualitySchemas, QualityChecked, QualityScore,  \* DataQuality
  QualityComplete, QualityFindings, QualityLinks, QualityTexts, QualityOpened, QualityInputs,
  PlanIds, PlanEvents, PlanNamed, PlanFeatured, PlanWalks, PlanLinks, PlanShared, PlanNow,  \* DayPlanner
  PlanSuggested, PlanInputs,
  ExploreTypes, ExploreQueries, ExploreGeos, ExplorePublished, ExploreSlots, ExploreLinks,  \* VizExplore
  ExploreMany, ExploreMoves

VARIABLES
  app,                          \* the page that runs
  page, server, calls, seen,    \* of the Apps' machines
  table, raw, hash, card, listed, infos, drawing, section, mapping, gl, fitting, reads, painted, tiles, totals, words, moves

Feed == INSTANCE HslFeed WITH
  Vehicles <- FeedVehicles, Fleet <- FeedFleet, MaxMoves <- FeedMoves, MaxSockets <- FeedSockets
Live == INSTANCE HslLive WITH
  Vehicles <- LiveVehicles, Modes <- LiveModes, Bands <- LiveBands, ModeOf <- LiveModeOf, LineOf <- LiveLineOf,
  BandOf <- LiveBandOf, Ahead <- LiveAhead, Top <- LiveTop, Depth <- LiveDepth,
  MaxInputs <- LiveInputs
Board == INSTANCE HslBoard WITH
  Stops <- BoardStops, Alerts <- BoardAlerts, LineOf <- BoardLineOf, MaxInputs <- BoardInputs
Compare == INSTANCE DistrictCompare WITH
  Codes <- CompareCodes, Measures <- CompareMeasures, EventsOf <- CompareEventsOf, Ahead <- CompareAhead,
  Types <- CompareTypes, Choices <- CompareChoices, MaxInputs <- CompareInputs
Comparisons == INSTANCE DistrictSaved WITH
  Bodies <- ComparisonsBodies, MaxInputs <- ComparisonsInputs
Bikes == INSTANCE BikeDemand WITH
  Stations <- BikesStations, Asked <- BikesAsked, Slots <- BikesSlots, Named <- BikesNamed, Vals <- BikesVals,
  Near <- BikesNear, Steps <- BikesSteps, MaxInputs <- BikesInputs
Kept == INSTANCE AppLists WITH
  Lists <- KeptLists, Keys <- KeptKeys, Subjects <- KeptSubjects, Vals <- KeptVals, MaxInputs <- KeptInputs
Form == INSTANCE AlertForm WITH
  Ids <- FormIds, Own <- FormOwn, Texts <- FormTexts, Words <- FormWords, Kinds <- FormKinds, Required <- FormRequired,
  MaxInputs <- FormInputs
Agenda == INSTANCE EventList WITH
  Events <- AgendaEvents, Days <- AgendaDays, Window <- AgendaWindow, Many <- AgendaMany, Finds <- AgendaFinds,
  MaxInputs <- AgendaInputs
Docks == INSTANCE StationTable WITH
  Stations <- DocksStations, PageSize <- DocksPageSize, MaxLines <- DocksMaxLines, Top <- DocksTop, Last <- DocksLast,
  MaxInputs <- DocksInputs
Air == INSTANCE AirExplore WITH
  Airs <- AirAirs, Weathers <- AirWeathers, Near <- AirNear, Measured <- AirMeasured, Silent <- AirSilent, Codes <- AirCodes,
  Links <- AirLinks, Saved <- AirSaved, MaxInputs <- AirInputs
Reach == INSTANCE TransitReach WITH
  Points <- ReachPoints, Centre <- ReachCentre, Asked <- ReachAsked, Stops <- ReachStops, At <- ReachAt,
  Networks <- ReachNetworks, PageSize <- ReachPageSize, MaxPages <- ReachMaxPages, Samples <- ReachSamples,
  MaxInputs <- ReachInputs
News == INSTANCE NewsTopics WITH
  Articles <- NewsArticles, Published <- NewsPublished, Titled <- NewsTitled, Term <- NewsTerm, Named <- NewsNamed,
  Links <- NewsLinks, Searches <- NewsSearches, Weeks <- NewsWeeks, MaxInputs <- NewsInputs
Quality == INSTANCE DataQuality WITH
  Order <- QualityOrder, Known <- QualityKnown, Schemas <- QualitySchemas, Checked <- QualityChecked, Score <- QualityScore,
  Complete <- QualityComplete, Findings <- QualityFindings, Links <- QualityLinks, Texts <- QualityTexts,
  MaxInputs <- QualityInputs
Plan == INSTANCE DayPlanner WITH
  Ids <- PlanIds, Events <- PlanEvents, Named <- PlanNamed, Featured <- PlanFeatured, Walks <- PlanWalks, Now <- PlanNow,
  Links <- PlanLinks, Shared <- PlanShared, Suggested <- PlanSuggested, MaxInputs <- PlanInputs
Explore == INSTANCE VizExplore WITH
  Types <- ExploreTypes, Queries <- ExploreQueries, Geos <- ExploreGeos, Published <- ExplorePublished, Slots <- ExploreSlots,
  Links <- ExploreLinks, Many <- ExploreMany, MaxMoves <- ExploreMoves

ASSUME AppsAssumption ==
  /\ Feed!ConstantsOK /\ Live!ConstantsOK /\ Board!ConstantsOK /\ Compare!ConstantsOK /\ Comparisons!ConstantsOK
  /\ Bikes!ConstantsOK /\ Kept!ConstantsOK /\ Form!ConstantsOK /\ Agenda!ConstantsOK /\ Docks!ConstantsOK
  /\ Air!ConstantsOK /\ Reach!ConstantsOK /\ News!ConstantsOK /\ Quality!ConstantsOK /\ Plan!ConstantsOK /\ Explore!ConstantsOK

appVars == <<page, server, calls, seen>>
exploreVars == <<table, raw, hash, card, listed, infos, drawing, section, mapping, gl, fitting, reads, painted, tiles, totals, words, moves>>
appsVars == <<app, appVars, exploreVars>>

\* A variable of the machine that is not running.
Unused == "unused"
AppPages ==
  \/ app = "feed" /\ Feed!Init
  \/ app = "live" /\ Live!Init
  \/ app = "board" /\ Board!Init
  \/ app = "compare" /\ Compare!Init
  \/ app = "saved" /\ Comparisons!Init
  \/ app = "bikes" /\ Bikes!Init /\ server = BikesGiven
  \/ app = "lists" /\ Kept!Init
  \/ app = "form" /\ Form!Init
  \/ app = "events" /\ Agenda!Init
  \/ app = "stations" /\ Docks!Init
  \/ app = "air" /\ Air!Init
  \/ app = "reach" /\ Reach!Init
  \/ app = "news" /\ News!Init
  \/ app = "quality" /\ Quality!Init /\ <<page.hash, server.schema, server.rows = << >> >> \in QualityOpened
  \/ app = "day" /\ Plan!Init
ExploreUnused ==
  /\ table = Unused /\ raw = Unused /\ hash = Unused /\ card = Unused /\ listed = Unused /\ infos = Unused /\ drawing = Unused
  /\ section = Unused /\ mapping = Unused /\ gl = Unused /\ fitting = Unused /\ reads = Unused /\ painted = Unused
  /\ tiles = Unused /\ totals = Unused /\ words = Unused /\ moves = Unused
AppsInit ==
  \/ AppPages /\ ExploreUnused
  \/ app = "explore" /\ Explore!Init /\ page = Unused /\ server = Unused /\ calls = Unused /\ seen = Unused

AppNext ==
  \/ app = "feed" /\ Feed!Next
  \/ app = "live" /\ Live!Next
  \/ app = "board" /\ Board!Next
  \/ app = "compare" /\ Compare!Next
  \/ app = "saved" /\ Comparisons!Next
  \/ app = "bikes" /\ Bikes!Next
  \/ app = "lists" /\ Kept!Next
  \/ app = "form" /\ Form!Next
  \/ app = "events" /\ Agenda!Next
  \/ app = "stations" /\ Docks!Next
  \/ app = "air" /\ Air!Next
  \/ app = "reach" /\ Reach!Next
  \/ app = "news" /\ News!Next
  \/ app = "quality" /\ Quality!Next
  \/ app = "day" /\ Plan!Next
AppsNext ==
  \/ AppNext /\ UNCHANGED <<app, exploreVars>>
  \/ app = "explore" /\ Explore!Next /\ UNCHANGED <<app, appVars>>

AppsSpec == AppsInit /\ [][AppsNext]_appsVars

-----------------------------------------------------------------------------
\* Every variable of the machine that runs keeps its type.
AppsTypeOK ==
  /\ (app = "feed" => Feed!TypeOK) /\ (app = "live" => Live!TypeOK) /\ (app = "board" => Board!TypeOK) /\ (app = "compare" => Compare!TypeOK)
  /\ (app = "saved" => Comparisons!TypeOK) /\ (app = "bikes" => Bikes!TypeOK) /\ (app = "lists" => Kept!TypeOK) /\ (app = "form" => Form!TypeOK)
  /\ (app = "events" => Agenda!TypeOK) /\ (app = "stations" => Docks!TypeOK) /\ (app = "air" => Air!TypeOK) /\ (app = "reach" => Reach!TypeOK)
  /\ (app = "news" => News!TypeOK) /\ (app = "quality" => Quality!TypeOK) /\ (app = "day" => Plan!TypeOK) /\ (app = "explore" => Explore!TypeOK)

\* explore.js, EntityMap.tsx, ReachMap.tsx, MapView.tsx: whatever order the map's readiness, the answers and the
\* reader's choices come in, the map draws the view on screen, its link opens it, and the camera stays where the
\* reader put it; the explorer's count line is of that view, or hidden, unless its newest read brought no number.
MapsFollowThePage ==
  /\ app = "explore" => Explore!MapFollowsTheTable /\ Explore!CountLineOfTheView /\ Explore!LinkIsTheView
  /\ app = "events" => Agenda!DrawnIsShown
  /\ app = "air" => Air!DrawnIsPoints
  /\ app = "reach" => Reach!MapIsTheReach
  /\ app = "day" => Plan!MapIsThePlan

NewestShown ==
  /\ app = "feed" => Feed!LiveIsComplete
  /\ app = "live" => Live!FleetShown /\ Live!FeedSaid
  /\ app = "compare" => Compare!OpensAsAsked /\ Compare!ChoiceKept /\ Compare!ShownIsNewest
  /\ app = "bikes" => Bikes!ShownIsOfTheStation
  /\ app = "air" => Air!SaidIsOfTheChoice /\ Air!CodeIsDropped
  /\ app = "reach" => Reach!AreaIsOfThePoint
  /\ app = "news" => News!TopicsOfTheChoice /\ News!AddressIsView
  /\ app = "quality" => Quality!FoundInTheNewest /\ Quality!AddressIsView
  /\ app = "day" => Plan!PlanOfTheChoice /\ Plan!SharedIsOpened /\ Plan!AddressIsView

\* origins.ts, Names.tsx, Saved.tsx, ModelInputs.tsx, EntityForm.tsx, filters.tsx, EntityTable.tsx: a list or a form
\* that shows a change before it is answered agrees with the server once nothing is under way, leaves no draft,
\* wipes nothing the reader did not type, and filters by what was typed.
ListsAgree ==
  /\ app = "lists" => Kept!ListAgrees /\ Kept!NoDraftStays
  /\ app = "saved" => Comparisons!SavedAgrees /\ Comparisons!NoDraftStays
  /\ app = "bikes" => Bikes!InputsAgree
  /\ app = "form" => Form!NothingWiped /\ Form!OldValueStops /\ Form!RowsFollow
  /\ app = "stations" => Docks!TypedIsFiltered /\ Docks!PageIsThere
  /\ app = "quality" => Quality!ResolutionsAgree

\* api.ts, stations.ts, events.ts, topics.ts, vehicles.ts: a chart's bars add up to what it is of, topics merged by a name
\* lose and double nothing, a reading has the route then in force, a day is walked through what is made; and no word says "reading" without a read behind it.
CountsAddNothingHangs ==
  /\ app = "live" => Live!Conserved
  /\ app = "events" => Agenda!BarsAreTheList
  /\ app = "stations" => Docks!BarsAddUp
  /\ app = "bikes" => Bikes!ShadesSpan /\ Bikes!NothingHangs
  /\ app = "news" => News!MergedOnce /\ News!NothingHangs
  /\ app = "reach" => Reach!RouteInForce /\ Reach!NothingHangs
  /\ app = "compare" => Compare!NothingHangs
  /\ app = "lists" => Kept!NothingHangs
  /\ app = "form" => Form!NothingHangs
  /\ app = "air" => Air!NothingHangs
  /\ app = "quality" => Quality!TwoAtATime /\ Quality!NothingHangs
  /\ app = "day" => Plan!PlanCanBeWalked /\ Plan!LineIsMade /\ Plan!BarsAddUp /\ Plan!NothingHangs
=============================================================================
