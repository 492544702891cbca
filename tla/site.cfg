SPECIFICATION Spec
CONSTANTS
  Languages = {"cs", "en"}
  First = "cs"
  Asks = TRUE
  HostPages = 2
  MaxPosted = 2
  CataloguePages = {"home", "d1", "d2"}
  Home = "home"
  Assistants = {"city", "space"}
  Framed <- FramedAssistants
  Docking = TRUE
  MaxChanges = 2
  Layers <- MapLayers
  Bare = {"a2"}
  Cap = 2
  TileCap = 3
  PageSize = 1
  Views = {"west", "east", "all"}
  Within <- MapWithin
  Card = FALSE
  MaxMoves = 3
  Buttons = {"code"}
  TableFrames = {"f1", "f2"}
  Tries = 1
  TableLow = 1
  TableHigh = 2
  TableTall = {0, 1, 3}
  ShownRows = 1
  Totals = {0, 1, 2}
  MaxClicks = 2
  MaxSaid = 1
  Charts = {"c1", "c2"}
  Kind <- HostKind
  READS = 1
  Pages = 2
  Counts <- HostCounts
  PAGE = 2
  FirstN = 2
  LimitRows = 6
  Specs = {"vega", "map", "refused"}
  Low = 1
  High = 2
  Tall = {0, 2, 3}
INVARIANTS
  TypeOK
  PanelsAgree
  MapDrawsTheNewest
  ChartsWholeOrSaid
PROPERTY LoadingEnds
CHECK_DEADLOCK FALSE
