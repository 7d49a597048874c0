SPECIFICATION Spec
CONSTANTS
  A = A
  B = B
  None = None
  Request = {r1, r2}
  Paper = {A, B}
  MaxVersion = 2
  Title <- Titles
  Shape <- Pages
  MaxRetries = 1
  DefaultResults = 2
  ResultsLimit = 2
  MaxSearches = 2
  MaxErrors = 1
  DateRange <- Ranges
INVARIANTS TypeOK RowDescribesDefault DiscoveryIsReported
PROPERTY EverySearchEnds
CHECK_DEADLOCK FALSE
