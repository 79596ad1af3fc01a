SPECIFICATION MCSpec
CONSTANTS
  LowerOf <- FLower
  SourceFiles <- VFiles
  FunctionsOf <- VFunctions
  Dialects = {1, 2}
  Counts = {0, 3}
  CountMax = 5
  ControlFiles <- VControls
  ClaimLists <- VClaims
  MaxCiRuns = 2
  GatePaths <- FPaths
  GateEntries <- FMay
  MaxMoves = 1
  ComponentsOf <- FComponents
  Claims3f <- FClaims
  ClassOf <- RClasses
  EndsInR <- REndsInR
  Punctuation <- RPunctuation
  RepoAt <- RAt
  Checkouts <- RCheckouts
  ManifestScans <- RManifests
  ConventionScans <- RConventions
  RootClaims <- RClaims
  Expired <- ROver
  KindOf <- IKind
  Worlds <- IWorlds
  Findings <- IFindings
  Logs <- SLogs
INVARIANT RescuedIffRan
INVARIANT HalfRecordsAreTorn
INVARIANT ImportersAreKept
INVARIANT ClaimsAreAccountedFor
INVARIANT RescuedIffDeclared
INVARIANT IdentityOutlivesTheRun
INVARIANT ReadAsMeant
VIEW View
CHECK_DEADLOCK FALSE
