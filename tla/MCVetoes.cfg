SPECIFICATION MCSpec
CONSTANTS
  Tracked <- MCTracked
  Candidate = "cand"
  Spellings <- MCSpellings
  Strategies = {{}, {"Symbol"}}
  MaxHits = 1
  MaxBytes = {1}
  Budgets = {TRUE}
  MaxEdits = 1
  MaxDepth = 3
  MaxValues = 3
  Paths <- MCPaths
  ManifestOf <- MCManifestOf
  Globs <- MCGlobs
  SuffixOf <- MCSuffixOf
  GlobNames <- MCGlobNames
  Entries <- MCEntries
  MaxTouches = 1
  LowerOf <- GLower
  WidthOf <- GWidth
  ClassOf <- GClass
  GatePaths <- GPaths
  GateEntries <- GMay
  MaxMoves = 1
  EntryLimit = 5
  MaxEntries = 5
  MaxProbes = 2
  ProbeLines = 1
  GitDirs = {{"annex"}, {"?"}}
  CheckIgnore <- GIgnore
  Negations = {"!x.py"}
  Analyses <- GAnalyses
  Nodes <- KOptions
  Hops = 6
  Repositories <- KRepos
  Candidates <- KCandidates
  MaxRelinks = 1
INVARIANT ClearIsAnAbsence
INVARIANT ClearedIsUnreached
INVARIANT ForeignRootsNothing
INVARIANT NearestKeyWins
INVARIANT NoEffectorUnseen
INVARIANT AttributesAsGit
INVARIANT ClearedCanGo
VIEW View
CHECK_DEADLOCK FALSE
