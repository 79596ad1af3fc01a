SPECIFICATION Spec
CONSTANTS
  f1 = f1
  f2 = f2
  u1 = u1
  Fingerprints = {f1, f2}
  Uris = {}
  NoUri = NoUri
  UriOf <- MCNoUri
  NoDate = NoDate
  BadDate = BadDate
  Procs = {p1, p2}
  Tools = {t1}
  MCInvocations <- SoundOrSilent
  MCDeclared <- Enough
  Runs <- MCRuns
  Expected = 5
  MaxTime = 0
  MaxLines = 1
  Serial = FALSE
INVARIANT AmnestyIsVouched
SYMMETRY Symmetry
VIEW RaceView
