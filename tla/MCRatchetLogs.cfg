SPECIFICATION Spec
CONSTANTS
  f1 = f1
  f2 = f2
  u1 = u1
  Fingerprints = {f1, f2}
  Uris = {}
  NoUri = NoUri
  UriOf <- MCNoUri
  NoDate = NoDate
  BadDate = BadDate
  Procs = {p1}
  Tools = {t1, t2}
  MCInvocations <- SoundOrCrashed
  MCDeclared <- AboveOrBelow
  Runs <- MCRuns
  Expected = 5
  MaxTime = 1
  MaxLines = 1
  Serial = TRUE
INVARIANT CrashedRunJudgesNothing
INVARIANT MergeNeverRefuses
SYMMETRY Symmetry
