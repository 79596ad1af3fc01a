SPECIFICATION Spec
CONSTANTS
  f1 = f1
  f2 = f2
  u1 = u1
  Fingerprints = {f1, f2}
  Uris = {u1}
  NoUri = NoUri
  UriOf <- MCUriOf
  NoDate = NoDate
  BadDate = BadDate
  Procs = {p1}
  Tools = {t1}
  MCInvocations <- SoundOrCrashed
  MCDeclared <- AboveOrBelow
  Runs <- MCRuns
  Expected = 5
  MaxTime = 2
  MaxLines = 2
  Serial = TRUE
INVARIANT DegradedUpdateKeepsDeadline
