SPECIFICATION Spec
CONSTANTS
  Blobs = {b1}
  NoFile = NoFile
  Window = 0
  MaxTime = 1
  MaxCommits = 2
INVARIANT PushedIsOnTheRemote
