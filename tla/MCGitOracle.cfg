SPECIFICATION Spec
CONSTANTS
  Blobs = {b1, b2}
  NoFile = NoFile
  Window = 0
  MaxTime = 1
  MaxCommits = 2
INVARIANT TypeOK
INVARIANT AbstentionSawSettledPath
INVARIANT NeverBetterThanItWas
INVARIANT AbstentionIsStable
SYMMETRY Symmetry
