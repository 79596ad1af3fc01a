SPECIFICATION FairSpec
CONSTANTS
  NumClasses = 2
  LanguagesOf <- MCLanguagesOf
  Claimable <- MCClaimable
  Live <- MCLive
  Decoys <- MCDecoys
  Declarations <- MCDeclarations
  Stacks <- MCStacks
INVARIANT TypeOK
INVARIANT NothingUnmeasured
INVARIANT VerdictIsEarned
INVARIANT DropIsAbsorbing
INVARIANT HealthyRunAttributes
INVARIANT TradeBalances
PROPERTY Answers
CHECK_DEADLOCK FALSE
