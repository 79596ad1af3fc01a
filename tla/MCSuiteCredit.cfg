SPECIFICATION FairSpec
CONSTANTS
  NumClasses = 1
  LanguagesOf <- NestedLanguagesOf
  Claimable <- NestedClaimable
  Live <- NestedLive
  Decoys <- NestedDecoys
  Declarations <- MCDeclarations
  Stacks <- MCStacks
INVARIANT CreditIsEarned
CHECK_DEADLOCK FALSE
