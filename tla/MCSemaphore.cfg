SPECIFICATION FairSpec
CONSTANTS
  MaxTasks = 4
  Inits <- FewTokens
INVARIANTS TypeOK NoWaiterBesideToken TokensConserved WaitersBlocked
PROPERTY TakeCompletes
