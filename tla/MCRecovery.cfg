SPECIFICATION FairSpec
CONSTANTS
  Sources <- Wrong
  Broken <- Nothing
INVARIANT TypeOK
INVARIANT NodesConsume
INVARIANT RereadOnlyAfterNo
INVARIANT RecursionIsBounded
PROPERTY KeepsContract
PROPERTY PushBackHoldsOne
PROPERTY Terminates
