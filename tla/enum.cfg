SPECIFICATION FairSpec
CONSTANTS
  Kinds <- AnyCard
  Tries = 2
INVARIANTS
  TypeOK
  EnumeratedMeansUsable
  HostNotWider
  BeliefFollowsCard
PROPERTY EnumerationReturns
