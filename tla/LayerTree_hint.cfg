\* Chains and trees above a single layer; hints, filters and answers of
\* every kind.
CONSTANTS
  Width = 7
  PlainNames <- PlainSet
  FilterNames <- FilterSet
  FilterIdOf <- Ids
  Subscribers <- ChainsAndUpperTrees
  Callsites <- OneCallsite
  LevelOf <- Levels1
  MaxLevel = 2
  None = None
  PassCounterBound = 4
  Hints <- SmallHints
  FilterConfigs <- SmallFilterConfigs
  p1 = p1
  p2 = p2
  p3 = p3
  f1 = f1
  f2 = f2
  f3 = f3
  g1 = g1
  g2 = g2
  g3 = g3
  e1 = e1
  e2 = e2
SPECIFICATION Spec
INVARIANTS
  TypeOK
  LevelHintSound
  TreeNeverInterestSound
\* Once every callsite is cached never, the subscriber is not called again.
CHECK_DEADLOCK FALSE
