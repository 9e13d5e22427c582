\* The spec's "None dominates in max" rule for pick_level_hint, over the
\* instance of the hint run; TLC finds a node where a half with no hint
\* is outvoted by the other half's hint.
CONSTANTS
  Width = 7
  PlainNames <- PlainSet
  FilterNames <- FilterSet
  FilterIdOf <- Ids
  Subscribers <- ChainsAndUpperTrees
  Callsites <- OneCallsite
  LevelOf <- Levels1
  MaxLevel = 2
  None = None
  PassCounterBound = 4
  Hints <- SmallHints
  FilterConfigs <- SmallFilterConfigs
  p1 = p1
  p2 = p2
  p3 = p3
  f1 = f1
  f2 = f2
  f3 = f3
  g1 = g1
  g2 = g2
  g3 = g3
  e1 = e1
  e2 = e2
SPECIFICATION Spec
\* Once every callsite is cached never, the subscriber is not called again.
CHECK_DEADLOCK FALSE
INVARIANT
  NoneDominatesHint
