\* A two-leaf layer tree built with and_then, directly on the Registry:
\* every Layered node of the tree has inner_is_registry set.
CONSTANTS
  Width = 7
  PlainNames <- PlainSet
  FilterNames <- FilterSet
  FilterIdOf <- Ids
  Subscribers <- TreesOnRegistry
  Callsites <- OneCallsite
  LevelOf <- Levels1
  MaxLevel = 2
  None = None
  PassCounterBound = 4
  Hints <- SmallHints
  FilterConfigs <- SmallFilterConfigs
  p1 = p1
  p2 = p2
  p3 = p3
  f1 = f1
  f2 = f2
  f3 = f3
  g1 = g1
  g2 = g2
  g3 = g3
  e1 = e1
  e2 = e2
SPECIFICATION Spec
INVARIANT
  LevelHintSound
CHECK_DEADLOCK FALSE
