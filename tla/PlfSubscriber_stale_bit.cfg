\* A plain layer inside a Filtered one vetoes an event after the filter
\* has set its bit; a later event of a callsite cached as always is then
\* checked against that stale bit.
CONSTANTS
  Width = 2
  Layers <- FilteredOuterLayers
  FilterIdOf <- FilteredOuterIds
  Threads <- OneThread
  EventCallsites <- TwoEvents
  SpanCallsites <- NoSpans
  Spans <- NoSpans
  None = None
  t1 = t1
  t2 = t2
  e1 = e1
  e2 = e2
  sp1 = sp1
  s1 = s1
  s2 = s2
  MaxDepth = 1
  MaxRefs = 1
  PassCounterBound = 4
SPECIFICATION Spec
INVARIANT EventDeliveryMatchesFilter
CHECK_DEADLOCK FALSE
