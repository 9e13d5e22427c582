\* A plain layer inside a Filtered one answers never at registration, so
\* the Registry never takes the interest the Filtered layer added.
CONSTANTS
  Width = 2
  Layers <- FilteredOuterLayers
  FilterIdOf <- FilteredOuterIds
  Threads <- OneThread
  EventCallsites <- TwoEvents
  SpanCallsites <- NoSpans
  Spans <- NoSpans
  None = None
  t1 = t1
  t2 = t2
  e1 = e1
  e2 = e2
  sp1 = sp1
  s1 = s1
  s2 = s2
  MaxDepth = 1
  MaxRefs = 1
  PassCounterBound = 4
SPECIFICATION Spec
INVARIANT NoDebugAssertionFailure
CHECK_DEADLOCK FALSE
