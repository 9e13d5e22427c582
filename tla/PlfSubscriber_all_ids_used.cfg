\* Every bit of the map belongs to a Filtered layer (64 of them in the
\* code): when they all disable an event the Registry drops it, although
\* the plain layer enabled it.
CONSTANTS
  Width = 1
  Layers <- PlainOuterLayersOne
  FilterIdOf <- PlainOuterOneIds
  Threads <- OneThread
  EventCallsites <- OneEvent
  SpanCallsites <- NoSpans
  Spans <- NoSpans
  None = None
  t1 = t1
  t2 = t2
  e1 = e1
  e2 = e2
  sp1 = sp1
  s1 = s1
  s2 = s2
  MaxDepth = 1
  MaxRefs = 1
  PassCounterBound = 4
SPECIFICATION Spec
INVARIANT EventDeliveryMatchesFilter
CHECK_DEADLOCK FALSE
