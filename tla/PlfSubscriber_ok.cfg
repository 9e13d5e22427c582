\* A plain layer outside two Filtered layers; the map is wider than the
\* number of filters, as it is with fewer than 64 Filtered layers.
CONSTANTS
  Width = 3
  Layers <- PlainOuterLayers
  FilterIdOf <- PlainOuterIds
  Threads <- OneThread
  EventCallsites <- OneEvent
  SpanCallsites <- OneSpanCallsite
  Spans <- TwoSpans
  None = None
  t1 = t1
  t2 = t2
  e1 = e1
  e2 = e2
  sp1 = sp1
  s1 = s1
  s2 = s2
  MaxDepth = 1
  MaxRefs = 2
  PassCounterBound = 4
SYMMETRY SpanSymmetry
SPECIFICATION Spec
INVARIANTS
  TypeOK
  EventDeliveryMatchesFilter
  SpanDeliveryMatchesFilter
  SpanViewConsistent
  NeverInterestSound
  MapClearBetweenPasses
  NoDebugAssertionFailure
PROPERTY
  ImplementsSpanView
\* With every callsite disabled and every span closed the subscriber is
\* simply never called again.
CHECK_DEADLOCK FALSE
