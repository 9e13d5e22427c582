\* Two threads share the callsite cache and the spans, each with its own
\* FilterState, over a plain layer outside one Filtered layer: a callsite
\* registered on one thread is filtered on the other, and a span created
\* on one is entered, followed and closed while the other is mid-pass.
CONSTANTS
  Width = 2
  Layers <- PlainOuterLayersOne
  FilterIdOf <- PlainOuterOneIds
  Threads <- TwoThreads
  EventCallsites <- OneEvent
  SpanCallsites <- OneSpanCallsite
  Spans <- TwoSpans
  None = None
  t1 = t1
  t2 = t2
  e1 = e1
  e2 = e2
  sp1 = sp1
  s1 = s1
  s2 = s2
  MaxDepth = 1
  MaxRefs = 2
  PassCounterBound = 4
SYMMETRY ThreadSpanSymmetry
SPECIFICATION Spec
INVARIANTS
  TypeOK
  EventDeliveryMatchesFilter
  SpanDeliveryMatchesFilter
  SpanViewConsistent
  NeverInterestSound
  MapClearBetweenPasses
  NoDebugAssertionFailure
PROPERTY
  ImplementsSpanView
\* With every callsite disabled and every span closed the subscriber is
\* simply never called again.
CHECK_DEADLOCK FALSE
