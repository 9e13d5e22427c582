\* An event emitted while the fields of another are evaluated (between
\* enabled() and event() on the same thread) runs its own filter pass.
CONSTANTS
  Width = 2
  Layers <- SingleLayers
  FilterIdOf <- SingleIds
  Threads <- OneThread
  EventCallsites <- OneEvent
  SpanCallsites <- NoSpans
  Spans <- NoSpans
  None = None
  t1 = t1
  t2 = t2
  e1 = e1
  e2 = e2
  sp1 = sp1
  s1 = s1
  s2 = s2
  MaxDepth = 2
  MaxRefs = 1
  PassCounterBound = 4
SPECIFICATION Spec
INVARIANT EventDeliveryMatchesFilter
CHECK_DEADLOCK FALSE
