------------------------- MODULE PlfRefinementProofs -------------------------
(***************************************************************************)
(* PlfSubscriber implements PlfSpanView under the refinement mapping View *)
(* of PlfSubscriber, for every chain of layers, every width of the        *)
(* FilterMap and every bound:                                              *)
(*                                                                         *)
(*   SpanViewRefinement   Spec => ImplementsSpanView                       *)
(*                                                                         *)
(* The argument rests on the inductive invariant TypeInv /\ SpanViewInv    *)
(* proved in PlfSubscriberProofs: it says that a layer took a span at      *)
(* new_span exactly when the map the Registry stored lets it through, so   *)
(* the layers a later callback or on_close reaches, which the code reads   *)
(* off the stored map, are the layers the abstract view names.            *)
(***************************************************************************)
EXTENDS PlfSubscriberProofs

USE WidthAssumption, LayersAssumption, FilterIdAssumption,
    NoneAssumption, BoundsAssumption

\* The variables the refinement mapping reads.
viewVars == <<spanState, refs, sawNew, sawHook, sawClose>>

\* A step that leaves the spans and the layers' views alone is a stutter
\* of PlfSpanView.
LEMMA ViewFrame ==
  ASSUME UNCHANGED viewVars
  PROVE  UNCHANGED View!absVars
BY DEF viewVars, View!absVars

\* A Filtered layer sees the callbacks of a span exactly when it took the
\* span at new_span: the abstract Viewers are the code's EnabledFor.
LEMMA ViewersAreEnabledFor ==
  ASSUME TypeInv, SpanViewInv, NEW s \in Spans, spanState[s] # "unused"
  PROVE  View!Viewers(s) = EnabledFor(s)
<1>1. EnabledFor(s) \subseteq FilteredLeaves
  BY DEF EnabledFor, Forwarded
<1>2. \A i \in FilteredLeaves : s \in sawNew[i] <=> i \in EnabledFor(s)
  BY DEF SpanViewInv
<1>3. QED
  BY <1>1, <1>2 DEF View!Viewers

\* Creating a span, and a callback about live spans, are steps of the
\* abstract view.
LEMMA ViewNewIsNext ==
  ASSUME NEW s \in Spans, NEW E \in SUBSET FilteredLeaves, View!New(s, E)
  PROVE  [View!Next]_View!absVars
BY DEF View!Next

LEMMA ViewHearIsNext ==
  ASSUME NEW S \in SUBSET Spans, NEW I \in SUBSET FilteredLeaves,
         View!Hear(S, I)
  PROVE  [View!Next]_View!absVars
BY DEF View!Next

\* Every step of PlfSubscriber is a step or a stutter of PlfSpanView.
LEMMA ViewStep ==
  TypeInv /\ SpanViewInv /\ [Next]_vars => [View!Next]_View!absVars
<1> SUFFICES ASSUME TypeInv, SpanViewInv, [Next]_vars
             PROVE  [View!Next]_View!absVars
  OBVIOUS
<1>1. ASSUME NEW t \in Threads, NEW cs \in Callsites, RegisterCallsite(t, cs)
      PROVE  [View!Next]_View!absVars
  BY <1>1, ViewFrame DEF RegisterCallsite, registryVars, viewVars
<1>2. ASSUME NEW t \in Threads, NEW cs \in Callsites, CheckEnabled(t, cs)
      PROVE  [View!Next]_View!absVars
  BY <1>2, ViewFrame DEF CheckEnabled, registryVars, viewVars
<1>3. ASSUME NEW t \in Threads, NEW cs \in Callsites, SkipEnabled(t, cs)
      PROVE  [View!Next]_View!absVars
  BY <1>3, ViewFrame DEF SkipEnabled, registryVars, ghostVars, viewVars
<1>4. ASSUME NEW t \in Threads, DispatchEvent(t)
      PROVE  [View!Next]_View!absVars
  BY <1>4, ViewFrame DEF DispatchEvent, registryVars, viewVars
<1>5. ASSUME NEW t \in Threads, DispatchSpan(t)
      PROVE  [View!Next]_View!absVars
  <2>1. PICK s0 \in Spans :
          /\ spanState[s0] = "unused"
          /\ spanState' = [spanState EXCEPT ![s0] = "live"]
          /\ refs' = [refs EXCEPT ![s0] = 1]
          /\ sawNew' = [i \in FilteredLeaves |->
                          IF i \in Forwarded(fmap[t]) THEN sawNew[i] \cup {s0}
                          ELSE sawNew[i]]
    BY <1>5 DEF DispatchSpan
  <2>2. UNCHANGED <<sawHook, sawClose>>
    BY <1>5 DEF DispatchSpan
  <2>3. PICK E \in SUBSET FilteredLeaves : E = Forwarded(fmap[t])
    BY DEF Forwarded
  <2>4. View!New(s0, E)
    BY <2>1, <2>2, <2>3 DEF View!New, TypeInv, TypeOK
  <2>5. QED
    BY <2>4, ViewNewIsNext
<1>6. ASSUME NEW s \in Spans, OnSpanHook(s)
      PROVE  [View!Next]_View!absVars
  <2>1. spanState[s] = "live"
    BY <1>6 DEF OnSpanHook
  <2>2. \A i \in EnabledFor(s) : {s} \subseteq sawNew[i]
    BY <2>1, ViewersAreEnabledFor DEF View!Viewers
  <2>3. UNCHANGED <<spanState, refs, sawNew, sawClose>>
    BY <1>6 DEF OnSpanHook, registryVars
  <2>4. sawHook' = [i \in FilteredLeaves |->
                      IF i \in EnabledFor(s) THEN sawHook[i] \cup {s}
                      ELSE sawHook[i]]
    BY <1>6 DEF OnSpanHook
  <2>5. PICK I \in SUBSET FilteredLeaves : I = EnabledFor(s)
    BY DEF EnabledFor, Forwarded
  <2>6. View!Hear({s}, I)
    BY <2>1, <2>2, <2>3, <2>4, <2>5 DEF View!Hear, TypeInv, TypeOK
  <2>7. QED
    BY <2>6, ViewHearIsNext
<1>7. ASSUME NEW s \in Spans, NEW f \in Spans, FollowsFrom(s, f)
      PROVE  [View!Next]_View!absVars
  <2>0. PICK I \in SUBSET FilteredLeaves : I = EnabledFor(s) \cap EnabledFor(f)
    BY DEF EnabledFor, Forwarded
  <2>1. spanState[s] = "live" /\ spanState[f] = "live"
    BY <1>7 DEF FollowsFrom
  <2>2. \A i \in I : {s, f} \subseteq sawNew[i]
    BY <2>0, <2>1, ViewersAreEnabledFor DEF View!Viewers
  <2>3. UNCHANGED <<spanState, refs, sawNew, sawClose>>
    BY <1>7 DEF FollowsFrom, registryVars
  <2>4. sawHook' = [i \in FilteredLeaves |->
                      IF i \in I THEN sawHook[i] \cup {s, f} ELSE sawHook[i]]
    BY <1>7, <2>0 DEF FollowsFrom
  <2>5. View!Hear({s, f}, I)
    BY <2>1, <2>2, <2>3, <2>4 DEF View!Hear, TypeInv, TypeOK
  <2>6. QED
    BY <2>5, ViewHearIsNext
<1>8. ASSUME NEW s \in Spans, CloneSpan(s)
      PROVE  [View!Next]_View!absVars
  <2>1. View!Clone(s)
    BY <1>8 DEF CloneSpan, View!Clone, ghostVars
  <2>2. QED
    BY <2>1 DEF View!Next
<1>9. ASSUME NEW s \in Spans, TryClose(s)
      PROVE  [View!Next]_View!absVars
  <2>1. spanState[s] = "live" /\ refs' = [refs EXCEPT ![s] = @ - 1]
    BY <1>9 DEF TryClose, ClosedFor
  <2>2. UNCHANGED <<sawNew, sawHook>>
    BY <1>9 DEF TryClose, ClosedFor
  <2>3. View!Viewers(s) = EnabledFor(s)
    BY <2>1, ViewersAreEnabledFor
  <2>4. CASE refs[s] = 1
    <3>1. /\ spanState' = [spanState EXCEPT ![s] = "closed"]
          /\ sawClose' = [i \in FilteredLeaves |->
                            IF i \in EnabledFor(s) THEN sawClose[i] \cup {s}
                            ELSE sawClose[i]]
      BY <1>9, <2>4 DEF TryClose, ClosedFor
    <3>2. View!Close(s)
      BY <2>1, <2>2, <2>3, <2>4, <3>1 DEF View!Close
    <3>3. QED
      BY <3>2 DEF View!Next
  <2>5. CASE refs[s] # 1
    <3>1. UNCHANGED <<spanState, sawClose>>
      BY <1>9, <2>5 DEF TryClose, ClosedFor
    <3>2. View!Close(s)
      BY <2>1, <2>2, <2>5, <3>1 DEF View!Close
    <3>3. QED
      BY <3>2 DEF View!Next
  <2>6. QED
    BY <2>4, <2>5
<1>10. CASE UNCHANGED vars
  BY <1>10, ViewFrame DEF vars, registryVars, ghostVars, viewVars
<1>11. QED
  BY <1>1, <1>2, <1>3, <1>4, <1>5, <1>6, <1>7, <1>8, <1>9, <1>10 DEF Next

\* No span handed out, no layer told of any: the initial state of
\* PlfSpanView.
LEMMA ViewInit == Init => View!Init
BY DEF Init, View!Init

\* PlfSubscriber implements PlfSpanView (the property ImplementsSpanView
\* the runs check): whatever the threads, the filters' verdicts and the
\* order of the callbacks, each Filtered layer hears only of the spans it
\* took at new_span, and on_close reaches exactly the layers that took the
\* span (Layered::new_span, Filtered::did_enable, Context::if_enabled_for,
\* Layered::try_close).
THEOREM SpanViewRefinement == Spec => ImplementsSpanView
<1>1. Init => TypeInv /\ SpanViewInv
  BY TypeInit, SpanViewInit
<1>2. TypeInv /\ SpanViewInv /\ [Next]_vars => TypeInv' /\ SpanViewInv'
  BY TypeStep, SpanViewStep
<1>3. Spec => [](TypeInv /\ SpanViewInv)
  BY <1>1, <1>2, PTL DEF Spec
<1>4. QED
  BY <1>3, ViewInit, ViewStep, PTL DEF Spec, ImplementsSpanView, View!Spec

=============================================================================
