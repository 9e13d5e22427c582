------------------------- MODULE PlfSubscriberProofs -------------------------
(***************************************************************************)
(* Proofs about PlfSubscriber, for every chain of layers, every width of   *)
(* the FilterMap and every bound.                                          *)
(*                                                                         *)
(*   TypeCorrect      Spec => []TypeOK                                     *)
(*   SpanViewCorrect  Spec => []SpanViewConsistent                         *)
(***************************************************************************)
EXTENDS PlfSubscriber, FiniteSetTheorems, SequenceTheorems, TLAPS

USE WidthAssumption, LayersAssumption, FilterIdAssumption,
    NoneAssumption, BoundsAssumption


-----------------------------------------------------------------------------
(* Lemmas about the operators the model is built from.                     *)

\* The chain has finitely many layers; the plain and the Filtered ones are
\* among them.
LEMMA LeafFacts ==
  /\ N \in Nat
  /\ IsFiniteSet(Leaves)
  /\ FilteredLeaves \subseteq Leaves
  /\ PlainLeaves \subseteq Leaves
<1>1. N \in Nat
  BY LenProperties DEF N
<1>2. IsFiniteSet(Leaves)
  BY <1>1, FS_Interval DEF Leaves
<1>3. QED
  BY <1>1, <1>2 DEF FilteredLeaves, PlainLeaves

\* Every set of layers has a natural cardinality.
LEMMA LeafSetCardinality ==
  ASSUME NEW S \in SUBSET Leaves
  PROVE  Cardinality(S) \in Nat
BY LeafFacts, FS_Subset, FS_CardinalityType

\* add_interest keeps the cell an Option<Interest>.
LEMMA AddInterestsType ==
  ASSUME NEW cell \in Interests \cup {None}, NEW added \in SUBSET Interests
  PROVE  AddInterests(cell, added) \in Interests \cup {None}
<1> DEFINE all == added \cup (IF cell = None THEN {} ELSE {cell})
<1>1. all \subseteq Interests
  OBVIOUS
<1>2. AddInterests(cell, added) =
        IF all = {} THEN None
        ELSE IF \E x \in all : all = {x} THEN CHOOSE x \in all : TRUE
        ELSE "sometimes"
  BY DEF AddInterests
<1>3. CASE \E x \in all : all = {x}
  <2>1. PICK x \in all : all = {x}
    BY <1>3
  <2>2. (CHOOSE y \in all : TRUE) \in Interests
    BY <1>1, <2>1
  <2>3. all # {}
    BY <2>1
  <2>4. QED
    BY <1>2, <1>3, <2>2, <2>3
<1>4. QED
  BY <1>2, <1>3 DEF Interests

\* pick_interest along the chain answers an Interest.
LEMMA ChainInterestType ==
  ASSUME NEW io, NEW r \in Interests
  PROVE  ChainInterest(io, r) \in Interests
BY DEF ChainInterest, Interests

\* Pushing a frame keeps a thread's stack a sequence of frames.
LEMMA PushType ==
  ASSUME NEW p \in Seq(Frame), NEW cs \in Callsites, NEW x \in SUBSET Leaves
  PROVE  Append(p, [cs |-> cs, expect |-> x]) \in Seq(Frame)
<1>1. [cs |-> cs, expect |-> x] \in Frame
  BY DEF Frame
<1>2. QED
  BY <1>1, AppendProperties

\* Popping the frame a thread dispatches: the frame is a Frame and the rest
\* of the stack a sequence of frames.
LEMMA TopType ==
  ASSUME NEW p \in Seq(Frame), p # << >>
  PROVE  /\ p[Len(p)] \in Frame
         /\ SubSeq(p, 1, Len(p) - 1) \in Seq(Frame)
<1>1. Len(p) \in Nat \ {0}
  BY EmptySeq
<1>2. p \in [1 .. Len(p) -> Frame]
  BY LenProperties
<1>3. \A i \in 1 .. (Len(p) - 1) : p[i] \in Frame
  BY <1>1, <1>2
<1>4. SubSeq(p, 1, Len(p) - 1) \in Seq(Frame)
  BY <1>1, <1>3, SubSeqProperties
<1>5. QED
  BY <1>1, <1>2, <1>4

-----------------------------------------------------------------------------
(* Type correctness.  RefsInv is needed because try_close decrements the   *)
(* count of a live span: it stays a natural only because a live span holds *)
(* at least one handle.                                                    *)

\* The initial state is well typed.
LEMMA TypeInit == Init => TypeInv
<1>1. << >> \in Seq(Frame)
  BY EmptySeq
<1>2. DefaultMap \in FilterMaps
  BY DEF DefaultMap, FilterMaps
<1> SUFFICES ASSUME Init PROVE TypeInv
  OBVIOUS
<1>3. /\ fmap \in [Threads -> FilterMaps]
      /\ icell \in [Threads -> Interests \cup {None}]
      /\ fpass \in [Threads -> Nat] /\ ipass \in [Threads -> Nat]
      /\ cache \in [Callsites -> Interests \cup {None}]
      /\ interestOf \in [Callsites -> [Leaves -> Interests]]
      /\ pending \in [Threads -> Seq(Frame)]
  BY <1>1, <1>2 DEF Init
<1>4. /\ spanState \in [Spans -> {"unused", "live", "closed"}]
      /\ refs \in [Spans -> Nat]
      /\ spanMap \in [Spans -> FilterMaps]
      /\ lastEvent \in [Threads -> [expect : SUBSET Leaves, got : SUBSET Leaves]]
      /\ spanExpect \in [Spans -> SUBSET Leaves]
      /\ sawNew \in [FilteredLeaves -> SUBSET Spans]
      /\ sawHook \in [FilteredLeaves -> SUBSET Spans]
      /\ sawClose \in [FilteredLeaves -> SUBSET Spans]
      /\ debugFail \in BOOLEAN
  BY <1>2 DEF Init
<1>5. RefsInv
  BY DEF Init, RefsInv
<1>6. QED
  BY <1>3, <1>4, <1>5 DEF TypeInv, TypeOK

\* Every operation (interest pass, filter pass, dispatch, span callback,
\* clone, close) keeps the state well typed.
LEMMA TypeStep == TypeInv /\ [Next]_vars => TypeInv'
<1> SUFFICES ASSUME TypeInv, [Next]_vars PROVE TypeInv'
  OBVIOUS
<1> USE DEF TypeInv, TypeOK, RefsInv, filterVars, registryVars, ghostVars
<1>0. Cardinality(FilteredLeaves) \in Nat
  BY LeafFacts, LeafSetCardinality
<1>1. ASSUME NEW t \in Threads, NEW cs \in Callsites, RegisterCallsite(t, cs)
      PROVE  TypeInv'
  <2> DEFINE io == interestOf[cs]
             stops(j) == j \in PlainLeaves /\ io[j] = "never"
             asked == {i \in FilteredLeaves : \A l \in Leaves : l < i => ~stops(l)}
             reached == \A l \in Leaves : ~stops(l)
             cell == AddInterests(icell[t], {io[i] : i \in asked})
             count == ipass[t] + Cardinality(asked)
             regResult == IF cell = None THEN "always" ELSE cell
  <2>1. /\ cache' = [cache EXCEPT ![cs] = ChainInterest(io, regResult)]
        /\ icell' = [icell EXCEPT ![t] = IF reached THEN None ELSE cell]
        /\ ipass' = [ipass EXCEPT ![t] = IF reached THEN 0 ELSE count]
        /\ debugFail' \in BOOLEAN
        /\ UNCHANGED <<fmap, fpass, interestOf, pending, registryVars,
                       lastEvent, spanExpect, sawNew, sawHook, sawClose>>
    BY <1>1 DEF RegisterCallsite
  <2>2. asked \subseteq Leaves
    BY LeafFacts
  <2>3. cell \in Interests \cup {None}
    <3>1. {io[i] : i \in asked} \in SUBSET Interests
      BY <2>2
    <3>2. QED
      BY <3>1, AddInterestsType
  <2>4. count \in Nat
    <3>1. Cardinality(asked) \in Nat
      BY <2>2, LeafSetCardinality
    <3>2. QED
      BY <3>1
  <2>5. regResult \in Interests
    BY <2>3 DEF Interests
  <2>6. ChainInterest(io, regResult) \in Interests
    BY <2>5, ChainInterestType
  <2>7. QED
    BY <2>1, <2>3, <2>4, <2>6
<1>2. ASSUME NEW t \in Threads, NEW cs \in Callsites, CheckEnabled(t, cs)
      PROVE  TypeInv'
  <2>1. PICK v \in [Leaves -> BOOLEAN] :
          LET stops(j) == j \in PlainLeaves /\ ~v[j]
              asked == {i \in FilteredLeaves : \A l \in Leaves : l < i => ~stops(l)}
              reached == \A l \in Leaves : ~stops(l)
              map == SetVerdicts(fmap[t], asked, v)
              count == fpass[t] + Cardinality(asked)
              enabled == reached /\ EventEnabled(map)
              expect == IF reached
                        THEN PlainLeaves \cup {i \in FilteredLeaves : v[i]}
                        ELSE {}
          IN /\ fmap' = [fmap EXCEPT ![t] = map]
             /\ fpass' = [fpass EXCEPT ![t] =
                            IF reached /\ ~EventEnabled(map) THEN 0 ELSE count]
             /\ pending' = IF enabled
                           THEN [pending EXCEPT ![t] = Append(@,
                                  [cs |-> cs, expect |-> expect])]
                           ELSE pending
             /\ lastEvent' = IF ~enabled /\ cs \in EventCallsites
                             THEN [lastEvent EXCEPT ![t] =
                                     [expect |-> expect, got |-> {}]]
                             ELSE lastEvent
             /\ debugFail' \in BOOLEAN
    BY <1>2 DEF CheckEnabled
  <2> DEFINE stops(j) == j \in PlainLeaves /\ ~v[j]
             asked == {i \in FilteredLeaves : \A l \in Leaves : l < i => ~stops(l)}
             reached == \A l \in Leaves : ~stops(l)
             map == SetVerdicts(fmap[t], asked, v)
             count == fpass[t] + Cardinality(asked)
             enabled == reached /\ EventEnabled(map)
             expect == IF reached
                       THEN PlainLeaves \cup {i \in FilteredLeaves : v[i]}
                       ELSE {}
  <2>2. asked \subseteq Leaves /\ expect \subseteq Leaves
    BY LeafFacts
  <2>3. map \in FilterMaps
    BY DEF SetVerdicts, FilterMaps
  <2>4. count \in Nat
    <3>1. Cardinality(asked) \in Nat
      BY <2>2, LeafSetCardinality
    <3>2. QED
      BY <3>1
  <2>5. fmap' \in [Threads -> FilterMaps]
    BY <2>1, <2>3
  <2>6. fpass' \in [Threads -> Nat]
    BY <2>1, <2>4
  <2>7. pending' \in [Threads -> Seq(Frame)]
    BY <2>1, <2>2, PushType
  <2>8. lastEvent' \in [Threads -> [expect : SUBSET Leaves, got : SUBSET Leaves]]
    BY <2>1, <2>2
  <2>9. UNCHANGED <<icell, ipass, cache, interestOf, registryVars,
                    spanExpect, sawNew, sawHook, sawClose>>
    BY <1>2 DEF CheckEnabled
  <2>10. QED
    BY <2>1, <2>5, <2>6, <2>7, <2>8, <2>9
<1>3. ASSUME NEW t \in Threads, NEW cs \in Callsites, SkipEnabled(t, cs)
      PROVE  TypeInv'
  <2>1. PlainLeaves \cup {i \in FilteredLeaves : interestOf[cs][i] = "always"}
          \subseteq Leaves
    BY LeafFacts
  <2>2. pending' \in [Threads -> Seq(Frame)]
    BY <1>3, <2>1, PushType DEF SkipEnabled
  <2>3. QED
    BY <1>3, <2>2 DEF SkipEnabled
<1>4. ASSUME NEW t \in Threads, DispatchEvent(t)
      PROVE  TypeInv'
  <2>1. Top(t) \in Frame /\ SubSeq(pending[t], 1, Len(pending[t]) - 1) \in Seq(Frame)
    BY <1>4, TopType DEF DispatchEvent, Top
  <2>2. Top(t).expect \subseteq Leaves
    BY <2>1 DEF Frame
  <2>3. PlainLeaves \cup Forwarded(fmap[t]) \subseteq Leaves
    BY LeafFacts DEF Forwarded
  <2>4. ClearedMap(fmap[t]) \in FilterMaps
    BY DEF ClearedMap, FilterMaps
  <2>5. DrainedCount(fpass[t]) \in Nat
    BY <1>0 DEF DrainedCount
  <2>6. /\ fmap' \in [Threads -> FilterMaps]
        /\ fpass' \in [Threads -> Nat]
        /\ pending' \in [Threads -> Seq(Frame)]
        /\ lastEvent' \in [Threads -> [expect : SUBSET Leaves, got : SUBSET Leaves]]
        /\ debugFail' \in BOOLEAN
    BY <1>4, <2>1, <2>2, <2>3, <2>4, <2>5 DEF DispatchEvent
  <2>7. QED
    BY <1>4, <2>6 DEF DispatchEvent
<1>5. ASSUME NEW t \in Threads, DispatchSpan(t)
      PROVE  TypeInv'
  <2>1. Top(t) \in Frame /\ SubSeq(pending[t], 1, Len(pending[t]) - 1) \in Seq(Frame)
    BY <1>5, TopType DEF DispatchSpan, Top
  <2>2. Top(t).expect \subseteq Leaves
    BY <2>1 DEF Frame
  <2>3. ClearedMap(fmap[t]) \in FilterMaps /\ FilterMapSnapshot(fmap[t]) \in FilterMaps
    BY DEF ClearedMap, FilterMapSnapshot, FilterMaps
  <2>4. DrainedCount(fpass[t]) \in Nat
    BY <1>0 DEF DrainedCount
  <2>5. /\ fmap' \in [Threads -> FilterMaps]
        /\ fpass' \in [Threads -> Nat]
        /\ pending' \in [Threads -> Seq(Frame)]
        /\ debugFail' \in BOOLEAN
    BY <1>5, <2>1, <2>3, <2>4 DEF DispatchSpan
  <2>6. /\ spanState' \in [Spans -> {"unused", "live", "closed"}]
        /\ refs' \in [Spans -> Nat]
        /\ spanMap' \in [Spans -> FilterMaps]
        /\ spanExpect' \in [Spans -> SUBSET Leaves]
        /\ sawNew' \in [FilteredLeaves -> SUBSET Spans]
        /\ RefsInv'
    BY <1>5, <2>2, <2>3 DEF DispatchSpan
  <2>7. QED
    BY <1>5, <2>5, <2>6 DEF DispatchSpan
<1>6. ASSUME NEW s \in Spans, OnSpanHook(s) PROVE TypeInv'
  BY <1>6 DEF OnSpanHook
<1>7. ASSUME NEW s \in Spans, NEW f \in Spans, FollowsFrom(s, f) PROVE TypeInv'
  BY <1>7 DEF FollowsFrom
<1>8. ASSUME NEW s \in Spans, CloneSpan(s) PROVE TypeInv'
  BY <1>8 DEF CloneSpan
<1>9. ASSUME NEW s \in Spans, TryClose(s) PROVE TypeInv'
  <2>1. refs[s] \in Nat /\ refs[s] >= 1
    BY <1>9 DEF TryClose, ClosedFor
  <2>2. refs' \in [Spans -> Nat]
    BY <1>9, <2>1 DEF TryClose, ClosedFor
  <2>3. CASE refs[s] = 1
    <3>1. /\ spanState' = [spanState EXCEPT ![s] = "closed"]
          /\ sawClose' = [i \in FilteredLeaves |->
                            IF i \in EnabledFor(s) THEN sawClose[i] \cup {s}
                            ELSE sawClose[i]]
      BY <1>9, <2>3 DEF TryClose, ClosedFor
    <3>2. sawClose' \in [FilteredLeaves -> SUBSET Spans]
      BY <3>1
    <3>3. RefsInv'
      BY <1>9, <3>1 DEF TryClose, ClosedFor
    <3>4. QED
      BY <1>9, <2>2, <3>1, <3>2, <3>3 DEF TryClose, ClosedFor
  <2>4. CASE refs[s] # 1
    BY <1>9, <2>1, <2>2, <2>4 DEF TryClose, ClosedFor
  <2>5. QED
    BY <2>3, <2>4
<1>10. CASE UNCHANGED vars
  BY <1>10 DEF vars
<1>11. QED
  BY <1>1, <1>2, <1>3, <1>4, <1>5, <1>6, <1>7, <1>8, <1>9, <1>10 DEF Next

\* Every reachable state of the subscriber is well typed: the FilterMaps are
\* sets of FilterIds, the debug pass counters and the span reference counts
\* are naturals (try_close never takes a count below zero), and the stacks
\* of emissions in flight hold frames.
THEOREM TypeCorrect == Spec => []TypeOK
<1>1. Spec => []TypeInv
  BY TypeInit, TypeStep, PTL DEF Spec
<1>2. QED
  BY <1>1, PTL DEF TypeInv

-----------------------------------------------------------------------------
(* The span callbacks of a Filtered layer agree with its new_span.  The    *)
(* invariant SpanViewConsistent speaks of what the layer forwarded; it is  *)
(* inductive only together with SpanViewInv, which ties what the layer     *)
(* forwarded at new_span to the FilterMap the Registry stored with the     *)
(* span (on_close adds a span exactly when the stored map lets it through, *)
(* which is where new_span sent it), and says that no layer has heard of a *)
(* span id the Registry has not yet handed out (so a fresh span starts    *)
(* with no history).                                                       *)

\* The variables the span-view invariant reads.
spanViewVars == <<spanState, spanMap, sawNew, sawHook, sawClose>>

\* An action that leaves the Registry's spans and the layers' views alone
\* preserves the invariant.
LEMMA SpanViewFrame ==
  ASSUME SpanViewInv, UNCHANGED spanViewVars
  PROVE  SpanViewInv'
BY DEF SpanViewInv, SpanViewConsistent, EnabledFor, spanViewVars

\* Every operation keeps each Filtered layer's view of the spans in step
\* with the FilterMap the Registry stored for them.
LEMMA SpanViewStep == TypeInv /\ SpanViewInv /\ [Next]_vars => SpanViewInv'
<1> SUFFICES ASSUME TypeInv, SpanViewInv, [Next]_vars PROVE SpanViewInv'
  OBVIOUS
<1> USE DEF TypeInv, TypeOK
<1>1. ASSUME NEW t \in Threads, NEW cs \in Callsites, RegisterCallsite(t, cs)
      PROVE  SpanViewInv'
  BY <1>1, SpanViewFrame DEF RegisterCallsite, registryVars, spanViewVars
<1>2. ASSUME NEW t \in Threads, NEW cs \in Callsites, CheckEnabled(t, cs)
      PROVE  SpanViewInv'
  BY <1>2, SpanViewFrame DEF CheckEnabled, registryVars, spanViewVars
<1>3. ASSUME NEW t \in Threads, NEW cs \in Callsites, SkipEnabled(t, cs)
      PROVE  SpanViewInv'
  BY <1>3, SpanViewFrame DEF SkipEnabled, registryVars, ghostVars, spanViewVars
<1>4. ASSUME NEW t \in Threads, DispatchEvent(t)
      PROVE  SpanViewInv'
  BY <1>4, SpanViewFrame DEF DispatchEvent, registryVars, spanViewVars
<1>5. ASSUME NEW t \in Threads, DispatchSpan(t)
      PROVE  SpanViewInv'
  <2>1. PICK s0 \in Spans :
          /\ spanState[s0] = "unused"
          /\ spanState' = [spanState EXCEPT ![s0] = "live"]
          /\ spanMap' = [spanMap EXCEPT ![s0] = fmap[t]]
          /\ sawNew' = [i \in FilteredLeaves |->
                          IF i \in Forwarded(fmap[t]) THEN sawNew[i] \cup {s0}
                          ELSE sawNew[i]]
    BY <1>5 DEF DispatchSpan, FilterMapSnapshot
  <2>2. UNCHANGED <<sawHook, sawClose>>
    BY <1>5 DEF DispatchSpan
  <2>3. \A i \in FilteredLeaves :
          s0 \notin sawNew[i] /\ s0 \notin sawHook[i] /\ s0 \notin sawClose[i]
    BY <2>1 DEF SpanViewInv, SpanViewConsistent
  <2>4. EnabledFor(s0)' = Forwarded(fmap[t])
    BY <2>1 DEF EnabledFor
  <2>5. \A s \in Spans \ {s0} : EnabledFor(s)' = EnabledFor(s)
    BY <2>1 DEF EnabledFor
  <2>6. ASSUME NEW s \in Spans, NEW i \in FilteredLeaves
        PROVE  /\ spanState'[s] = "unused" => s \notin sawNew'[i]
               /\ spanState'[s] # "unused" => (s \in sawNew'[i] <=> i \in EnabledFor(s)')
    BY <2>1, <2>3, <2>4, <2>5 DEF SpanViewInv
  <2>7. SpanViewConsistent'
    BY <2>1, <2>2, <2>3 DEF SpanViewInv, SpanViewConsistent
  <2>8. QED
    BY <2>6, <2>7 DEF SpanViewInv
<1>6. ASSUME NEW s \in Spans, OnSpanHook(s) PROVE SpanViewInv'
  <2>1. \A i \in FilteredLeaves : i \in EnabledFor(s) => s \in sawNew[i]
    BY <1>6 DEF OnSpanHook, SpanViewInv
  <2>2. UNCHANGED <<spanState, spanMap, sawNew, sawClose>>
    BY <1>6 DEF OnSpanHook, registryVars
  <2>3. \A x \in Spans : EnabledFor(x)' = EnabledFor(x)
    BY <2>2 DEF EnabledFor
  <2>4. \A x \in Spans, i \in FilteredLeaves :
          /\ spanState'[x] = "unused" => x \notin sawNew'[i]
          /\ spanState'[x] # "unused" => (x \in sawNew'[i] <=> i \in EnabledFor(x)')
    BY <2>2, <2>3 DEF SpanViewInv
  <2>5. \A i \in FilteredLeaves : sawHook'[i] \subseteq sawNew'[i]
    BY <1>6, <2>1, <2>2 DEF OnSpanHook, SpanViewInv, SpanViewConsistent
  <2>6. \A i \in FilteredLeaves :
          sawClose'[i] = {x \in sawNew'[i] : spanState'[x] = "closed"}
    BY <2>2 DEF SpanViewInv, SpanViewConsistent
  <2>7. QED
    BY <2>4, <2>5, <2>6 DEF SpanViewInv, SpanViewConsistent
<1>7. ASSUME NEW s \in Spans, NEW f \in Spans, FollowsFrom(s, f) PROVE SpanViewInv'
  <2>1. \A i \in FilteredLeaves :
          i \in EnabledFor(s) \cap EnabledFor(f) => s \in sawNew[i] /\ f \in sawNew[i]
    BY <1>7 DEF FollowsFrom, SpanViewInv
  <2>2. UNCHANGED <<spanState, spanMap, sawNew, sawClose>>
    BY <1>7 DEF FollowsFrom, registryVars
  <2>3. \A x \in Spans : EnabledFor(x)' = EnabledFor(x)
    BY <2>2 DEF EnabledFor
  <2>4. \A x \in Spans, i \in FilteredLeaves :
          /\ spanState'[x] = "unused" => x \notin sawNew'[i]
          /\ spanState'[x] # "unused" => (x \in sawNew'[i] <=> i \in EnabledFor(x)')
    BY <2>2, <2>3 DEF SpanViewInv
  <2>5. \A i \in FilteredLeaves : sawHook'[i] \subseteq sawNew'[i]
    BY <1>7, <2>1, <2>2 DEF FollowsFrom, SpanViewInv, SpanViewConsistent
  <2>6. \A i \in FilteredLeaves :
          sawClose'[i] = {x \in sawNew'[i] : spanState'[x] = "closed"}
    BY <2>2 DEF SpanViewInv, SpanViewConsistent
  <2>7. QED
    BY <2>4, <2>5, <2>6 DEF SpanViewInv, SpanViewConsistent
<1>8. ASSUME NEW s \in Spans, CloneSpan(s) PROVE SpanViewInv'
  BY <1>8, SpanViewFrame DEF CloneSpan, ghostVars, spanViewVars
<1>9. ASSUME NEW s \in Spans, TryClose(s) PROVE SpanViewInv'
  <2>1. UNCHANGED <<spanMap, sawNew, sawHook>>
    BY <1>9 DEF TryClose, ClosedFor
  <2>2. CASE refs[s] = 1
    <3>1. /\ spanState' = [spanState EXCEPT ![s] = "closed"]
          /\ sawClose' = [i \in FilteredLeaves |->
                            IF i \in EnabledFor(s) THEN sawClose[i] \cup {s}
                            ELSE sawClose[i]]
      BY <1>9, <2>2 DEF TryClose, ClosedFor
    <3>2. spanState[s] = "live"
      BY <1>9 DEF TryClose, ClosedFor
    <3>3. \A x \in Spans : EnabledFor(x)' = EnabledFor(x)
      BY <2>1 DEF EnabledFor
    <3>4. \A i \in FilteredLeaves : i \in EnabledFor(s) <=> s \in sawNew[i]
      BY <3>2 DEF SpanViewInv
    <3>5. QED
      BY <2>1, <3>1, <3>2, <3>3, <3>4 DEF SpanViewInv, SpanViewConsistent
  <2>3. CASE refs[s] # 1
    BY <1>9, <2>3, SpanViewFrame DEF TryClose, ClosedFor, spanViewVars
  <2>4. QED
    BY <2>2, <2>3
<1>10. CASE UNCHANGED vars
  BY <1>10, SpanViewFrame DEF vars, registryVars, ghostVars, spanViewVars
<1>11. QED
  BY <1>1, <1>2, <1>3, <1>4, <1>5, <1>6, <1>7, <1>8, <1>9, <1>10 DEF Next

\* The Registry's initial state: no span handed out, no layer told of any.
LEMMA SpanViewInit == Init => SpanViewInv
BY DEF Init, SpanViewInv, SpanViewConsistent

\* A Filtered layer's inner layer hears on_record, on_enter, on_exit and
\* on_follows_from only of spans it was given in new_span, and on_close of
\* exactly those of them that have closed, whichever thread the callbacks
\* come from.
THEOREM SpanViewCorrect == Spec => []SpanViewConsistent
<1>1. Init => TypeInv /\ SpanViewInv
  BY TypeInit, SpanViewInit
<1>2. TypeInv /\ SpanViewInv /\ [Next]_vars => TypeInv' /\ SpanViewInv'
  BY TypeStep, SpanViewStep
<1>3. TypeInv /\ SpanViewInv => SpanViewConsistent
  BY DEF SpanViewInv
<1>4. QED
  BY <1>1, <1>2, <1>3, PTL DEF Spec

=============================================================================
