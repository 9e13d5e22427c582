---------------------------- MODULE PlfChainProofs ----------------------------
(***************************************************************************)
(* Proofs about the interest pass, the filter pass and the dispatch of     *)
(* PlfSubscriber.  For every chain of layers, width and bound:             *)
(*                                                                         *)
(*   NeverInterestCorrect       Spec => []NeverInterestSound               *)
(*                                                                         *)
(* and for the chains of ChainHypotheses (plain layers outermost, a free   *)
(* FilterMap bit, no nested dispatch), from the inductive invariant        *)
(* ChainInv (ChainInvariant):                                              *)
(*                                                                         *)
(*   EventDeliveryCorrect       Spec => []EventDeliveryMatchesFilter       *)
(*   SpanDeliveryCorrect        Spec => []SpanDeliveryMatchesFilter        *)
(*   MapClearCorrect            Spec => []MapClearBetweenPasses            *)
(*   NoDebugFailureCorrect      Spec => []NoDebugAssertionFailure          *)
(***************************************************************************)
EXTENDS PlfSubscriberProofs

USE WidthAssumption, LayersAssumption, FilterIdAssumption,
    NoneAssumption, BoundsAssumption

-----------------------------------------------------------------------------
(* Lemmas about add_interest and pick_interest.                            *)

\* FilterState::add_interest leaves always or never in the cell only when
\* every interest it combined was that one.
LEMMA AddInterestsUniform ==
  ASSUME NEW cell, NEW added, NEW v, v # "sometimes", v # None,
         AddInterests(cell, added) = v
  PROVE  \A x \in added : x = v
<1> DEFINE all == added \cup (IF cell = None THEN {} ELSE {cell})
<1>1. AddInterests(cell, added) =
        IF all = {} THEN None
        ELSE IF \E x \in all : all = {x} THEN CHOOSE x \in all : TRUE
        ELSE "sometimes"
  BY DEF AddInterests
<1>2. all # {}
  BY <1>1
<1>3. PICK y \in all : all = {y}
  BY <1>1, <1>2
<1>4. y = v
  BY <1>1, <1>2, <1>3
<1>5. QED
  BY <1>3, <1>4

\* An empty cell to which nothing is added stays empty.
LEMMA AddInterestsEmpty == AddInterests(None, {}) = None
BY DEF AddInterests

\* Layered::pick_interest along the chain answers never only when a plain
\* layer said never (and the chain stopped there), or when the chain has no
\* plain layer and the Registry answered never.  A plain layer whose inner
\* side has a per-layer filter turns an inner never into sometimes, and the
\* innermost plain layer always has one (its inner side is Filtered layers
\* or the Registry itself).
LEMMA ChainInterestNever ==
  ASSUME NEW io \in [Leaves -> Interests], NEW r \in Interests,
         ChainInterest(io, r) = "never"
  PROVE  \/ \E j \in PlainLeaves : io[j] = "never"
         \/ PlainLeaves = {} /\ r = "never"
<1> DEFINE deciders == {j \in Leaves : ~HasLayerFilter(j) /\ io[j] # "always"}
           first(j) == j \in deciders /\ \A k \in deciders : j <= k
           decided == IF deciders = {} THEN r
                      ELSE IF \E j \in deciders : first(j) /\ io[j] = "never"
                           THEN "never" ELSE "sometimes"
           softened == \E j \in Leaves :
                         /\ ~HasLayerFilter(j) /\ InnerHasLayerFilter(j)
                         /\ \A k \in deciders : j < k
<1>1. ChainInterest(io, r) =
        IF decided = "never" /\ softened THEN "sometimes" ELSE decided
  BY DEF ChainInterest
<1>2. decided = "never" /\ ~softened
  BY <1>1
<1>3. CASE deciders # {}
  <2>1. PICK j \in deciders : first(j) /\ io[j] = "never"
    BY <1>2, <1>3
  <2>2. j \in PlainLeaves
    BY <2>1 DEF HasLayerFilter, PlainLeaves
  <2>3. QED
    BY <2>1, <2>2
<1>4. CASE deciders = {}
  <2>1. r = "never"
    BY <1>2, <1>4
  <2>2. \A j \in PlainLeaves : ~InnerHasLayerFilter(j)
    BY <1>2, <1>4 DEF HasLayerFilter, PlainLeaves
  <2>3. PlainLeaves = {}
    <3>1. SUFFICES ASSUME NEW j \in PlainLeaves PROVE FALSE
      OBVIOUS
    <3>2. j # N /\ \A k \in FilteredLeaves : k <= j
      BY <2>2, LeafFacts DEF InnerHasLayerFilter, PlainLeaves, Leaves
    <3>3. N \in Leaves /\ N > j
      BY <3>2, LeafFacts DEF PlainLeaves, Leaves
    <3>4. N \in PlainLeaves
      BY <3>2, <3>3 DEF PlainLeaves
    <3>5. InnerHasLayerFilter(N)
      BY DEF InnerHasLayerFilter
    <3>6. QED
      BY <2>2, <3>4, <3>5
  <2>4. QED
    BY <2>1, <2>3
<1>5. QED
  BY <1>3, <1>4

-----------------------------------------------------------------------------
(* The never interest.  NeverInterestSound is inductive given TypeInv:     *)
(* interestOf never changes, and only the interest pass writes the cache.  *)

\* Registering a callsite caches never only when no layer could want it.
LEMMA RegisterNeverSound ==
  ASSUME TypeInv, NEW t \in Threads, NEW c \in Callsites,
         RegisterCallsite(t, c), cache'[c] = "never"
  PROVE  \/ \E j \in PlainLeaves : interestOf[c][j] = "never"
         \/ /\ PlainLeaves = {}
            /\ \A i \in FilteredLeaves : interestOf[c][i] = "never"
<1> DEFINE io == interestOf[c]
           stops(j) == j \in PlainLeaves /\ io[j] = "never"
           asked == {i \in FilteredLeaves : \A l \in Leaves : l < i => ~stops(l)}
           cell == AddInterests(icell[t], {io[i] : i \in asked})
           regResult == IF cell = None THEN "always" ELSE cell
<1>1. io \in [Leaves -> Interests]
  BY DEF TypeInv, TypeOK
<1>2. regResult \in Interests
  <2>1. icell[t] \in Interests \cup {None} /\ {io[i] : i \in asked} \in SUBSET Interests
    BY <1>1 DEF TypeInv, TypeOK, FilteredLeaves
  <2>2. cell \in Interests \cup {None}
    BY <2>1, AddInterestsType
  <2>3. QED
    BY <2>2 DEF Interests
<1>3. ChainInterest(io, regResult) = "never"
  BY DEF RegisterCallsite, TypeInv, TypeOK
<1>4. CASE \E j \in PlainLeaves : io[j] = "never"
  BY <1>4
<1>5. CASE PlainLeaves = {} /\ regResult = "never"
  <2>1. cell = "never"
    BY <1>5
  <2>2. \A x \in {io[i] : i \in asked} : x = "never"
    BY <2>1, AddInterestsUniform, NoneAssumption DEF Interests
  <2>3. asked = FilteredLeaves
    BY <1>5 DEF PlainLeaves
  <2>4. \A i \in FilteredLeaves : io[i] = "never"
    <3>1. TAKE i \in FilteredLeaves
    <3>2. io[i] \in {io[k] : k \in asked}
      BY <2>3
    <3>3. QED
      BY Zenon, <2>2, <3>2
  <2>5. QED
    BY <1>5, <2>4
<1>6. QED
  BY <1>1, <1>2, <1>3, <1>4, <1>5, ChainInterestNever

\* The initial state caches nothing.
LEMMA NeverInit == Init => NeverInterestSound
BY NoneAssumption DEF Init, NeverInterestSound, Interests

\* Every step keeps the never interest sound.
LEMMA NeverStep ==
  TypeInv /\ NeverInterestSound /\ [Next]_vars => NeverInterestSound'
<1> SUFFICES ASSUME TypeInv, NeverInterestSound, [Next]_vars
             PROVE  NeverInterestSound'
  OBVIOUS
<1>1. ASSUME NEW t \in Threads, NEW c \in Callsites, RegisterCallsite(t, c)
      PROVE  NeverInterestSound'
  <2>1. interestOf' = interestOf
    BY <1>1 DEF RegisterCallsite
  <2>2. cache' = [cache EXCEPT ![c] = cache'[c]]
    BY <1>1 DEF RegisterCallsite, TypeInv, TypeOK
  <2>3. cache'[c] = "never" =>
          \/ \E j \in PlainLeaves : interestOf[c][j] = "never"
          \/ /\ PlainLeaves = {}
             /\ \A i \in FilteredLeaves : interestOf[c][i] = "never"
    BY <1>1, RegisterNeverSound
  <2>4. SUFFICES ASSUME NEW cs \in Callsites, cache'[cs] = "never"
               PROVE  \/ \E j \in PlainLeaves : interestOf'[cs][j] = "never"
                      \/ /\ PlainLeaves = {}
                         /\ \A i \in FilteredLeaves : interestOf'[cs][i] = "never"
    BY DEF NeverInterestSound
  <2>5. CASE cs = c
    BY <2>1, <2>3, <2>4, <2>5
  <2>6. CASE cs # c
    <3>1. cache'[cs] = cache[cs]
      BY <2>2, <2>6 DEF TypeInv, TypeOK
    <3>2. QED
      BY <2>1, <2>4, <3>1 DEF NeverInterestSound
  <2>7. QED
    BY <2>5, <2>6
<1>2. CASE UNCHANGED <<cache, interestOf>>
  BY <1>2 DEF NeverInterestSound
<1>3. \/ \E t \in Threads, c \in Callsites : RegisterCallsite(t, c)
      \/ UNCHANGED <<cache, interestOf>>
  <2>1. ASSUME NEW t \in Threads, NEW c \in Callsites, CheckEnabled(t, c)
        PROVE  UNCHANGED <<cache, interestOf>>
    BY <2>1 DEF CheckEnabled
  <2>2. ASSUME NEW t \in Threads, NEW c \in Callsites, SkipEnabled(t, c)
        PROVE  UNCHANGED <<cache, interestOf>>
    BY <2>2 DEF SkipEnabled
  <2>3. ASSUME NEW t \in Threads, DispatchEvent(t) \/ DispatchSpan(t)
        PROVE  UNCHANGED <<cache, interestOf>>
    BY Zenon, <2>3 DEF DispatchEvent, DispatchSpan
  <2>4. ASSUME NEW s \in Spans,
               \/ OnSpanHook(s) \/ CloneSpan(s) \/ TryClose(s)
               \/ \E f \in Spans : FollowsFrom(s, f)
        PROVE  UNCHANGED <<cache, interestOf>>
    BY <2>4 DEF OnSpanHook, CloneSpan, TryClose, FollowsFrom
  <2>5. CASE UNCHANGED vars
    BY <2>5 DEF vars, filterVars, registryVars, ghostVars
  <2>6. QED
    BY <2>1, <2>2, <2>3, <2>4, <2>5 DEF Next
<1>4. QED
  BY <1>1, <1>2, <1>3

\* The callsite cache never hides an event a layer would take (the
\* property NeverInterestSound the runs check): whatever the chain, the
\* threads and the interests, Layered::register_callsite with
\* pick_interest at every node, Filtered::register_callsite and the
\* Registry's take_interest cache never only when a plain layer is never
\* interested, or there is no plain layer and every filter is never
\* interested.
THEOREM NeverInterestCorrect == Spec => []NeverInterestSound
<1>1. Init => TypeInv /\ NeverInterestSound
  BY TypeInit, NeverInit
<1>2. TypeInv /\ NeverInterestSound /\ [Next]_vars
        => TypeInv' /\ NeverInterestSound'
  BY TypeStep, NeverStep
<1>3. QED
  BY <1>1, <1>2, PTL DEF Spec


-----------------------------------------------------------------------------
(* Lemmas for the chains of ChainHypotheses.                               *)

\* pick_interest along the chain answers always only when every plain
\* layer said always and the Registry answered always.
LEMMA ChainInterestAlways ==
  ASSUME NEW io \in [Leaves -> Interests], NEW r,
         ChainInterest(io, r) = "always"
  PROVE  /\ \A j \in PlainLeaves : io[j] = "always"
         /\ r = "always"
<1> DEFINE deciders == {j \in Leaves : ~HasLayerFilter(j) /\ io[j] # "always"}
           first(j) == j \in deciders /\ \A k \in deciders : j <= k
           decided == IF deciders = {} THEN r
                      ELSE IF \E j \in deciders : first(j) /\ io[j] = "never"
                           THEN "never" ELSE "sometimes"
           softened == \E j \in Leaves :
                         /\ ~HasLayerFilter(j) /\ InnerHasLayerFilter(j)
                         /\ \A k \in deciders : j < k
<1>1. ChainInterest(io, r) =
        IF decided = "never" /\ softened THEN "sometimes" ELSE decided
  BY DEF ChainInterest
<1>2. decided = "always"
  BY <1>1
<1>3. deciders = {}
  BY <1>2
<1>4. QED
  BY <1>2, <1>3 DEF HasLayerFilter, PlainLeaves

\* Filtered::enabled with every Filtered layer asked, from the default map:
\* the map holds the ids of the filters that disabled, and did_enable then
\* lets exactly the layers whose filter enabled through.  Registry ids are
\* distinct, so one layer's bit is never another's.
LEMMA ForwardedVerdicts ==
  ASSUME NEW v \in [Leaves -> BOOLEAN]
  PROVE  /\ SetVerdicts(DefaultMap, FilteredLeaves, v) \subseteq ChainFilterIds
         /\ Forwarded(SetVerdicts(DefaultMap, FilteredLeaves, v))
              = {i \in FilteredLeaves : v[i]}
<1>1. SetVerdicts(DefaultMap, FilteredLeaves, v)
        = {FilterIdOf[i] : i \in {k \in FilteredLeaves : ~v[k]}}
  BY DEF SetVerdicts, DefaultMap
<1>2. ASSUME NEW i \in FilteredLeaves
      PROVE  FilterIdOf[i] \notin {FilterIdOf[k] : k \in {k2 \in FilteredLeaves : ~v[k2]}}
               <=> v[i]
  BY FilterIdAssumption, LeafFacts
<1>3. QED
  BY <1>1, <1>2, FilterIdAssumption DEF ChainFilterIds, Forwarded, IsEnabled

\* With no bit set, did_enable lets every Filtered layer through.
LEMMA ForwardedDefault == Forwarded(DefaultMap) = FilteredLeaves
BY FilterIdAssumption DEF Forwarded, IsEnabled, DefaultMap

\* did_enable clears every bit a filter of the chain can have set.
LEMMA ClearedChain ==
  ASSUME NEW map \in SUBSET ChainFilterIds
  PROVE  ClearedMap(map) = DefaultMap
BY DEF ClearedMap, ChainFilterIds, DefaultMap

\* With a bit that belongs to no filter, FilterMap::any_enabled holds of
\* every map the chain's filters can produce.
LEMMA FreeBitEnabled ==
  ASSUME FreeFilterBit, NEW map \in SUBSET ChainFilterIds
  PROVE  EventEnabled(map)
BY DEF FreeFilterBit, ChainFilterIds, EventEnabled, AnyEnabled

\* saturating_sub once per Filtered layer empties a counter that is zero or
\* the number of Filtered layers.
LEMMA DrainedZero ==
  ASSUME NEW c \in {0, Cardinality(FilteredLeaves)}
  PROVE  DrainedCount(c) = 0
BY LeafFacts, LeafSetCardinality DEF DrainedCount

\* did_enable's debug assertion holds for a map and counter a full filter
\* pass leaves: while a bit is set the counter still counts every Filtered
\* layer, so at layer j it is at least 2 unless j is the outermost Filtered
\* layer, and at the outermost one every bit it could check is cleared.
LEMMA NoDidEnableFail ==
  ASSUME NEW t \in Threads, ipass[t] = 0,
         NEW map \in SUBSET ChainFilterIds,
         NEW c \in {0, Cardinality(FilteredLeaves)},
         map # DefaultMap => c = Cardinality(FilteredLeaves)
  PROVE  ~DidEnableAssertFails(t, map, c)
<1> DEFINE F == FilteredLeaves
           above(j) == {l \in F : l > j}
<1>1. SUFFICES ASSUME NEW j \in F,
                      c - Cardinality(above(j)) <= 1,
                      map \ {FilterIdOf[l] : l \in {k \in F : k >= j}} # DefaultMap
               PROVE  FALSE
  BY Zenon DEF DidEnableAssertFails
<1>2. IsFiniteSet(F) /\ Cardinality(F) \in Nat
  BY LeafFacts, FS_Subset, LeafSetCardinality
<1>3. c = Cardinality(F)
  BY <1>1 DEF DefaultMap
<1>4. CASE \A l \in F : l >= j
  <2>1. {k \in F : k >= j} = F
    BY <1>4
  <2>2. QED
    BY <1>1, <2>1 DEF ChainFilterIds, DefaultMap
<1>5. CASE \E l \in F : l < j
  <2>1. PICK l \in F : l < j
    BY <1>5
  <2>2. above(j) \subseteq (F \ {j}) \ {l}
    BY <2>1, LeafFacts DEF Leaves
  <2>3. IsFiniteSet(F \ {j}) /\ Cardinality(F \ {j}) = Cardinality(F) - 1
    BY <1>2, FS_RemoveElement
  <2>4. IsFiniteSet((F \ {j}) \ {l})
        /\ Cardinality((F \ {j}) \ {l}) = Cardinality(F) - 2
    <3>1. l \in F \ {j}
      BY <2>1, LeafFacts DEF Leaves
    <3>2. IsFiniteSet((F \ {j}) \ {l})
          /\ Cardinality((F \ {j}) \ {l}) = Cardinality(F \ {j}) - 1
      BY Zenon, <2>3, <3>1, FS_RemoveElement
    <3>3. QED
      BY <1>2, <2>3, <3>2
  <2>5. Cardinality(above(j)) <= Cardinality(F) - 2
    BY <2>2, <2>4, FS_Subset
  <2>6. Cardinality(above(j)) \in Nat
    BY LeafSetCardinality, LeafFacts
  <2>7. QED
    BY <1>1, <1>2, <1>3, <2>5, <2>6
<1>6. QED
  BY <1>4, <1>5, LeafFacts DEF Leaves

\* take_interest finds the cell empty only when no Filtered layer added.
LEMMA AddInterestsNone ==
  ASSUME NEW S \in SUBSET Interests, AddInterests(None, S) = None
  PROVE  S = {}
<1>1. SUFFICES ASSUME S # {} PROVE FALSE
  OBVIOUS
<1>2. CASE \E x \in S : S = {x}
  <2>1. (CHOOSE x \in S : TRUE) \in Interests
    BY <1>1
  <2>2. AddInterests(None, S) = CHOOSE x \in S : TRUE
    BY <1>1, <1>2 DEF AddInterests
  <2>3. QED
    BY <2>1, <2>2, NoneAssumption
<1>3. CASE ~\E x \in S : S = {x}
  <2>1. AddInterests(None, S) = "sometimes"
    BY <1>1, <1>3 DEF AddInterests
  <2>2. QED
    BY <2>1, NoneAssumption DEF Interests
<1>4. QED
  BY <1>2, <1>3

-----------------------------------------------------------------------------
(* Each action preserves ChainInv under ChainHypotheses.                   *)

\* Layered::register_callsite on a chain whose plain layers are outermost:
\* a plain never stops the pass before any Filtered layer adds to the
\* cell, and a pass that reaches the Registry takes the cell back, so the
\* cell is empty again and add_interest / take_interest never assert.
LEMMA ChainRegister ==
  ASSUME ChainHypotheses, TypeInv, ChainInv,
         NEW t \in Threads, NEW c \in Callsites, RegisterCallsite(t, c)
  PROVE  ChainInv'
<1> DEFINE F == FilteredLeaves
           io == interestOf[c]
           stops(j) == j \in PlainLeaves /\ io[j] = "never"
           asked == {i \in F : \A l \in Leaves : l < i => ~stops(l)}
           reached == \A l \in Leaves : ~stops(l)
           cell == AddInterests(icell[t], {io[i] : i \in asked})
           count == ipass[t] + Cardinality(asked)
           regResult == IF cell = None THEN "always" ELSE cell
<1>1. icell[t] = None /\ ipass[t] = 0
  BY DEF ChainInv, FilterStateInv
<1>2. /\ cache' = [cache EXCEPT ![c] = ChainInterest(io, regResult)]
      /\ icell' = [icell EXCEPT ![t] = IF reached THEN None ELSE cell]
      /\ ipass' = [ipass EXCEPT ![t] = IF reached THEN 0 ELSE count]
      /\ debugFail' = \/ debugFail
                      \/ asked # {} /\ ipass[t] = 0 /\ icell[t] # None
                      \/ reached /\ count = 0 /\ cell # None
      /\ UNCHANGED <<fmap, fpass, interestOf, pending, registryVars,
                     lastEvent, spanExpect, sawNew, sawHook, sawClose>>
  BY DEF RegisterCallsite
<1>3. asked = IF reached THEN F ELSE {}
  BY DEF ChainHypotheses, PlainOutermost
<1>4. count = Cardinality(asked)
  BY <1>1, <1>3, LeafSetCardinality, LeafFacts
<1>5. ~reached => cell = None /\ count = 0
  <2>1. HAVE ~reached
  <2>2. asked = {}
    BY <1>3, <2>1
  <2>3. cell = AddInterests(None, {})
    BY Zenon, <1>1, <2>2
  <2>4. Cardinality(asked) = 0
    BY Zenon, <2>2, FS_EmptySet
  <2>5. QED
    BY <1>4, <2>3, <2>4, AddInterestsEmpty
<1>6. reached /\ count = 0 => cell = None
  <2>1. HAVE reached /\ count = 0
  <2>2. IsFiniteSet(F)
    BY LeafFacts, FS_Subset
  <2>3. Cardinality(F) = 0
    BY Zenon, <1>3, <1>4, <2>1
  <2>4. asked = {}
    BY <1>3, <2>2, <2>3, FS_EmptySet
  <2>5. QED
    BY Zenon, <1>1, <2>4, AddInterestsEmpty
<1>7. icell'[t] = None /\ ipass'[t] = 0 /\ ~debugFail'
  BY <1>1, <1>2, <1>5, <1>6 DEF TypeInv, TypeOK, ChainInv, NoDebugAssertionFailure
<1>8. AlwaysCacheSound'
  <2>1. SUFFICES ChainInterest(io, regResult) = "always" =>
                   \A i \in F : io[i] = "always"
    BY <1>2 DEF AlwaysCacheSound, ChainInv, TypeInv, TypeOK
  <2>2. HAVE ChainInterest(io, regResult) = "always"
  <2>3. (\A j \in PlainLeaves : io[j] = "always") /\ regResult = "always"
    <3>1. io \in [Leaves -> Interests]
      BY DEF TypeInv, TypeOK
    <3>2. QED
      BY <2>2, <3>1, ChainInterestAlways
  <2>4. asked = F
    BY <1>3, <2>3
  <2>5. {io[i] : i \in asked} \in SUBSET Interests
    <3>1. io \in [Leaves -> Interests] /\ asked \subseteq Leaves
      BY LeafFacts DEF TypeInv, TypeOK
    <3>2. QED
      BY <3>1
  <2>6. CASE cell = None
    <3>1. {io[i] : i \in asked} = {}
      BY Zenon, <1>1, <2>5, <2>6, AddInterestsNone
    <3>2. F = {}
      <4>1. SUFFICES ASSUME NEW i \in F PROVE FALSE
        OBVIOUS
      <4>2. io[i] \in {io[k] : k \in asked}
        BY <2>4
      <4>3. QED
        BY Zenon, <3>1, <4>2
    <3>3. QED
      BY <3>2
  <2>7. CASE cell # None
    <3>1. cell = "always"
      BY <2>3, <2>7
    <3>2. \A x \in {io[i] : i \in asked} : x = "always"
      BY Zenon, <3>1, AddInterestsUniform, NoneAssumption DEF Interests
    <3>3. ASSUME NEW i \in F PROVE io[i] = "always"
      <4>1. io[i] \in {io[k] : k \in asked}
        BY <2>4
      <4>2. QED
        BY Zenon, <3>2, <4>1
    <3>4. QED
      BY <3>3
  <2>8. QED
    BY <2>6, <2>7
<1>9. \A u \in Threads : FilterStateInv(u)'
  BY <1>2, <1>7 DEF ChainInv, FilterStateInv, Top, TypeInv, TypeOK
<1>10. QED
  BY <1>2, <1>7, <1>8, <1>9
     DEF ChainInv, UnusedSpanUnseen, MapClearBetweenPasses,
         EventDeliveryMatchesFilter, SpanDeliveryMatchesFilter,
         NoDebugAssertionFailure, registryVars

\* With no callsite in flight, the thread's FilterState is at rest.
LEMMA IdleThread ==
  ASSUME ChainHypotheses, TypeInv, ChainInv, NEW t \in Threads,
         Len(pending[t]) < MaxDepth
  PROVE  /\ pending[t] = << >>
         /\ fmap[t] = DefaultMap /\ fpass[t] = 0
         /\ icell[t] = None /\ ipass[t] = 0
<1>1. pending[t] = << >>
  BY EmptySeq DEF ChainHypotheses, NoNestedDispatch, TypeInv, TypeOK
<1>2. QED
  BY <1>1 DEF ChainInv, FilterStateInv, MapClearBetweenPasses

\* Layered::enabled on a chain of ChainHypotheses starts from the default
\* map: a plain veto stops it before any Filtered layer records a verdict
\* (the map stays default and the callsite is dropped for everyone); when
\* every plain layer enables, every Filtered layer records its verdict, the
\* free bit makes event_enabled true, and the callsite is pushed with the
\* map that forwards exactly the layers whose filter enabled.
LEMMA ChainCheck ==
  ASSUME ChainHypotheses, TypeInv, ChainInv,
         NEW t \in Threads, NEW c \in Callsites, CheckEnabled(t, c)
  PROVE  ChainInv'
<1> DEFINE F == FilteredLeaves
           stops(v, j) == j \in PlainLeaves /\ ~v[j]
           asked(v) == {i \in F : \A l \in Leaves : l < i => ~stops(v, l)}
           reached(v) == \A l \in Leaves : ~stops(v, l)
           map(v) == SetVerdicts(fmap[t], asked(v), v)
           count(v) == fpass[t] + Cardinality(asked(v))
           enabled(v) == reached(v) /\ EventEnabled(map(v))
           expect(v) == IF reached(v) THEN PlainLeaves \cup {i \in F : v[i]}
                        ELSE {}
<1>1. /\ pending[t] = << >>
      /\ fmap[t] = DefaultMap /\ fpass[t] = 0
      /\ icell[t] = None /\ ipass[t] = 0
  BY IdleThread DEF CheckEnabled
<1>2. PICK v \in [Leaves -> BOOLEAN] :
        /\ fmap' = [fmap EXCEPT ![t] = map(v)]
        /\ fpass' = [fpass EXCEPT ![t] =
                       IF reached(v) /\ ~EventEnabled(map(v)) THEN 0 ELSE count(v)]
        /\ pending' = IF enabled(v)
                      THEN [pending EXCEPT ![t] = Append(@,
                             [cs |-> c, expect |-> expect(v)])]
                      ELSE pending
        /\ lastEvent' = IF ~enabled(v) /\ c \in EventCallsites
                        THEN [lastEvent EXCEPT ![t] =
                                [expect |-> expect(v), got |-> {}]]
                        ELSE lastEvent
        /\ debugFail' = \/ debugFail
                        \/ SetAssertFails(t, asked(v))
                        \/ reached(v) /\ count(v) = 0 /\ map(v) # DefaultMap
  BY Zenon DEF CheckEnabled
<1>3. UNCHANGED <<icell, ipass, cache, interestOf, registryVars,
                  spanExpect, sawNew, sawHook, sawClose>>
  BY Zenon DEF CheckEnabled
<1>4. \A u \in Threads \ {t} : FilterStateInv(u)'
  BY Zenon, <1>2, <1>3 DEF ChainInv, FilterStateInv, Top, TypeInv, TypeOK
<1>5. CASE ~reached(v)
  <2>1. asked(v) = {}
    BY <1>5 DEF ChainHypotheses, PlainOutermost
  <2>2. map(v) = DefaultMap /\ count(v) = 0 /\ ~enabled(v)
    <3>1. map(v) = DefaultMap
      BY Zenon, <1>1, <2>1 DEF SetVerdicts, DefaultMap
    <3>2. count(v) = 0
      <4>1. Cardinality(asked(v)) = 0
        BY Zenon, <2>1, FS_EmptySet
      <4>2. QED
        BY <1>1, <4>1
    <3>3. QED
      BY <1>5, <3>1, <3>2
  <2>3. ~SetAssertFails(t, asked(v))
    BY <2>1 DEF SetAssertFails
  <2>4. /\ fmap'[t] = DefaultMap /\ fpass'[t] = 0 /\ pending' = pending
        /\ ~debugFail'
    BY Zenon, <1>2, <1>5, <2>2, <2>3 DEF ChainInv, NoDebugAssertionFailure, TypeInv, TypeOK
  <2>5. EventDeliveryMatchesFilter'
    BY Zenon, <1>2, <1>5, <2>2 DEF ChainInv, EventDeliveryMatchesFilter, TypeInv, TypeOK
  <2>6. FilterStateInv(t)'
    BY <1>1, <1>3, <2>4 DEF FilterStateInv
  <2>7. QED
    BY Zenon, <1>3, <1>4, <2>4, <2>5, <2>6, <1>2
       DEF ChainInv, AlwaysCacheSound, UnusedSpanUnseen, MapClearBetweenPasses,
           SpanDeliveryMatchesFilter, NoDebugAssertionFailure, registryVars,
           TypeInv, TypeOK
<1>6. CASE reached(v)
  <2>1. asked(v) = F
    BY <1>6
  <2>2. map(v) = SetVerdicts(DefaultMap, F, v)
    BY Zenon, <1>1, <2>1
  <2>3. /\ map(v) \subseteq ChainFilterIds
        /\ Forwarded(map(v)) = {i \in F : v[i]}
    BY Zenon, <2>2, ForwardedVerdicts
  <2>4. enabled(v)
    BY <1>6, <2>3, FreeBitEnabled DEF ChainHypotheses
  <2>5. count(v) = Cardinality(F)
    <3>1. Cardinality(F) \in Nat
      BY LeafSetCardinality, LeafFacts
    <3>2. Cardinality(asked(v)) = Cardinality(F)
      BY Zenon, <2>1
    <3>3. QED
      BY <1>1, <3>1, <3>2
  <2>6. ~debugFail'
    <3>1. ~SetAssertFails(t, asked(v))
      BY <1>1 DEF SetAssertFails
    <3>2. count(v) = 0 => map(v) = DefaultMap
      BY <2>3, <2>5, LeafFacts, FS_Subset, FS_EmptySet DEF ChainFilterIds, DefaultMap
    <3>3. QED
      BY <1>2, <3>1, <3>2 DEF ChainInv, NoDebugAssertionFailure
  <2>7. /\ pending'[t] = << [cs |-> c, expect |-> expect(v)] >>
        /\ pending' = [pending EXCEPT ![t] = pending'[t]]
        /\ fmap'[t] = map(v) /\ fpass'[t] = Cardinality(F)
        /\ lastEvent' = lastEvent
    <3>1. pending' = [pending EXCEPT ![t] = Append(pending[t],
                         [cs |-> c, expect |-> expect(v)])]
      BY <1>2, <2>4
    <3>2. Append(pending[t], [cs |-> c, expect |-> expect(v)])
            = << [cs |-> c, expect |-> expect(v)] >>
      BY <1>1
    <3>3. QED
      BY Zenon, <1>2, <2>4, <2>5, <3>1, <3>2 DEF TypeInv, TypeOK
  <2>8. FilterStateInv(t)'
    <3>1. Top(t)' = [cs |-> c, expect |-> expect(v)]
      BY <2>7 DEF Top
    <3>2. expect(v) = PlainLeaves \cup Forwarded(map(v))
      BY <1>6, <2>3
    <3>3. Cardinality(F) \in Nat
      BY LeafSetCardinality, LeafFacts
    <3>4. icell'[t] = None /\ ipass'[t] = 0
      BY <1>1, <1>3
    <3>5. Len(pending'[t]) = 1 /\ pending'[t] # << >>
      BY <2>7
    <3>6. Top(t)'.expect = PlainLeaves \cup Forwarded(fmap'[t])
      BY <2>7, <3>1, <3>2
    <3>7. fmap'[t] \subseteq ChainFilterIds
          /\ fpass'[t] \in {0, Cardinality(F)}
      BY <2>3, <2>7
    <3>8. QED
      BY <2>7, <3>3, <3>4, <3>5, <3>6, <3>7 DEF FilterStateInv
  <2>9. MapClearBetweenPasses'
    <3>1. SUFFICES ASSUME NEW u \in Threads, pending'[u] = << >>
                   PROVE  fmap'[u] = DefaultMap
      BY DEF MapClearBetweenPasses
    <3>2. u # t
      BY <2>7, <3>1
    <3>3. pending'[u] = pending[u] /\ fmap'[u] = fmap[u]
      BY Zenon, <1>2, <2>7, <3>2 DEF TypeInv, TypeOK
    <3>4. QED
      BY <3>1, <3>3 DEF ChainInv, MapClearBetweenPasses
  <2>10. QED
    BY <1>3, <1>4, <2>6, <2>7, <2>8, <2>9
       DEF ChainInv, AlwaysCacheSound, UnusedSpanUnseen,
           EventDeliveryMatchesFilter, SpanDeliveryMatchesFilter,
           NoDebugAssertionFailure, registryVars
<1>7. QED
  BY <1>5, <1>6

\* A callsite cached as always skips enabled() and is pushed with the
\* default map: every Filtered layer promised to enable it, and did_enable
\* will forward it to every one of them.
LEMMA ChainSkip ==
  ASSUME ChainHypotheses, TypeInv, ChainInv,
         NEW t \in Threads, NEW c \in Callsites, SkipEnabled(t, c)
  PROVE  ChainInv'
<1> DEFINE F == FilteredLeaves
           frame == [cs |-> c,
                     expect |-> PlainLeaves \cup
                                {i \in F : interestOf[c][i] = "always"}]
<1>1. /\ pending[t] = << >>
      /\ fmap[t] = DefaultMap /\ fpass[t] = 0
      /\ icell[t] = None /\ ipass[t] = 0
  BY IdleThread DEF SkipEnabled
<1>2. /\ pending' = [pending EXCEPT ![t] = Append(pending[t], frame)]
      /\ UNCHANGED <<filterVars, cache, interestOf, registryVars, ghostVars>>
  BY DEF SkipEnabled
<1>3. pending'[t] = << frame >>
  <2>1. Append(pending[t], frame) = << frame >>
    BY <1>1
  <2>2. QED
    BY <1>2, <2>1 DEF TypeInv, TypeOK
<1>4. frame.expect = PlainLeaves \cup Forwarded(fmap[t])
  <2>1. {i \in F : interestOf[c][i] = "always"} = F
    BY DEF SkipEnabled, ChainInv, AlwaysCacheSound
  <2>2. QED
    BY <1>1, <2>1, ForwardedDefault
<1>5. FilterStateInv(t)'
  <2>1. Top(t)' = frame
    BY <1>3 DEF Top
  <2>2. Cardinality(F) \in Nat
    BY LeafSetCardinality, LeafFacts
  <2>3. UNCHANGED <<fmap[t], fpass[t], icell[t], ipass[t]>>
    BY <1>2 DEF filterVars
  <2>4. Top(t)'.expect = PlainLeaves \cup Forwarded(fmap'[t])
    BY Zenon, <1>4, <2>1, <2>3
  <2>5. Len(pending'[t]) = 1 /\ pending'[t] # << >>
    BY <1>3
  <2>6. QED
    BY <1>1, <2>2, <2>3, <2>4, <2>5 DEF FilterStateInv, DefaultMap
<1>6. \A u \in Threads \ {t} : FilterStateInv(u)'
  BY <1>2 DEF ChainInv, FilterStateInv, Top, filterVars, TypeInv, TypeOK
<1>7. MapClearBetweenPasses'
  <2>1. SUFFICES ASSUME NEW u \in Threads, pending'[u] = << >>
                 PROVE  fmap'[u] = DefaultMap
    BY DEF MapClearBetweenPasses
  <2>2. u # t
    BY <1>3, <2>1
  <2>3. pending'[u] = pending[u]
    BY <1>2, <2>2 DEF TypeInv, TypeOK
  <2>4. QED
    BY Zenon, <1>2, <2>1, <2>3 DEF ChainInv, MapClearBetweenPasses, filterVars
<1>8. QED
  BY <1>2, <1>5, <1>6, <1>7
     DEF ChainInv, AlwaysCacheSound, UnusedSpanUnseen,
         EventDeliveryMatchesFilter, SpanDeliveryMatchesFilter,
         NoDebugAssertionFailure, registryVars, ghostVars

\* What did_enable finds when a thread dispatches its pending callsite:
\* the map and counter of the one filter pass that admitted it, so every
\* Filtered layer clears its bit, the counter drains to zero, the debug
\* assertions hold, and the layers forwarded are those the pass expects.
LEMMA DispatchFacts ==
  ASSUME TypeInv, ChainInv, NEW t \in Threads, pending[t] # << >>
  PROVE  /\ SubSeq(pending[t], 1, Len(pending[t]) - 1) = << >>
         /\ ClearedMap(fmap[t]) = DefaultMap
         /\ DrainedCount(fpass[t]) = 0
         /\ ~DidEnableAssertFails(t, fmap[t], fpass[t])
         /\ ~(fpass[t] = 0 /\ fmap[t] # DefaultMap)
         /\ Top(t).expect = PlainLeaves \cup Forwarded(fmap[t])
<1>1. FilterStateInv(t)
  BY DEF ChainInv
<1>2. pending[t] \in Seq(Frame) /\ fmap[t] \in FilterMaps
  BY DEF TypeInv, TypeOK
<1>3. Len(pending[t]) = 1
  <2>1. Len(pending[t]) \in Nat \ {0}
    <3>1. \A seq \in Seq(Frame) : seq # << >> => Len(seq) \in Nat \ {0}
      BY EmptySeq
    <3>2. QED
      BY <1>2, <3>1
  <2>2. Len(pending[t]) <= 1
    BY <1>1 DEF FilterStateInv
  <2>3. Len(pending[t]) \in Nat /\ Len(pending[t]) # 0
    BY <2>1
  <2>4. \A n \in Nat : n # 0 /\ n <= 1 => n = 1
    OBVIOUS
  <2>5. QED
    BY Zenon, <2>2, <2>3, <2>4
<1>4. SubSeq(pending[t], 1, Len(pending[t]) - 1) = << >>
  BY <1>3, SubSeqEmpty
<1>5. /\ fmap[t] \subseteq ChainFilterIds
      /\ fpass[t] \in {0, Cardinality(FilteredLeaves)}
      /\ fmap[t] # DefaultMap => fpass[t] = Cardinality(FilteredLeaves)
      /\ ipass[t] = 0
  BY <1>1 DEF FilterStateInv
<1>6. ~(fpass[t] = 0 /\ fmap[t] # DefaultMap)
  <2>1. SUFFICES ASSUME fpass[t] = 0, fmap[t] # DefaultMap PROVE FALSE
    OBVIOUS
  <2>2. Cardinality(FilteredLeaves) = 0
    BY <1>5, <2>1
  <2>3. FilteredLeaves = {}
    BY <2>2, LeafFacts, FS_Subset, FS_EmptySet
  <2>4. QED
    BY <1>5, <2>1, <2>3 DEF ChainFilterIds, DefaultMap
<1>7. QED
  BY <1>1, <1>4, <1>5, <1>6, ClearedChain, DrainedZero, NoDidEnableFail
     DEF FilterStateInv

\* Subscriber::event on a chain of ChainHypotheses: each Filtered layer
\* forwards on_event exactly when its filter enabled the event, and the
\* thread's FilterState is back at rest afterwards.
LEMMA ChainDispatchEvent ==
  ASSUME TypeInv, ChainInv, NEW t \in Threads, DispatchEvent(t)
  PROVE  ChainInv'
<1>1. pending[t] # << >>
  BY DEF DispatchEvent
<1>2. /\ fmap' = [fmap EXCEPT ![t] = ClearedMap(fmap[t])]
      /\ fpass' = [fpass EXCEPT ![t] = DrainedCount(fpass[t])]
      /\ pending' = [pending EXCEPT ![t] = SubSeq(@, 1, Len(@) - 1)]
      /\ lastEvent' = [lastEvent EXCEPT ![t] =
                         [expect |-> Top(t).expect,
                          got |-> PlainLeaves \cup Forwarded(fmap[t])]]
      /\ debugFail' = (debugFail \/ DidEnableAssertFails(t, fmap[t], fpass[t]))
      /\ UNCHANGED <<icell, ipass, cache, interestOf, registryVars,
                     spanExpect, sawNew, sawHook, sawClose>>
  BY DEF DispatchEvent
<1>3. /\ pending'[t] = << >> /\ fmap'[t] = DefaultMap /\ fpass'[t] = 0
      /\ lastEvent'[t].expect = lastEvent'[t].got
      /\ ~debugFail'
  BY Zenon, <1>1, <1>2, DispatchFacts
     DEF TypeInv, TypeOK, ChainInv, NoDebugAssertionFailure
<1>4. \A u \in Threads : FilterStateInv(u)'
  <2>1. FilterStateInv(t)'
    <3>1. icell'[t] = None /\ ipass'[t] = 0
      BY Zenon, <1>2 DEF ChainInv, FilterStateInv
    <3>2. Len(pending'[t]) = 0
      BY <1>3, EmptySeq
    <3>3. Len(pending'[t]) <= 1
      BY <3>2
    <3>4. QED
      BY <1>3, <3>1, <3>3, Zenon DEF FilterStateInv
  <2>2. ASSUME NEW u \in Threads \ {t} PROVE FilterStateInv(u)'
    <3>1. /\ pending'[u] = pending[u] /\ fmap'[u] = fmap[u]
          /\ fpass'[u] = fpass[u]
      BY Zenon, <1>2 DEF TypeInv, TypeOK
    <3>2. icell'[u] = icell[u] /\ ipass'[u] = ipass[u]
      BY <1>2
    <3>3. FilterStateInv(u)
      BY DEF ChainInv
    <3>4. QED
      BY Zenon, <3>1, <3>2, <3>3 DEF FilterStateInv, Top
  <2>3. QED
    BY <2>1, <2>2
<1>5. MapClearBetweenPasses' /\ EventDeliveryMatchesFilter'
  BY Zenon, <1>2, <1>3 DEF ChainInv, MapClearBetweenPasses, EventDeliveryMatchesFilter,
                    TypeInv, TypeOK
<1>6. QED
  BY <1>2, <1>3, <1>4, <1>5
     DEF ChainInv, AlwaysCacheSound, UnusedSpanUnseen,
         SpanDeliveryMatchesFilter, NoDebugAssertionFailure, registryVars

\* Subscriber::new_span on a chain of ChainHypotheses: the inner layer of
\* each Filtered layer is told of the span exactly when its filter enabled
\* it, and the thread's FilterState is back at rest afterwards.
LEMMA ChainDispatchSpan ==
  ASSUME TypeInv, ChainInv, NEW t \in Threads, DispatchSpan(t)
  PROVE  ChainInv'
<1> DEFINE F == FilteredLeaves
<1>1. pending[t] # << >>
  BY DEF DispatchSpan
<1>2. PICK s \in Spans :
        /\ spanState[s] = "unused"
        /\ spanState' = [spanState EXCEPT ![s] = "live"]
        /\ spanExpect' = [spanExpect EXCEPT ![s] = Top(t).expect]
        /\ sawNew' = [i \in F |->
                        IF i \in Forwarded(fmap[t]) THEN sawNew[i] \cup {s}
                        ELSE sawNew[i]]
  BY Zenon DEF DispatchSpan
<1>3. /\ fmap' = [fmap EXCEPT ![t] = ClearedMap(fmap[t])]
      /\ fpass' = [fpass EXCEPT ![t] = DrainedCount(fpass[t])]
      /\ pending' = [pending EXCEPT ![t] = SubSeq(@, 1, Len(@) - 1)]
      /\ debugFail' = \/ debugFail
                      \/ fpass[t] = 0 /\ fmap[t] # DefaultMap
                      \/ DidEnableAssertFails(t, fmap[t], fpass[t])
      /\ UNCHANGED <<icell, ipass, cache, interestOf, lastEvent, sawHook, sawClose>>
  BY DEF DispatchSpan
<1>4. /\ pending'[t] = << >> /\ fmap'[t] = DefaultMap /\ fpass'[t] = 0
      /\ ~debugFail'
      /\ Top(t).expect = PlainLeaves \cup Forwarded(fmap[t])
  BY Zenon, <1>1, <1>3, DispatchFacts
     DEF TypeInv, TypeOK, ChainInv, NoDebugAssertionFailure
<1>5. \A u \in Threads : FilterStateInv(u)'
  <2>1. FilterStateInv(t)'
    <3>1. icell'[t] = None /\ ipass'[t] = 0
      BY <1>3 DEF ChainInv, FilterStateInv
    <3>2. Len(pending'[t]) = 0
      BY <1>4, EmptySeq
    <3>3. Len(pending'[t]) <= 1
      BY <3>2
    <3>4. QED
      BY <1>4, <3>1, <3>3, Zenon DEF FilterStateInv
  <2>2. ASSUME NEW u \in Threads \ {t} PROVE FilterStateInv(u)'
    <3>1. /\ pending'[u] = pending[u] /\ fmap'[u] = fmap[u]
          /\ fpass'[u] = fpass[u]
      BY <1>3 DEF TypeInv, TypeOK
    <3>2. icell'[u] = icell[u] /\ ipass'[u] = ipass[u]
      BY <1>3
    <3>3. FilterStateInv(u)
      BY DEF ChainInv
    <3>4. QED
      BY Zenon, <3>1, <3>2, <3>3 DEF FilterStateInv, Top
  <2>3. QED
    BY <2>1, <2>2
<1>6. MapClearBetweenPasses'
  BY Zenon, <1>3, <1>4 DEF ChainInv, MapClearBetweenPasses, TypeInv, TypeOK
<1>7. UnusedSpanUnseen'
  BY <1>2 DEF ChainInv, UnusedSpanUnseen, TypeInv, TypeOK
<1>8. SpanDeliveryMatchesFilter'
  <2>1. SUFFICES ASSUME NEW s2 \in Spans, NEW i \in F, spanState'[s2] # "unused"
                 PROVE  s2 \in sawNew'[i] <=> i \in spanExpect'[s2]
    BY DEF SpanDeliveryMatchesFilter
  <2>2. CASE s2 = s
    <3>1. s \notin sawNew[i]
      BY <1>2 DEF ChainInv, UnusedSpanUnseen
    <3>2. spanExpect'[s] = PlainLeaves \cup Forwarded(fmap[t])
      BY Zenon, <1>2, <1>4 DEF TypeInv, TypeOK
    <3>3. i \notin PlainLeaves
      BY DEF PlainLeaves
    <3>4. QED
      BY <1>2, <2>2, <3>1, <3>2, <3>3
  <2>3. CASE s2 # s
    <3>1. /\ spanState'[s2] = spanState[s2]
          /\ spanExpect'[s2] = spanExpect[s2]
          /\ (s2 \in sawNew'[i] <=> s2 \in sawNew[i])
      BY Zenon, <1>2, <2>3 DEF TypeInv, TypeOK
    <3>2. QED
      BY <2>1, <3>1 DEF ChainInv, SpanDeliveryMatchesFilter
  <2>4. QED
    BY <2>2, <2>3
<1>9. QED
  BY <1>3, <1>4, <1>5, <1>6, <1>7, <1>8
     DEF ChainInv, AlwaysCacheSound, EventDeliveryMatchesFilter,
         NoDebugAssertionFailure

\* The span callbacks (record, enter, exit, follows_from, clone_span,
\* try_close) touch neither FilterState, the callsite cache, the events,
\* nor what a layer was told at new_span; a close keeps a span handed out.
LEMMA ChainSpanCallback ==
  ASSUME TypeInv, ChainInv, NEW s \in Spans,
         \/ OnSpanHook(s) \/ CloneSpan(s) \/ TryClose(s)
         \/ \E f \in Spans : FollowsFrom(s, f)
  PROVE  ChainInv'
<1>1. /\ UNCHANGED <<filterVars, cache, interestOf, pending, spanMap,
                     lastEvent, spanExpect, sawNew, debugFail>>
      /\ \A s2 \in Spans : spanState'[s2] = "unused" <=> spanState[s2] = "unused"
  BY DEF OnSpanHook, CloneSpan, TryClose, FollowsFrom, registryVars, ghostVars,
         TypeInv, TypeOK
<1>2. \A u \in Threads : FilterStateInv(u)'
  BY <1>1 DEF ChainInv, FilterStateInv, Top, filterVars
<1>3. QED
  BY <1>1, <1>2
     DEF ChainInv, AlwaysCacheSound, UnusedSpanUnseen, MapClearBetweenPasses,
         EventDeliveryMatchesFilter, SpanDeliveryMatchesFilter,
         NoDebugAssertionFailure, filterVars

\* The initial state: every FilterState at rest, nothing cached, no span.
LEMMA ChainInit == Init => ChainInv
<1> SUFFICES ASSUME Init PROVE ChainInv
  OBVIOUS
<1>1. \A t \in Threads : FilterStateInv(t)
  <2> SUFFICES ASSUME NEW t \in Threads PROVE FilterStateInv(t)
    OBVIOUS
  <2>1. Len(<< >>) = 0
    BY EmptySeq
  <2>2. pending[t] = << >> /\ fpass[t] = 0
    BY DEF Init
  <2>3. icell[t] = None /\ ipass[t] = 0
    BY DEF Init
  <2>4. Len(pending[t]) <= 1
    BY <2>1, <2>2
  <2>5. QED
    BY <2>2, <2>3, <2>4, Zenon DEF FilterStateInv
<1>2. AlwaysCacheSound
  BY NoneAssumption DEF Init, AlwaysCacheSound, Interests
<1>3. QED
  BY <1>1, <1>2
     DEF Init, ChainInv, UnusedSpanUnseen, MapClearBetweenPasses,
         EventDeliveryMatchesFilter, SpanDeliveryMatchesFilter,
         NoDebugAssertionFailure

\* Every step keeps ChainInv on a chain of ChainHypotheses.
LEMMA ChainStep ==
  ASSUME ChainHypotheses
  PROVE  TypeInv /\ ChainInv /\ [Next]_vars => ChainInv'
<1> SUFFICES ASSUME TypeInv, ChainInv, [Next]_vars PROVE ChainInv'
  OBVIOUS
<1>1. ASSUME NEW t \in Threads, NEW c \in Callsites, RegisterCallsite(t, c)
      PROVE  ChainInv'
  BY <1>1, ChainRegister
<1>2. ASSUME NEW t \in Threads, NEW c \in Callsites, CheckEnabled(t, c)
      PROVE  ChainInv'
  BY <1>2, ChainCheck
<1>3. ASSUME NEW t \in Threads, NEW c \in Callsites, SkipEnabled(t, c)
      PROVE  ChainInv'
  BY <1>3, ChainSkip
<1>4. ASSUME NEW t \in Threads, DispatchEvent(t) PROVE ChainInv'
  BY <1>4, ChainDispatchEvent
<1>5. ASSUME NEW t \in Threads, DispatchSpan(t) PROVE ChainInv'
  BY <1>5, ChainDispatchSpan
<1>6. ASSUME NEW s \in Spans,
             \/ OnSpanHook(s) \/ CloneSpan(s) \/ TryClose(s)
             \/ \E f \in Spans : FollowsFrom(s, f)
      PROVE  ChainInv'
  BY <1>6, ChainSpanCallback
<1>7. CASE UNCHANGED vars
  BY <1>7 DEF vars, filterVars, registryVars, ghostVars, ChainInv,
              FilterStateInv, Top, AlwaysCacheSound, UnusedSpanUnseen,
              MapClearBetweenPasses, EventDeliveryMatchesFilter,
              SpanDeliveryMatchesFilter, NoDebugAssertionFailure
<1>8. QED
  BY <1>1, <1>2, <1>3, <1>4, <1>5, <1>6, <1>7 DEF Next

\* On every chain whose plain layers are outside its Filtered layers, whose
\* FilterMap has a bit no filter owns, and on which no callsite is filtered
\* while another of the same thread is pending, FilterState
\* (set, did_enable, add_interest, take_interest) and Layered's enabled,
\* register_callsite, event and new_span keep ChainInv at every step, on
\* every thread and whatever the filters answer.
THEOREM ChainInvariant ==
  ASSUME ChainHypotheses
  PROVE  Spec => [](TypeInv /\ ChainInv)
<1>1. Init => TypeInv /\ ChainInv
  BY TypeInit, ChainInit
<1>2. TypeInv /\ ChainInv /\ [Next]_vars => TypeInv' /\ ChainInv'
  BY TypeStep, ChainStep
<1>3. QED
  BY <1>1, <1>2, PTL DEF Spec

\* Filtered::on_event forwards an event to a Filtered layer's inner layer
\* exactly when that layer's filter enabled it, and every plain layer sees
\* every event no plain layer vetoed (the property
\* EventDeliveryMatchesFilter the runs check), on every chain of
\* ChainHypotheses.
THEOREM EventDeliveryCorrect ==
  ASSUME ChainHypotheses
  PROVE  Spec => []EventDeliveryMatchesFilter
BY ChainInvariant, PTL DEF ChainInv

\* Filtered::new_span tells a Filtered layer's inner layer of a span
\* exactly when its filter enabled it (the property
\* SpanDeliveryMatchesFilter the runs check), on every chain of
\* ChainHypotheses.
THEOREM SpanDeliveryCorrect ==
  ASSUME ChainHypotheses
  PROVE  Spec => []SpanDeliveryMatchesFilter
BY ChainInvariant, PTL DEF ChainInv

\* did_enable clears every bit before the next pass (the property
\* MapClearBetweenPasses the runs check), on every chain of
\* ChainHypotheses.
THEOREM MapClearCorrect ==
  ASSUME ChainHypotheses
  PROVE  Spec => []MapClearBetweenPasses
BY ChainInvariant, PTL DEF ChainInv

\* No debug_assert! of FilterState (set, did_enable, filter_map,
\* add_interest, take_interest) fails (the property
\* NoDebugAssertionFailure the runs check), on every chain of
\* ChainHypotheses.
THEOREM NoDebugFailureCorrect ==
  ASSUME ChainHypotheses
  PROVE  Spec => []NoDebugAssertionFailure
BY ChainInvariant, PTL DEF ChainInv

=============================================================================
