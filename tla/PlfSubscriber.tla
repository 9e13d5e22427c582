---------------------------- MODULE PlfSubscriber ----------------------------
(***************************************************************************)
(* A subscriber built as a chain of Layered over the Registry:             *)
(*                                                                         *)
(*   Layered(L1, Layered(L2, ... Layered(LN, Registry)))                   *)
(*                                                                         *)
(* where each layer Li is either a plain layer or a Filtered layer (a      *)
(* layer with a per-layer filter, PLF).  Layers[i] gives the kind of Li,   *)
(* outermost first.  The module models the thread-local FilterState, the   *)
(* callsite interest pass (register_callsite), the filter pass (enabled),  *)
(* the dispatch of events and spans to the layers, and the later span      *)
(* callbacks, which consult the FilterMap the Registry stored at new_span. *)
(*                                                                         *)
(* Sources: src/tracing-subscriber/src/layer/layered.rs (Layered) and      *)
(* src/tracing-subscriber/src/filter/layer_filters.rs (Filtered,           *)
(* FilterState).  The Registry, the callsite cache of tracing-core and the *)
(* producer macros are not in src/ and are modelled from the spec.         *)
(*                                                                         *)
(* The user code in the picture (what a filter or a plain layer answers)   *)
(* is a nondeterministic choice, constrained by the Filter contract: a     *)
(* layer whose callsite interest is always (never) enables (disables)      *)
(* every event of that callsite.                                           *)
(***************************************************************************)
EXTENDS FilterMap, Naturals, Sequences, FiniteSets

CONSTANTS
  Layers,          \* kinds of the layers of the chain, outermost first
  FilterIdOf,      \* the FilterId each Filtered layer got at on_register
  Threads,         \* OS threads emitting events (one FilterState each)
  EventCallsites,  \* callsites of events
  SpanCallsites,   \* callsites of spans
  Spans,           \* span ids the Registry may hand out
  None,            \* the empty Option: no interest, unregistered callsite
  MaxDepth,        \* bound: callsites in flight on one thread
  MaxRefs,         \* bound: handles (clones) of one span
  PassCounterBound \* bound: the debug pass counters

N == Len(Layers)
Leaves == 1 .. N
FilteredLeaves == {i \in Leaves : Layers[i] = "filtered"}
PlainLeaves == Leaves \ FilteredLeaves
Callsites == EventCallsites \cup SpanCallsites
Interests == {"always", "sometimes", "never"}

ASSUME LayersAssumption == Layers \in Seq({"plain", "filtered"})
\* Registry::register_filter hands out distinct ids; FilterId::new panics
\* past the width of the map, so a constructed subscriber has them all below.
ASSUME FilterIdAssumption ==
  /\ FilterIdOf \in [FilteredLeaves -> FilterIds]
  /\ \A i, j \in FilteredLeaves : FilterIdOf[i] = FilterIdOf[j] => i = j
ASSUME CallsiteAssumption == EventCallsites \cap SpanCallsites = {}
ASSUME NoneAssumption == None \notin Interests
ASSUME BoundsAssumption ==
  /\ MaxDepth \in Nat /\ MaxRefs \in Nat /\ PassCounterBound \in Nat

Frame == [cs : Callsites, expect : SUBSET Leaves]

VARIABLES
  fmap,       \* FilterState.enabled of each thread
  icell,      \* FilterState.interest of each thread
  fpass,      \* FilterState.in_current_filter_pass (debug builds)
  ipass,      \* FilterState.in_current_interest_pass (debug builds)
  cache,      \* the interest each callsite cached at registration, or None
  interestOf, \* what each layer's register_callsite / callsite_enabled says
  pending,    \* per thread: callsites whose enabled() passed, not dispatched
  spanState,  \* Registry: "unused", "live" or "closed"
  refs,       \* Registry: handles of each span
  spanMap,    \* Registry: the FilterMap stored with each span at new_span
  \* history variables, only for the properties
  lastEvent,  \* per thread: the layers that should see and that did see
              \* the last event whose fate was decided
  spanExpect, \* the layers that should see each span
  sawNew,     \* per Filtered layer: spans its inner layer saw new_span for
  sawHook,    \* ... saw on_record / on_enter / on_exit / on_follows_from for
  sawClose,   \* ... saw on_close for
  debugFail   \* a debug_assert! of FilterState has failed

filterVars == <<fmap, icell, fpass, ipass>>
registryVars == <<spanState, refs, spanMap>>
ghostVars == <<lastEvent, spanExpect, sawNew, sawHook, sawClose, debugFail>>
vars == <<filterVars, cache, interestOf, pending, registryVars, ghostVars>>

\* The callsite thread t is about to dispatch: the innermost one in flight.
Top(t) == pending[t][Len(pending[t])]

-----------------------------------------------------------------------------
(* What the user code may answer.                                          *)

\* Filter::enabled (or a plain Layer::enabled) for a callsite, as allowed by
\* the interest its callsite_enabled / register_callsite gave that callsite.
Verdicts(io) == IF io = "always" THEN {TRUE}
                ELSE IF io = "never" THEN {FALSE} ELSE BOOLEAN

-----------------------------------------------------------------------------
(* Layered's flags for the node Layered(L_j, <rest of the chain>).         *)

\* has_layer_filter = layer_has_plf(L_j): only a Filtered answers the marker.
HasLayerFilter(j) == j \in FilteredLeaves

\* inner_has_layer_filter: subscriber_has_plf(inner), which is true when a
\* Filtered layer is anywhere inside (Layered's Subscriber::downcast_raw
\* asks both halves), or inner_is_registry.
InnerHasLayerFilter(j) == j = N \/ \E k \in FilteredLeaves : k > j

-----------------------------------------------------------------------------
(* FilterState::add_interest over the interests the Filtered layers of one *)
(* pass add: equal interests stay, differing ones become sometimes.        *)
\* Mutant: a later interest never changes the first one stored.
AddInterestsFirstWins(cell, added) ==
  IF cell # None THEN cell
  ELSE IF added = {} THEN None ELSE CHOOSE x \in added : TRUE

AddInterests(cell, added) ==
  LET all == added \cup (IF cell = None THEN {} ELSE {cell})
  IN IF all = {} THEN None
     ELSE IF \E x \in all : all = {x} THEN CHOOSE x \in all : TRUE
     ELSE "sometimes"

\* Mutant: pick_interest without the rule that turns an inner never into
\* sometimes when the inner has per-layer filters.
ChainInterestNoSoften(io, regResult) ==
  LET deciders == {j \in Leaves : ~HasLayerFilter(j) /\ io[j] # "always"}
      first(j) == j \in deciders /\ \A k \in deciders : j <= k
  IN IF deciders = {} THEN regResult
     ELSE IF \E j \in deciders : first(j) /\ io[j] = "never"
          THEN "never" ELSE "sometimes"

(* Layered::pick_interest along the chain, given what the Registry returns *)
(* (regResult).  A Filtered node defers to its inner; a plain layer saying *)
(* never or sometimes returns it at once; a plain layer saying always      *)
(* passes its inner's answer on, except that an inner never becomes        *)
(* sometimes when the inner has per-layer filters.                         *)
ChainInterest(io, regResult) ==
  LET deciders == {j \in Leaves : ~HasLayerFilter(j) /\ io[j] # "always"}
      first(j) == j \in deciders /\ \A k \in deciders : j <= k
      decided == IF deciders = {} THEN regResult
                 ELSE IF \E j \in deciders : first(j) /\ io[j] = "never"
                      THEN "never" ELSE "sometimes"
      softened == \E j \in Leaves :
                    /\ ~HasLayerFilter(j) /\ InnerHasLayerFilter(j)
                    /\ \A k \in deciders : j < k
  IN IF decided = "never" /\ softened THEN "sometimes" ELSE decided

-----------------------------------------------------------------------------
(* Dispatch of a new span or an event: Layered calls inner before layer,   *)
(* so every Filtered layer runs FilterState::did_enable, innermost first.  *)

\* Mutant: the inner layer is called without consulting the map.
ForwardedUnfiltered(map) == FilteredLeaves

\* The Filtered layers did_enable lets through: their bit is clear.
Forwarded(map) == {i \in FilteredLeaves : IsEnabled(map, FilterIdOf[i])}

\* Mutant: did_enable does not reset the bit of a layer it skipped.
ClearedMapKeepsDisabled(map) == map

\* did_enable leaves every Filtered layer's bit clear.
ClearedMap(map) == map \ {FilterIdOf[i] : i \in FilteredLeaves}

\* Mutant: the layers' new_span runs before the Registry reads the map.
FilterMapSnapshotCleared(map) == ClearedMap(map)

\* FilterState::filter_map(), read by the Registry's new_span before any
\* layer's new_span has run (Layered calls inner first).
FilterMapSnapshot(map) == map

\* Mutant: a plain subtraction instead of saturating_sub.
DrainedCountWrapping(c) == c - Cardinality(FilteredLeaves)

\* in_current_filter_pass after one saturating_sub per Filtered layer.
DrainedCount(c) ==
  IF c > Cardinality(FilteredLeaves) THEN c - Cardinality(FilteredLeaves) ELSE 0

\* Mutant: did_enable's assertion fires one step too early.
DidEnableAssertFailsLoose(t, map, c) ==
  \/ FilteredLeaves # {} /\ ipass[t] # 0
  \/ \E j \in FilteredLeaves :
       /\ c - Cardinality({l \in FilteredLeaves : l > j}) <= 2
       /\ map \ {FilterIdOf[l] : l \in {k \in FilteredLeaves : k >= j}} # DefaultMap

\* did_enable's debug assertions: no interest pass in progress, and the map
\* is the default once the counter it read is at most 1.
DidEnableAssertFails(t, map, c) ==
  \/ FilteredLeaves # {} /\ ipass[t] # 0
  \/ \E j \in FilteredLeaves :
       /\ c - Cardinality({l \in FilteredLeaves : l > j}) <= 1
       /\ map \ {FilterIdOf[l] : l \in {k \in FilteredLeaves : k >= j}} # DefaultMap

-----------------------------------------------------------------------------
Init ==
  /\ fmap = [t \in Threads |-> DefaultMap]
  /\ icell = [t \in Threads |-> None]
  /\ fpass = [t \in Threads |-> 0]
  /\ ipass = [t \in Threads |-> 0]
  /\ cache = [cs \in Callsites |-> None]
  /\ interestOf \in [Callsites -> [Leaves -> Interests]]
  /\ pending = [t \in Threads |-> << >>]
  /\ spanState = [s \in Spans |-> "unused"]
  /\ refs = [s \in Spans |-> 0]
  /\ spanMap = [s \in Spans |-> DefaultMap]
  /\ lastEvent = [t \in Threads |-> [expect |-> {}, got |-> {}]]
  /\ spanExpect = [s \in Spans |-> {}]
  /\ sawNew = [i \in FilteredLeaves |-> {}]
  /\ sawHook = [i \in FilteredLeaves |-> {}]
  /\ sawClose = [i \in FilteredLeaves |-> {}]
  /\ debugFail = FALSE

(***************************************************************************)
(* Interest pass: the first use of callsite cs on thread t registers it.   *)
(* Layered::register_callsite runs pick_interest at every node; the nodes  *)
(* below a plain layer that says never are not asked.  Every Filtered      *)
(* layer asked adds its filter's callsite_enabled to the thread's interest *)
(* cell (FilterState::add_interest) and answers always; the Registry, when *)
(* reached, takes the cell (FilterState::take_interest, always if empty).  *)
(***************************************************************************)
RegisterCallsite(t, cs) ==
  LET io == interestOf[cs]
      stops(j) == j \in PlainLeaves /\ io[j] = "never"
      asked == {i \in FilteredLeaves : \A l \in Leaves : l < i => ~stops(l)}
      reached == \A l \in Leaves : ~stops(l)
      cell == AddInterests(icell[t], {io[i] : i \in asked})
      count == ipass[t] + Cardinality(asked)
      regResult == IF cell = None THEN "always" ELSE cell
  IN /\ cache[cs] = None
     /\ count <= PassCounterBound
     /\ cache' = [cache EXCEPT ![cs] = ChainInterest(io, regResult)]
     /\ icell' = [icell EXCEPT ![t] = IF reached THEN None ELSE cell]
     /\ ipass' = [ipass EXCEPT ![t] = IF reached THEN 0 ELSE count]
     /\ debugFail' = \/ debugFail
                     \/ asked # {} /\ ipass[t] = 0 /\ icell[t] # None
                     \/ reached /\ count = 0 /\ cell # None
     /\ UNCHANGED <<fmap, fpass, interestOf, pending, registryVars,
                    lastEvent, spanExpect, sawNew, sawHook, sawClose>>

\* Filtered::enabled of every asked layer, in turn: FilterState::set clears
\* the layer's bit when its filter enabled, sets it when it disabled.
SetVerdicts(map, asked, v) ==
  (map \ {FilterIdOf[i] : i \in {k \in asked : v[k]}})
    \cup {FilterIdOf[i] : i \in {k \in asked : ~v[k]}}

\* FilterState::set's debug assertions: a filter pass starts from the
\* default map, and no interest pass is in progress.
SetAssertFails(t, asked) ==
  /\ asked # {}
  /\ \/ fpass[t] = 0 /\ fmap[t] # DefaultMap
     \/ ipass[t] # 0

\* Mutant: the Registry enables only what no filter disabled.
EventEnabledNoneDisabled(map) == map = DefaultMap

\* FilterState::event_enabled, the Registry's enabled: some filter enabled.
EventEnabled(map) == AnyEnabled(map)

(***************************************************************************)
(* Filter pass: a callsite whose interest is sometimes asks enabled().     *)
(* Layered::enabled asks layer then inner and stops at the first layer     *)
(* that says false; a Filtered layer records its filter's verdict with     *)
(* FilterState::set and says true; the Registry, when reached, answers     *)
(* FilterState::event_enabled.  When the answer is true the producer goes  *)
(* on to dispatch (after evaluating the fields, which may emit more).      *)
(***************************************************************************)
CheckEnabled(t, cs) ==
  /\ cache[cs] = "sometimes"
  /\ Len(pending[t]) < MaxDepth
  /\ \E v \in [Leaves -> BOOLEAN] :
       LET stops(j) == j \in PlainLeaves /\ ~v[j]
           asked == {i \in FilteredLeaves : \A l \in Leaves : l < i => ~stops(l)}
           reached == \A l \in Leaves : ~stops(l)
           map == SetVerdicts(fmap[t], asked, v)
           count == fpass[t] + Cardinality(asked)
           enabled == reached /\ EventEnabled(map)
           \* plain layers filter for everyone, Filtered ones for themselves
           expect == IF reached
                     THEN PlainLeaves \cup {i \in FilteredLeaves : v[i]}
                     ELSE {}
       IN /\ \A j \in Leaves : v[j] \in Verdicts(interestOf[cs][j])
          /\ count <= PassCounterBound
          /\ fmap' = [fmap EXCEPT ![t] = map]
          /\ fpass' = [fpass EXCEPT ![t] =
                         IF reached /\ ~EventEnabled(map) THEN 0 ELSE count]
          /\ pending' = IF enabled
                        THEN [pending EXCEPT ![t] = Append(@,
                               [cs |-> cs, expect |-> expect])]
                        ELSE pending
          /\ lastEvent' = IF ~enabled /\ cs \in EventCallsites
                          THEN [lastEvent EXCEPT ![t] =
                                  [expect |-> expect, got |-> {}]]
                          ELSE lastEvent
          /\ debugFail' = \/ debugFail
                          \/ SetAssertFails(t, asked)
                          \/ reached /\ count = 0 /\ map # DefaultMap
  /\ UNCHANGED <<icell, ipass, cache, interestOf, registryVars,
                 spanExpect, sawNew, sawHook, sawClose>>

(***************************************************************************)
(* A callsite whose interest is always skips enabled() and is dispatched   *)
(* straight away: every filter promised to enable it.                      *)
(***************************************************************************)
SkipEnabled(t, cs) ==
  /\ cache[cs] = "always"
  /\ Len(pending[t]) < MaxDepth
  /\ pending' = [pending EXCEPT ![t] = Append(@,
                   [cs |-> cs,
                    expect |-> PlainLeaves \cup
                               {i \in FilteredLeaves :
                                  interestOf[cs][i] = "always"}])]
  /\ UNCHANGED <<filterVars, cache, interestOf, registryVars, ghostVars>>

(***************************************************************************)
(* Subscriber::event: the Registry records nothing; each Filtered layer    *)
(* forwards on_event when its bit is clear and clears it otherwise.        *)
(***************************************************************************)
DispatchEvent(t) ==
  /\ pending[t] # << >>
  /\ Top(t).cs \in EventCallsites
  /\ fmap' = [fmap EXCEPT ![t] = ClearedMap(fmap[t])]
  /\ fpass' = [fpass EXCEPT ![t] = DrainedCount(fpass[t])]
  /\ pending' = [pending EXCEPT ![t] = SubSeq(@, 1, Len(@) - 1)]
  /\ lastEvent' = [lastEvent EXCEPT ![t] =
                     [expect |-> Top(t).expect,
                      got |-> PlainLeaves \cup Forwarded(fmap[t])]]
  /\ debugFail' = (debugFail \/ DidEnableAssertFails(t, fmap[t], fpass[t]))
  /\ UNCHANGED <<icell, ipass, cache, interestOf, registryVars,
                 spanExpect, sawNew, sawHook, sawClose>>

(***************************************************************************)
(* Subscriber::new_span: the Registry allocates the span and stores        *)
(* FilterState::filter_map() with it, then each Filtered layer forwards    *)
(* new_span when its bit is clear (did_enable).                            *)
(***************************************************************************)
DispatchSpan(t) ==
  /\ pending[t] # << >>
  /\ Top(t).cs \in SpanCallsites
  /\ \E s \in Spans :
       /\ spanState[s] = "unused"
       /\ spanState' = [spanState EXCEPT ![s] = "live"]
       /\ refs' = [refs EXCEPT ![s] = 1]
       /\ spanMap' = [spanMap EXCEPT ![s] = FilterMapSnapshot(fmap[t])]
       /\ spanExpect' = [spanExpect EXCEPT ![s] = Top(t).expect]
       /\ sawNew' = [i \in FilteredLeaves |->
                       IF i \in Forwarded(fmap[t]) THEN sawNew[i] \cup {s}
                       ELSE sawNew[i]]
  /\ fmap' = [fmap EXCEPT ![t] = ClearedMap(fmap[t])]
  /\ fpass' = [fpass EXCEPT ![t] = DrainedCount(fpass[t])]
  /\ pending' = [pending EXCEPT ![t] = SubSeq(@, 1, Len(@) - 1)]
  /\ debugFail' = \/ debugFail
                  \/ fpass[t] = 0 /\ fmap[t] # DefaultMap
                  \/ DidEnableAssertFails(t, fmap[t], fpass[t])
  /\ UNCHANGED <<icell, ipass, cache, interestOf, lastEvent, sawHook, sawClose>>

(***************************************************************************)
(* Span callbacks.  They carry a span id and may come from any thread;     *)
(* each Filtered layer forwards only when the FilterMap stored with the    *)
(* span has its bit clear (Context::if_enabled_for).                       *)
(***************************************************************************)
\* The Filtered layers that see a callback about span s.
EnabledFor(s) == Forwarded(spanMap[s])

\* record, enter and exit: Layered forwards to inner, then to layer.
OnSpanHook(s) ==
  /\ spanState[s] = "live"
  /\ sawHook' = [i \in FilteredLeaves |->
                   IF i \in EnabledFor(s) THEN sawHook[i] \cup {s} ELSE sawHook[i]]
  /\ UNCHANGED <<filterVars, cache, interestOf, pending, registryVars,
                 lastEvent, spanExpect, sawNew, sawClose, debugFail>>

\* record_follows_from: only when both spans are enabled for the layer.
FollowsFrom(s, f) ==
  /\ spanState[s] = "live" /\ spanState[f] = "live"
  /\ sawHook' = [i \in FilteredLeaves |->
                   IF i \in EnabledFor(s) \cap EnabledFor(f)
                   THEN sawHook[i] \cup {s, f} ELSE sawHook[i]]
  /\ UNCHANGED <<filterVars, cache, interestOf, pending, registryVars,
                 lastEvent, spanExpect, sawNew, sawClose, debugFail>>

\* clone_span: the Registry hands back the same id, so on_id_change is not
\* called; only the count of handles grows.
CloneSpan(s) ==
  /\ spanState[s] = "live"
  /\ refs[s] < MaxRefs
  /\ refs' = [refs EXCEPT ![s] = @ + 1]
  /\ UNCHANGED <<filterVars, cache, interestOf, pending, spanState, spanMap,
                 ghostVars>>

\* Mutant: no close guard.  The Registry frees the span's data when its
\* last handle goes, before the layers' on_close, so the lookup of
\* Context::if_enabled_for finds no span for any layer.
ClosedForNoGuard(s) == {}

\* The Filtered layers on_close reaches (Filtered::on_close through
\* Context::if_enabled_for).  Layered::try_close takes the Registry's close
\* guard (start_close) before the inner try_close and marks it closing, so
\* the span's data, with its stored FilterMap, outlives every on_close.
ClosedFor(s) == EnabledFor(s)

\* try_close: the Registry drops a handle; when it was the last one the span
\* closes and each layer gets on_close, while the Registry's close guard
\* still holds the span's data.
TryClose(s) ==
  /\ spanState[s] = "live"
  /\ refs' = [refs EXCEPT ![s] = @ - 1]
  /\ IF refs[s] = 1
     THEN /\ spanState' = [spanState EXCEPT ![s] = "closed"]
          /\ sawClose' = [i \in FilteredLeaves |->
                            IF i \in ClosedFor(s) THEN sawClose[i] \cup {s}
                            ELSE sawClose[i]]
     ELSE UNCHANGED <<spanState, sawClose>>
  /\ UNCHANGED <<filterVars, cache, interestOf, pending, spanMap,
                 lastEvent, spanExpect, sawNew, sawHook, debugFail>>

Next ==
  \/ \E t \in Threads, cs \in Callsites :
       \/ RegisterCallsite(t, cs)
       \/ CheckEnabled(t, cs)
       \/ SkipEnabled(t, cs)
  \/ \E t \in Threads : DispatchEvent(t) \/ DispatchSpan(t)
  \/ \E s \in Spans :
       \/ OnSpanHook(s)
       \/ CloneSpan(s)
       \/ TryClose(s)
       \/ \E f \in Spans : FollowsFrom(s, f)

Spec == Init /\ [][Next]_vars

-----------------------------------------------------------------------------
(* Properties.                                                             *)

TypeOK ==
  /\ fmap \in [Threads -> FilterMaps]
  /\ icell \in [Threads -> Interests \cup {None}]
  /\ fpass \in [Threads -> Nat]
  /\ ipass \in [Threads -> Nat]
  /\ cache \in [Callsites -> Interests \cup {None}]
  /\ interestOf \in [Callsites -> [Leaves -> Interests]]
  /\ pending \in [Threads -> Seq(Frame)]
  /\ spanState \in [Spans -> {"unused", "live", "closed"}]
  /\ refs \in [Spans -> Nat]
  /\ spanMap \in [Spans -> FilterMaps]
  /\ lastEvent \in [Threads -> [expect : SUBSET Leaves, got : SUBSET Leaves]]
  /\ spanExpect \in [Spans -> SUBSET Leaves]
  /\ sawNew \in [FilteredLeaves -> SUBSET Spans]
  /\ sawHook \in [FilteredLeaves -> SUBSET Spans]
  /\ sawClose \in [FilteredLeaves -> SUBSET Spans]
  /\ debugFail \in BOOLEAN

\* Per-layer filtering of events (Layered::enabled, Filtered::on_event): for
\* the last event decided on each thread, a plain layer's veto drops it for
\* everyone; otherwise every plain layer sees it and the inner layer of a
\* Filtered layer sees it exactly when its own filter enabled it, whatever
\* the other filters said.
EventDeliveryMatchesFilter ==
  \A t \in Threads : lastEvent[t].got = lastEvent[t].expect

\* Per-layer filtering of spans (Filtered::new_span): the inner layer of a
\* Filtered layer is told of a new span exactly when its filter enabled it.
SpanDeliveryMatchesFilter ==
  \A s \in Spans, i \in FilteredLeaves :
    spanState[s] # "unused" => (s \in sawNew[i] <=> i \in spanExpect[s])

\* The span callbacks a Filtered layer forwards later, possibly from other
\* threads (on_record, on_enter, on_exit, on_follows_from, on_close), agree
\* with what it forwarded at new_span: its inner layer never hears of a span
\* it was not told of, and hears on_close of exactly the spans it was told
\* of once they close.
SpanViewConsistent ==
  \A i \in FilteredLeaves :
    /\ sawHook[i] \subseteq sawNew[i]
    /\ sawClose[i] = {s \in sawNew[i] : spanState[s] = "closed"}

\* The callsite cache never hides an event a layer would take: a callsite
\* is cached as never (and so never asked about again) only if every event
\* of it, whatever the filters answer within their interests, reaches no
\* layer: some plain layer never enables it (Layered::enabled then stops
\* the whole chain), or there is no plain layer and every filter disables
\* it.
NeverInterestSound ==
  \A cs \in Callsites :
    cache[cs] = "never" =>
      \/ \E j \in PlainLeaves : interestOf[cs][j] = "never"
      \/ PlainLeaves = {} /\ \A i \in FilteredLeaves : interestOf[cs][i] = "never"

\* Between passes (no span or event of the thread is between enabled() and
\* its dispatch) the thread's FilterMap has every bit clear, so the next
\* pass starts from FilterMap::default() (spec.md, section 8, invariant 1;
\* the comment on FilterState: "it unsets its bit, so that the FilterMap
\* has been cleared for the next set of enabled calls").
MapClearBetweenPasses ==
  \A t \in Threads : pending[t] = << >> => fmap[t] = DefaultMap

\* FilterState's debug assertions (set, did_enable, event_enabled,
\* filter_map, add_interest, take_interest) never fail: a debug build does
\* not panic.
NoDebugAssertionFailure == ~debugFail

(* Refinement: PlfSubscriber implements PlfSpanView.  A layer's view is  *)
(* what it was told at new_span, what it heard adds the later callbacks,   *)
(* and the spans it was told had closed are those it got on_close for.     *)
View == INSTANCE PlfSpanView WITH
          Filtered <- FilteredLeaves,
          state <- spanState,
          handles <- refs,
          view <- sawNew,
          heard <- [i \in FilteredLeaves |-> sawNew[i] \cup sawHook[i]],
          closedSeen <- sawClose

\* The span callbacks of the whole subscriber (Layered::new_span, record,
\* enter, exit, record_follows_from, clone_span, try_close, and each
\* Filtered layer's did_enable and if_enabled_for on the map the Registry
\* stored) behave as PlfSpanView says: a Filtered layer hears of a span
\* only if it took it at new_span, and on_close reaches exactly the layers
\* that took it, whichever thread makes each call.
ImplementsSpanView == View!Spec

-----------------------------------------------------------------------------
(* Inductive strengthenings, checked by TLC and proved in                  *)
(* PlfSubscriberProofs.                                                    *)

\* A live span holds at least one handle, so try_close never underflows.
RefsInv == \A s \in Spans : spanState[s] = "live" => refs[s] >= 1

TypeInv == TypeOK /\ RefsInv

\* What a Filtered layer was told at new_span is what the stored map says,
\* and no layer has heard of a span the Registry has not handed out.
SpanViewInv ==
  /\ \A s \in Spans, i \in FilteredLeaves :
       /\ spanState[s] = "unused" => s \notin sawNew[i]
       /\ spanState[s] # "unused" => (s \in sawNew[i] <=> i \in EnabledFor(s))
  /\ SpanViewConsistent

-----------------------------------------------------------------------------
(* The chains the per-layer filtering design is correct for.  Each of the  *)
(* violation runs breaks exactly one of these hypotheses; under all three  *)
(* the filter pass and the dispatch of each callsite keep FilterState in   *)
(* step (proved in PlfChainProofs).                                        *)

\* Every plain layer is outside every Filtered layer (a global filter or
\* layer wrapping the per-layer-filtered stack): Layered::enabled stops at
\* a plain veto before any Filtered layer has touched the map.
PlainOutermost == \A j \in PlainLeaves, i \in FilteredLeaves : j < i

\* Some bit of the FilterMap belongs to no filter (fewer than 64 Filtered
\* layers), so FilterMap::any_enabled is true after any filter pass.
FreeFilterBit == \E b \in FilterIds : \A i \in FilteredLeaves : FilterIdOf[i] # b

\* No span or event is filtered while another of the same thread is
\* between enabled() and its dispatch (no emission from field evaluation).
NoNestedDispatch == MaxDepth <= 1

ChainHypotheses == PlainOutermost /\ FreeFilterBit /\ NoNestedDispatch

\* The ids of the chain's filters.
ChainFilterIds == {FilterIdOf[i] : i \in FilteredLeaves}

\* A thread's FilterState under ChainHypotheses: no interest pass is ever
\* left open, and while a callsite is pending its map holds exactly the
\* verdicts of the pass that admitted it, with the pass counter still at
\* the number of filters whenever a bit is set.
FilterStateInv(t) ==
  /\ icell[t] = None /\ ipass[t] = 0
  /\ Len(pending[t]) <= 1
  /\ pending[t] = << >> => fpass[t] = 0
  /\ pending[t] # << >> =>
       /\ fmap[t] \subseteq ChainFilterIds
       /\ fpass[t] \in {0, Cardinality(FilteredLeaves)}
       /\ fmap[t] # DefaultMap => fpass[t] = Cardinality(FilteredLeaves)
       /\ Top(t).expect = PlainLeaves \cup Forwarded(fmap[t])

\* A callsite cached as always is enabled by every filter.
AlwaysCacheSound ==
  \A cs \in Callsites :
    cache[cs] = "always" =>
      \A i \in FilteredLeaves : interestOf[cs][i] = "always"

\* No layer has been told of a span the Registry has not handed out.
UnusedSpanUnseen ==
  \A s \in Spans, i \in FilteredLeaves :
    spanState[s] = "unused" => s \notin sawNew[i]

\* The inductive invariant under ChainHypotheses.
ChainInv ==
  /\ \A t \in Threads : FilterStateInv(t)
  /\ AlwaysCacheSound
  /\ UnusedSpanUnseen
  /\ MapClearBetweenPasses
  /\ EventDeliveryMatchesFilter
  /\ SpanDeliveryMatchesFilter
  /\ NoDebugAssertionFailure

=============================================================================
