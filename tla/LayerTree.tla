----------------------------- MODULE LayerTree -----------------------------
(***************************************************************************)
(* A subscriber whose layers are trees: Layered(T1, Layered(T2, ...       *)
(* Registry)), where each Ti is a layer tree built from plain layers,      *)
(* Option::None, Filtered wrappers (around any layer, a Filtered one       *)
(* included) and Layered nodes used as layers (Layer::and_then).           *)
(*                                                                         *)
(* PlfSubscriber models chains of single layers with several threads and   *)
(* spans; this module models the tree-shaped composition on one thread:    *)
(* the flags Layered::new computes once, the PLF marker downcast that      *)
(* feeds them, the interest pass, the filter pass, the dispatch of events  *)
(* and the max_level_hint combination (pick_level_hint), with the filters  *)
(* LevelFilter and FilterFn.                                               *)
(*                                                                         *)
(* Every walk over the tree is a recursive operator that threads the       *)
(* thread-local FilterState through the calls in the order the code makes  *)
(* them.  This module is for TLC only.                                     *)
(*                                                                         *)
(* Sources: src/tracing-subscriber/src/layer/layered.rs and                *)
(* src/tracing-subscriber/src/filter/layer_filters.rs.  Layer::and_then,   *)
(* the plain layers' own hooks and the Registry are not in src/ and are    *)
(* modelled from the spec.                                                 *)
(***************************************************************************)
EXTENDS FilterMap, LevelHints, Naturals, Sequences, FiniteSets

CONSTANTS
  PlainNames,       \* user layers without a per-layer filter
  FilterNames,      \* per-layer filters, one per Filtered wrapper
  FilterIdOf,       \* the FilterId each Filtered got at on_register
  Subscribers,      \* the subscribers the user code may build
  Callsites,        \* event callsites
  LevelOf,          \* the level of each callsite: 1 = ERROR ... MaxLevel
  PassCounterBound  \* bound: the debug pass counters

\* None (LevelHints) is also the empty interest cell.
Interests == {"always", "sometimes", "never"}

ASSUME FilterIdAssumption ==
  /\ FilterIdOf \in [FilterNames -> FilterIds]
  /\ \A f, g \in FilterNames : FilterIdOf[f] = FilterIdOf[g] => f = g
ASSUME LevelAssumption ==
  /\ LevelOf \in [Callsites -> Levels]
  /\ None \notin Interests
ASSUME BoundAssumption == PassCounterBound \in Nat

VARIABLES
  subscriber, \* the subscriber, built before any callsite registers
  phint,      \* max_level_hint of each plain layer
  fcfg,       \* the configuration of each filter
  filtering,  \* the thread's FilterState: [map, cell, fpass, ipass]
  cache,      \* the interest each callsite cached at registration, or None
  interestOf, \* what each layer and filter answered for each callsite
  \* history variables, only for the properties
  delivered,  \* the last event: its level, who got it, who should have
  debugFail   \* a debug_assert! has failed

vars == <<subscriber, phint, fcfg, filtering, cache, interestOf, delivered, debugFail>>

-----------------------------------------------------------------------------
(* Layer trees.  A node is a record; a subscriber is a sequence of layer   *)
(* trees, outermost first, over the Registry.                              *)

PlainLayer(p) == [k |-> "plain", name |-> p]
\* Option<Layer>::None.  Some(l) behaves as l and is not a node of its own.
NoneLayer == [k |-> "none"]
\* Filtered::new: the wrapped layer and its filter.
FilteredNew(l, f) == [k |-> "filtered", layer |-> l, filter |-> f]

\* layer_has_plf: does downcast_raw(MagicPlfDowncastMarker) answer?  A
\* Filtered answers with its id; a Layered used as a layer answers only
\* when both halves do; Option::None and a plain layer do not.
\* Mutant: a Layered claims the marker when either half has it, as
\* Layered's Subscriber::downcast_raw does.
RECURSIVE LayerHasPlfEither(_)
LayerHasPlfEither(n) ==
  CASE n.k = "filtered" -> TRUE
    [] n.k = "layered" -> LayerHasPlfEither(n.layer) \/ LayerHasPlfEither(n.inner)
    [] OTHER -> FALSE

RECURSIVE LayerHasPlf(_)
LayerHasPlf(n) ==
  CASE n.k = "filtered" -> TRUE
    [] n.k = "layered" -> LayerHasPlf(n.layer) /\ LayerHasPlf(n.inner)
    [] OTHER -> FALSE

\* Layered::new: the flags are computed once, here.  inner_is_registry
\* compares the subscriber type parameter S with Registry, so it is true for
\* every Layered whose S is the Registry, a layer tree's nodes included.
LayeredNew(a, b, innerHas, sIsRegistry) ==
  [k |-> "layered", layer |-> a, inner |-> b,
   has |-> LayerHasPlf(a),
   ihas |-> innerHas \/ sIsRegistry,
   isreg |-> sIsRegistry]

\* Layer::and_then(self, layer): layer goes outside self, and the inner flag
\* is layer_has_plf(self).
AndThen(self, layer, sIsRegistry) ==
  LayeredNew(layer, self, LayerHasPlf(self), sIsRegistry)

\* subscriber_has_plf of the subscriber Layered(sub[i], ...): Layered's
\* Subscriber::downcast_raw asks layer, then inner (or_else); the Registry
\* does not answer the marker.
SubscriberHasPlf(sub, i) == \E j \in i .. Len(sub) : LayerHasPlf(sub[j])

\* The subscriber node Layered(sub[i], rest), built by Layer::with_subscriber.
SubNode(sub, i) ==
  LayeredNew(sub[i], "rest", SubscriberHasPlf(sub, i + 1), i = Len(sub))

\* The plain layers of a tree, each with the filters of the Filtered
\* wrappers around it.
RECURSIVE Receivers(_, _)
Receivers(n, fs) ==
  CASE n.k = "plain" -> {[name |-> n.name, filters |-> fs]}
    [] n.k = "filtered" -> Receivers(n.layer, fs \cup {n.filter})
    [] n.k = "layered" -> Receivers(n.layer, fs) \cup Receivers(n.inner, fs)
    [] OTHER -> {}

Reach(sub) == UNION {Receivers(sub[i], {}) : i \in 1 .. Len(sub)}
UsedPlain(sub) == {r.name : r \in Reach(sub)}
UsedFilters(sub) == UNION {r.filters : r \in Reach(sub)}
\* Plain layers outside every Filtered: their enabled() filters for everyone.
TopPlain(sub) == {r.name : r \in {x \in Reach(sub) : x.filters = {}}}

-----------------------------------------------------------------------------
(* Filters.  A filter is a LevelFilter or a FilterFn; its configuration is *)
(* chosen by the user code when the subscriber is built.                   *)

FilterConfigs ==
  {[kind |-> "level", lvl |-> l] : l \in LevelFilters}
    \cup {[kind |-> "fn", hint |-> h, cb |-> b] : h \in Hints, b \in BOOLEAN}

\* LevelFilter's max_level_hint is Some(self); FilterFn's is the hint given
\* to with_max_level_hint, None by default.
FilterHint(c) == IF c.kind = "level" THEN c.lvl ELSE c.hint

\* Filter::callsite_enabled.  LevelFilter: always at or below its level,
\* never above.  FilterFn: what the with_callsite_filter callback answers,
\* or by default always or never as its predicate answers for an empty
\* context.
FilterInterests(c, lvl) ==
  IF c.kind = "level"
  THEN {IF lvl <= c.lvl THEN "always" ELSE "never"}
  ELSE IF c.cb THEN Interests ELSE {"always", "never"}

\* What an enabled() call may answer, given the interest the same layer or
\* filter gave the callsite.
Verdicts(io) == IF io = "always" THEN {TRUE}
                ELSE IF io = "never" THEN {FALSE} ELSE BOOLEAN

\* Filter::enabled.  LevelFilter compares levels; FilterFn runs its
\* predicate.
FilterVerdicts(c, lvl, io) ==
  IF c.kind = "level" THEN {lvl <= c.lvl} ELSE Verdicts(io)

\* FilterFn's debug assertions in enabled and callsite_enabled: it must not
\* let through a level above its own max_level_hint.
FnAssertFails(c, lvl, letThrough) ==
  c.kind = "fn" /\ letThrough /\ Above(c.hint, lvl)

\* A plain layer keeps to its own max_level_hint (the Layer contract).
PlainInterests(h, lvl) == IF Above(h, lvl) THEN {"never"} ELSE Interests
PlainVerdicts(h, lvl, io) == IF Above(h, lvl) THEN {FALSE} ELSE Verdicts(io)

-----------------------------------------------------------------------------
(* The thread's FilterState, threaded through a walk as a record with the  *)
(* debug flag: [map, cell, fpass, ipass, fail].                            *)

\* FilterState::add_interest with its debug assertion.
AddInterest(st, x) ==
  [st EXCEPT
     !.cell = IF @ = None THEN x
              ELSE IF (@ = "always" /\ x # "always") \/ (@ = "never" /\ x # "never")
                   THEN "sometimes" ELSE @,
     !.ipass = @ + 1,
     !.fail = @ \/ (st.ipass = 0 /\ st.cell # None)]

\* FilterState::take_interest, called by the Registry's register_callsite.
TakeInterest(st) ==
  [st EXCEPT !.cell = None, !.ipass = 0,
             !.fail = @ \/ (st.ipass = 0 /\ st.cell # None)]

\* FilterState::set with its debug assertions.
SetVerdict(st, id, e) ==
  [st EXCEPT !.map = IF e THEN @ \ {id} ELSE @ \cup {id},
             !.fpass = @ + 1,
             !.fail = @ \/ (st.fpass = 0 /\ st.map # DefaultMap) \/ st.ipass # 0]

\* Mutant: a plain decrement instead of saturating_sub.
DidEnableCountWrapping(st) ==
  [st EXCEPT !.fpass = @ - 1,
             !.fail = @ \/ (st.fpass <= 1 /\ st.map # DefaultMap) \/ st.ipass # 0]

\* The tail of FilterState::did_enable: the counter drops by one
\* (saturating) and the map must be default once it was at most one.
DidEnableCount(st) ==
  [st EXCEPT !.fpass = IF @ > 0 THEN @ - 1 ELSE 0,
             !.fail = @ \/ (st.fpass <= 1 /\ st.map # DefaultMap) \/ st.ipass # 0]

\* The Registry's enabled: FilterState::event_enabled.
RegistryEnabled(st) ==
  LET on == AnyEnabled(st.map)
  IN [ok |-> on,
      st |-> [st EXCEPT !.fpass = IF on THEN @ ELSE 0,
                        !.fail = @ \/ (st.fpass = 0 /\ st.map # DefaultMap)]]

-----------------------------------------------------------------------------
(* Layered::pick_interest at node n, from the outer layer's result o and   *)
(* the inner's result i (i's walk starts from o's FilterState; it is used  *)
(* only where the code calls inner()).                                     *)
PickInterest(n, o, i) ==
  IF n.has THEN i
  ELSE IF o.int = "never" THEN o
  ELSE IF o.int = "sometimes" THEN [int |-> "sometimes", st |-> i.st]
  ELSE IF i.int = "never" /\ n.ihas THEN [int |-> "sometimes", st |-> i.st]
  ELSE i

\* register_callsite of a layer tree: a plain layer answers its own
\* interest, None answers always, a Filtered adds its filter's interest to
\* the cell and answers always (it does not ask the layer it wraps), and a
\* Layered combines its halves with pick_interest.
RECURSIVE LayerRegister(_, _, _, _)
LayerRegister(n, io, lvl, st) ==
  CASE n.k = "plain" -> [int |-> io[n.name], st |-> st]
    [] n.k = "filtered" ->
         LET c == fcfg[n.filter]
             s1 == AddInterest(st, io[n.filter])
         IN [int |-> "always",
             st |-> [s1 EXCEPT !.fail = @ \/
                       FnAssertFails(c, lvl, io[n.filter] # "never")]]
    [] n.k = "layered" ->
         LET o == LayerRegister(n.layer, io, lvl, st)
         IN PickInterest(n, o, LayerRegister(n.inner, io, lvl, o.st))
    [] OTHER -> [int |-> "always", st |-> st]

\* The Registry's register_callsite: the cell's interest, always if empty.
RegistryRegister(st) ==
  [int |-> IF st.cell = None THEN "always" ELSE st.cell, st |-> TakeInterest(st)]

\* Layered::register_callsite down the subscriber, from node i.
RECURSIVE SubRegister(_, _, _, _, _)
SubRegister(sub, i, io, lvl, st) ==
  IF i > Len(sub) THEN RegistryRegister(st)
  ELSE LET o == LayerRegister(sub[i], io, lvl, st)
       IN PickInterest(SubNode(sub, i), o, SubRegister(sub, i + 1, io, lvl, o.st))

-----------------------------------------------------------------------------
(* Filter pass and dispatch.  v gives each plain layer's enabled() and     *)
(* each filter's Filter::enabled for the event at hand.                    *)

\* enabled() of a layer tree: a plain layer answers its verdict, None
\* answers true, a Filtered records its filter's verdict with
\* FilterState::set and answers true (it does not ask the layer it wraps),
\* and a Layered asks layer, then inner only if layer said true.
RECURSIVE LayerEnabled(_, _, _, _)
LayerEnabled(n, v, lvl, st) ==
  CASE n.k = "plain" -> [ok |-> v[n.name], st |-> st]
    [] n.k = "filtered" ->
         LET s1 == SetVerdict(st, FilterIdOf[n.filter], v[n.filter])
         IN [ok |-> TRUE,
             st |-> [s1 EXCEPT !.fail = @ \/
                       FnAssertFails(fcfg[n.filter], lvl, v[n.filter])]]
    [] n.k = "layered" ->
         LET o == LayerEnabled(n.layer, v, lvl, st)
         IN IF o.ok THEN LayerEnabled(n.inner, v, lvl, o.st) ELSE o
    [] OTHER -> [ok |-> TRUE, st |-> st]

\* Layered::enabled down the subscriber, ending in the Registry's.
RECURSIVE SubEnabled(_, _, _, _, _)
SubEnabled(sub, i, v, lvl, st) ==
  IF i > Len(sub) THEN RegistryEnabled(st)
  ELSE LET o == LayerEnabled(sub[i], v, lvl, st)
       IN IF o.ok THEN SubEnabled(sub, i + 1, v, lvl, o.st) ELSE o

\* on_event of a layer tree: a plain layer gets it, a Filtered runs
\* FilterState::did_enable (forward if its bit is clear, else clear the
\* bit), and a Layered calls inner, then layer.
RECURSIVE LayerEvent(_, _)
LayerEvent(n, st) ==
  CASE n.k = "plain" -> [got |-> {n.name}, st |-> st]
    [] n.k = "filtered" ->
         LET id == FilterIdOf[n.filter]
             r == IF IsEnabled(st.map, id) THEN LayerEvent(n.layer, st)
                  ELSE [got |-> {}, st |-> [st EXCEPT !.map = @ \ {id}]]
         IN [got |-> r.got, st |-> DidEnableCount(r.st)]
    [] n.k = "layered" ->
         LET i == LayerEvent(n.inner, st)
             o == LayerEvent(n.layer, i.st)
         IN [got |-> i.got \cup o.got, st |-> o.st]
    [] OTHER -> [got |-> {}, st |-> st]

\* Layered::event down the subscriber: the Registry (which records
\* nothing) first, then the layers from the innermost out.
RECURSIVE SubEvent(_, _, _)
SubEvent(sub, i, st) ==
  IF i > Len(sub) THEN [got |-> {}, st |-> st]
  ELSE LET r == SubEvent(sub, i + 1, st)
           o == LayerEvent(sub[i], r.st)
       IN [got |-> r.got \cup o.got, st |-> o.st]

-----------------------------------------------------------------------------
(* Level hints.                                                            *)

\* OptMax and PickLevelHint, the combination at one node, are in LevelHints.

\* max_level_hint of a layer tree: Filtered gives its filter's hint,
\* Option::None gives None, Layered combines its halves.
RECURSIVE LayerHint(_)
LayerHint(n) ==
  CASE n.k = "plain" -> phint[n.name]
    [] n.k = "filtered" -> FilterHint(fcfg[n.filter])
    [] n.k = "layered" -> PickLevelHint(n, LayerHint(n.layer), LayerHint(n.inner))
    [] OTHER -> None

\* Subscriber::max_level_hint of Layered(sub[i], ...); the Registry has none.
RECURSIVE SubHint(_, _)
SubHint(sub, i) ==
  IF i > Len(sub) THEN None
  ELSE PickLevelHint(SubNode(sub, i), LayerHint(sub[i]), SubHint(sub, i + 1))

-----------------------------------------------------------------------------
(* The thread's FilterState as the start of a walk, and the walk's end     *)
(* state stored back.                                                      *)
Start == [map |-> filtering.map, cell |-> filtering.cell,
          fpass |-> filtering.fpass, ipass |-> filtering.ipass,
          fail |-> debugFail]

Store(st) ==
  /\ filtering' = [map |-> st.map, cell |-> st.cell,
                   fpass |-> st.fpass, ipass |-> st.ipass]
  /\ debugFail' = st.fail

Names == UsedPlain(subscriber) \cup UsedFilters(subscriber)

\* What the layers and filters may answer at the registration of cs.
InterestChoices(cs) ==
  {io \in [Names -> Interests] :
     /\ \A p \in UsedPlain(subscriber) :
          io[p] \in PlainInterests(phint[p], LevelOf[cs])
     /\ \A f \in UsedFilters(subscriber) :
          io[f] \in FilterInterests(fcfg[f], LevelOf[cs])}

\* What they may answer to enabled() for an event of cs.
VerdictChoices(cs) ==
  {v \in [Names -> BOOLEAN] :
     /\ \A p \in UsedPlain(subscriber) :
          v[p] \in PlainVerdicts(phint[p], LevelOf[cs], interestOf[cs][p])
     /\ \A f \in UsedFilters(subscriber) :
          v[f] \in FilterVerdicts(fcfg[f], LevelOf[cs], interestOf[cs][f])}

\* The plain layers an event should reach, by the spec: none when a plain
\* layer outside every Filtered disables it, else each plain layer all of
\* whose enclosing filters enable it.
ShouldGet(v) ==
  IF \E p \in TopPlain(subscriber) : ~v[p] THEN {}
  ELSE {r.name : r \in {x \in Reach(subscriber) : \A f \in x.filters : v[f]}}

\* Some FilterFn let the event through above its own max_level_hint.
FnLied(v, lvl) ==
  \E f \in UsedFilters(subscriber) : FnAssertFails(fcfg[f], lvl, v[f])

Delivery(v, lvl, got) ==
  [lvl |-> lvl, got |-> got, expect |-> ShouldGet(v), lied |-> FnLied(v, lvl)]

-----------------------------------------------------------------------------
Init ==
  /\ subscriber \in Subscribers
  /\ phint \in [UsedPlain(subscriber) -> Hints]
  /\ fcfg \in [UsedFilters(subscriber) -> FilterConfigs]
  /\ filtering = [map |-> DefaultMap, cell |-> None, fpass |-> 0, ipass |-> 0]
  /\ cache = [cs \in Callsites |-> None]
  /\ interestOf = [cs \in Callsites |-> None]
  /\ delivered = [lvl |-> 0, got |-> {}, expect |-> {}, lied |-> FALSE]
  /\ debugFail = FALSE

(***************************************************************************)
(* Interest pass: the first use of callsite cs calls the subscriber's      *)
(* register_callsite and caches the answer.                                *)
(***************************************************************************)
RegisterCallsite(cs) ==
  /\ cache[cs] = None
  /\ \E io \in InterestChoices(cs) :
       LET r == SubRegister(subscriber, 1, io, LevelOf[cs], Start)
       IN /\ r.st.ipass <= PassCounterBound
          /\ cache' = [cache EXCEPT ![cs] = r.int]
          /\ interestOf' = [interestOf EXCEPT ![cs] = io]
          /\ Store(r.st)
  /\ UNCHANGED <<subscriber, phint, fcfg, delivered>>

(***************************************************************************)
(* An event of a sometimes callsite: the subscriber's enabled(), then, if  *)
(* it said true, its event().                                              *)
(***************************************************************************)
CheckAndDispatch(cs) ==
  /\ cache[cs] = "sometimes"
  /\ \E v \in VerdictChoices(cs) :
       LET e == SubEnabled(subscriber, 1, v, LevelOf[cs], Start)
           d == IF e.ok THEN SubEvent(subscriber, 1, e.st)
                ELSE [got |-> {}, st |-> e.st]
       IN /\ d.st.fpass <= PassCounterBound
          /\ Store(d.st)
          /\ delivered' = Delivery(v, LevelOf[cs], d.got)
  /\ UNCHANGED <<subscriber, phint, fcfg, cache, interestOf>>

(***************************************************************************)
(* An event of an always callsite skips enabled() and is dispatched.       *)
(***************************************************************************)
DispatchAlways(cs) ==
  /\ cache[cs] = "always"
  /\ \E v \in VerdictChoices(cs) :
       LET d == SubEvent(subscriber, 1, Start)
       IN /\ d.st.fpass <= PassCounterBound
          /\ Store(d.st)
          /\ delivered' = Delivery(v, LevelOf[cs], d.got)
  /\ UNCHANGED <<subscriber, phint, fcfg, cache, interestOf>>

Next ==
  \E cs \in Callsites :
    \/ RegisterCallsite(cs)
    \/ CheckAndDispatch(cs)
    \/ DispatchAlways(cs)

Spec == Init /\ [][Next]_vars

-----------------------------------------------------------------------------
(* Properties.                                                             *)

TypeOK ==
  /\ subscriber \in Subscribers
  /\ phint \in [UsedPlain(subscriber) -> Hints]
  /\ fcfg \in [UsedFilters(subscriber) -> FilterConfigs]
  /\ filtering \in [map : FilterMaps, cell : Interests \cup {None},
                    fpass : Nat, ipass : Nat]
  /\ cache \in [Callsites -> Interests \cup {None}]
  /\ \A cs \in Callsites :
       interestOf[cs] \in [Names -> Interests] \cup {None}
  /\ delivered \in [lvl : {0} \cup Levels, got : SUBSET UsedPlain(subscriber),
                    expect : SUBSET UsedPlain(subscriber), lied : BOOLEAN]
  /\ debugFail \in BOOLEAN

\* The subscriber's max_level_hint (Layered::max_level_hint, through
\* pick_level_hint at every node) never hides an event a layer takes: no
\* event above the hint reaches any layer, unless a FilterFn broke its own
\* hint (its debug assertion).  tracing-core skips every callsite above the
\* hint, so a hint too low silently loses those events.
LevelHintSound ==
  ~delivered.lied =>
    \A p \in delivered.got : ~Above(SubHint(subscriber, 1), delivered.lvl)

\* A callsite is cached never (Layered::register_callsite through
\* pick_interest at every node of the tree) only if no plain layer could
\* take its events: a plain layer outside every Filtered never enables it,
\* or every plain layer, or one of the filters around it, is never
\* interested.
TreeNeverInterestSound ==
  \A cs \in Callsites :
    cache[cs] = "never" =>
      \/ \E q \in TopPlain(subscriber) : interestOf[cs][q] = "never"
      \/ \A r \in Reach(subscriber) :
           \/ interestOf[cs][r.name] = "never"
           \/ \E f \in r.filters : interestOf[cs][f] = "never"

\* Each plain layer gets an event exactly when no plain layer outside every
\* Filtered vetoed it and every filter of the Filtered wrappers around it
\* (Filtered::enabled, Filtered::on_event) enabled it.
TreeEventDelivery == delivered.got = delivered.expect

\* spec.md (level-hint composition, last rule): at the outermost Layered
\* node, when neither half has a per-layer filter and the inner side is not
\* the Registry, a half with no hint ("no ceiling") makes the combined hint
\* absent: None dominates in max (Layered::pick_level_hint, last line).
NoneDominatesHint ==
  LET n == SubNode(subscriber, 1)
  IN  (/\ ~n.isreg /\ ~n.has /\ ~n.ihas
       /\ LayerHint(subscriber[1]) = None \/ SubHint(subscriber, 2) = None)
      => SubHint(subscriber, 1) = None

====
