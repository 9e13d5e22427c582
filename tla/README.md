# TLA+ models of tracing-subscriber's per-layer filtering

This directory holds TLA+ models of the per-layer filtering (PLF) machinery of
`tracing-subscriber`, TLC configurations that model-check them, and TLAPS
proofs about them. The code under study is

- `src/tracing-subscriber/src/filter/layer_filters.rs`: `Filter`, `Filtered`,
  `FilterId`, `FilterMap` and the thread-local `FilterState`;
- `src/tracing-subscriber/src/layer/layered.rs`: `Layered`, the node that
  composes a layer with an inner layer or subscriber.

## 1. The system

A subscriber is a chain `Layered(L1, Layered(L2, ... Layered(LN, Registry)))`.
Each layer `Li` is one of two kinds:
- a **plain** layer, which filters for everyone: its veto stops the whole chain;
- a **Filtered** layer, which wraps a layer with a per-layer filter and gets a
  `FilterId` (0..63) from the Registry at `on_register`.

A Filtered layer filters only for the layer it wraps. It never vetoes the
chain. Instead it records its verdict in the calling thread's `FilterState`:

| FilterState field | Meaning |
|---|---|
| `enabled: FilterMap` | a u64; a set bit means "this filter disabled it" |
| `interest` | the combined `Interest` of the interest pass |
| `in_current_filter_pass`, `in_current_interest_pass` | debug-only counters behind its assertions |

A span or event goes through three phases.

1. **Interest pass (once per callsite).** `register_callsite`:
   - `Layered::pick_interest` combines the layers' interests.
   - Each Filtered layer adds its filter's interest to the cell
     (`add_interest`) and answers always.
   - The Registry answers `take_interest()`, or always if the cell is empty.
   - The callsite cache (in tracing-core) then remembers never, always or
     sometimes.
2. **Filter pass (each emission of a sometimes callsite).** `enabled`:
   - Layered asks the outer layer, then the inner one.
   - It stops at the first plain layer that says false.
   - Each Filtered layer `set`s its bit.
   - The Registry answers `FilterState::event_enabled()`: some bit is clear.
   - An always callsite skips this pass.
3. **Dispatch.** `event` or `new_span`:
   - Layered calls the inner side first, then the layer.
   - The Registry, at `new_span`, stores `filter_map()` with the span.
   - Each Filtered layer's `did_enable` forwards to its wrapped layer if its
     bit is clear. Otherwise it clears the bit.

Later span callbacks (`record`, `enter`, `exit`, `record_follows_from`,
`try_close`) may come from any thread. They consult the map stored with the
span, not the thread's map. `clone_span` and `try_close` count the span's
handles, and the last close calls `on_close` under the Registry's close guard.

## 2. Modules

| Module | Models |
|---|---|
| `FilterMap` | `FilterId` and the `FilterMap` word: the set of positions of its set bits in a word of `Width` bits (64 in the code). `is_enabled` and `any_enabled`. |
| `PlfSubscriber` | The whole chain over the Registry, with one `FilterState` per thread, the shared callsite cache and the spans. |
| `MCPlfSubscriber` | Model values and the small chains used by the cfgs. |
| `PlfSpanView` | The abstract promise about spans: each Filtered layer hears only of the spans it took at creation, and is told of exactly those that close. No FilterMap, no thread, no Layered. |
| `LayerTree` | Trees of layers on one thread: `Layered` used as a layer, `Option::None`, `Filtered` around `Filtered`, `LevelFilter` and `FilterFn`, the PLF downcast rule, and `max_level_hint` with `pick_level_hint`. Written with recursive operators, for TLC only. |
| `LevelHints` | Levels, hints and `Layered::pick_level_hint` at one node (`OptMax` is `max` on `Option<LevelFilter>`). No recursion; `LayerTree` extends it. |
| `MCLayerTree` | Model values and the tree shapes used by the `LayerTree_*` cfgs. |
| `PlfSubscriberProofs` | TLAPS proofs of the invariants (section 5). |
| `PlfRefinementProofs` | TLAPS proof that `PlfSubscriber` implements `PlfSpanView` (section 5). |
| `PlfChainProofs` | TLAPS proofs of the interest and filter passes: `NeverInterestSound` on every chain, and the delivery, map-clear and debug-assertion properties under `ChainHypotheses` (section 5). |
| `LevelHintsProofs` | TLAPS proofs that `pick_level_hint` is sound one node at a time, and that its `inner_is_registry` shortcut is not when the inner half is a layer (section 5). |

### State of `PlfSubscriber`

- **Per thread, from FilterState:**
  - `fmap`, `icell`: the map and the interest cell;
  - `fpass`, `ipass`: the two debug counters.
- **Per callsite:** `cache`, the tracing-core cache.
- **User code:** `interestOf`, what each layer's `register_callsite` or filter
  answers. It is chosen in `Init`.
- **Per thread, producer:** `pending`, the emissions between `enabled()` and
  their dispatch, as a stack. It is deeper than one only when an emission's
  field evaluation emits again.
- **Per span, Registry:** `spanState`, `refs` and `spanMap` (the stored map).
- **Ghost state for the properties:**
  - `lastEvent`: what the last event was meant to reach, and what it reached;
  - `spanExpect`: the layers that should see a span;
  - `sawNew`, `sawHook`, `sawClose`: the spans each Filtered layer forwarded
    at new_span, at later hooks, and at on_close;
  - `debugFail`: some debug assertion of FilterState failed.

### Actions of `PlfSubscriber`

| Action | Code |
|---|---|
| `RegisterCallsite` | `Layered::register_callsite` and `pick_interest` (`ChainInterest`), `Filtered::register_callsite`, `add_interest` (`AddInterests`), the Registry's `take_interest`, and their debug assertions. |
| `CheckEnabled` | `Layered::enabled` with its short-circuit, `Filtered::enabled`, `FilterState::set` (`SetVerdicts`, `SetAssertFails`), the Registry's `event_enabled` (`EventEnabled`, with its counter reset), and the producer pushing the emission. |
| `SkipEnabled` | An always callsite dispatched without `enabled()`. |
| `DispatchEvent`, `DispatchSpan` | `Layered::event` and `Layered::new_span`, each Filtered layer's `did_enable` (`Forwarded`, `ClearedMap`, `DrainedCount`, `DidEnableAssertFails`), and the Registry storing `filter_map()` (`FilterMapSnapshot`). |
| `OnSpanHook`, `FollowsFrom` | `Filtered::on_record`, `on_enter`, `on_exit` and `on_follows_from` through `if_enabled_for` on the stored map (`EnabledFor`). |
| `CloneSpan`, `TryClose` | `Layered::clone_span` and `Layered::try_close` with the close guard. `ClosedFor` is the set of Filtered layers whose on_close runs: because `try_close` takes `start_close` before the inner close, `Context::if_enabled_for` still finds the span's stored FilterMap. Its mutant, with no guard, reaches no layer, and `SpanViewConsistent` and `ImplementsSpanView` catch it. |

Each multi-layer traversal is one atomic action, written in closed form over
the chain rather than by recursion. This is sound because the traversal runs
on one thread and touches only that thread's FilterState. What other threads
see of it is the shared callsite cache and the spans, and each is updated in
one step.

What the user code answers is nondeterministic. `Verdicts` allows a layer
whose interest for the callsite is always (never) only to enable (disable)
it, which is the Filter contract.

`PROJECT.json` "map" names the source lines of every definition.

### `PlfSubscriber` refines `PlfSpanView`

`PlfSubscriber` defines `View == INSTANCE PlfSpanView WITH ...` and the
property `ImplementsSpanView == View!Spec`. The mapping:

| PlfSpanView | PlfSubscriber |
|---|---|
| `Filtered` | `FilteredLeaves` |
| `state`, `handles` | `spanState`, `refs` |
| `view` | `sawNew`: the spans each layer took at new_span |
| `heard` | `sawNew[i] \cup sawHook[i]` |
| `closedSeen` | `sawClose` |

The interest pass, the filter pass and events are stutters of the abstract
spec. `DispatchSpan` is `New`, `OnSpanHook` and `FollowsFrom` are `Hear`,
`CloneSpan` is `Clone` and `TryClose` is `Close`. The abstract spec is what
spec.md promises, so it has no "map" entries.

### `LayerTree`

A node is a record: `plain`, `none` (`Option::None`), `filtered` (layer and
filter) or `layered` (layer, inner, and the three flags of `Layered::new`).
A subscriber is a sequence of trees over the Registry, outermost first.
`AndThen` builds a tree as `Layer::and_then` does; `SubNode` builds the
subscriber's node as `with_subscriber` does.

- **State.** `subscriber`, the plain layers' hints `phint` and the filters'
  configurations `fcfg`, all chosen in `Init`; the thread's `filtering`
  (map, cell, two counters); the callsite `cache`; what the user code
  answered (`interestOf`); the ghost `delivered` and `debugFail`.
- **Actions.**
  - `RegisterCallsite`: `register_callsite` down the whole tree
    (`SubRegister`, `LayerRegister`, `PickInterest`), ending in the
    Registry's `take_interest`.
  - `CheckAndDispatch`: `enabled` (`SubEnabled`, `LayerEnabled`, with the
    short-circuit and the Registry's `event_enabled`), then `event`
    (`SubEvent`, `LayerEvent`, with each Filtered's `did_enable`).
  - `DispatchAlways`: an always callsite goes straight to `event`.
- **Filters.** A `LevelFilter` answers by level and hints its level. A
  `FilterFn` answers whatever its predicate or callsite callback does, and
  its debug assertions fire when it lets through a level above its own hint
  (`FnAssertFails`).
- **Hints.** `LayerHint` and `SubHint` walk the tree and combine the halves
  at every node with `PickLevelHint`. That step, with `OptMax` and `Above`,
  lives in `LevelHints`, a module without recursion that the provers can
  use.

## 3. Runs

The `PlfSubscriber_*` runs use the module `MCPlfSubscriber`; the `LayerTree_*` runs use `MCLayerTree`.

| Run | Expect | Instance | What it shows |
|---|---|---|---|
| `ok` | pass | plain, Filtered, Filtered; Width 3; one thread; one event and one span callsite; two spans; MaxRefs 2 | Every property below holds for every verdict and every interest: 572,596 states. |
| `threads` | pass | plain, Filtered; Width 2; two threads; one event and one span callsite; two spans | The same properties hold when two threads share the callsite cache and the spans: 72,840 states. |
| `stale_bit` | violation | Filtered outside plain; two event callsites | A stale bit makes a Filtered layer drop an event its filter enabled. |
| `nested_event` | violation | one Filtered; MaxDepth 2 | An event emitted during another's field evaluation corrupts its map. |
| `all_ids_used` | violation | plain outside Filtered; Width 1 (every id used) | The Registry's veto hides the event from a plain layer. |
| `stale_interest` | violation | Filtered outside plain | A leftover interest pass trips FilterState's debug assertion. |
| `layer_tree_hint` | pass | `MCLayerTree`: every chain of one or two leaves, every two-leaf tree as the outer layer of a chain with a third leaf; leaves plain, Filtered, Filtered-in-Filtered (short chains) and None; one callsite of level 2, MaxLevel 2 | `TypeOK`, `LevelHintSound`, `TreeNeverInterestSound`: 138,382 states. |
| `tree_on_registry` | violation | a two-leaf tree built with `and_then`, directly on the Registry | The subscriber's hint hides events from the inner layer. |
| `nested_filtered` | violation | `Filtered(Filtered(p1, g1), f1)` | The inner filter is never consulted. |
| `none_dominates` | violation | the `layer_tree_hint` instance | pick_level_hint's final max does not let a missing hint dominate, as spec.md says it does. |

The `ok` and `threads` runs check these properties:

- `TypeOK`.
- `EventDeliveryMatchesFilter`: every event reaches exactly the plain layers
  (if none vetoed) and the Filtered layers whose filters enabled it.
- `SpanDeliveryMatchesFilter`: the same for new_span.
- `SpanViewConsistent`: later span callbacks reach a Filtered layer's inner
  layer only for spans it saw at new_span, and on_close for exactly those
  that closed.
- `NeverInterestSound`: a callsite is cached never only if no layer could
  want its events.
- `MapClearBetweenPasses`: spec.md §8 invariant 1.
- `NoDebugAssertionFailure`.
- `ImplementsSpanView`: the refinement above, checked as a temporal property.

The `layer_tree_hint` run checks:

- `LevelHintSound`: no event above the subscriber's `max_level_hint` reaches
  a layer, unless a FilterFn broke its own hint. tracing-core skips every
  callsite above the hint, so a hint that is too low silently loses events.
- `TreeNeverInterestSound`: a callsite is cached never only if a plain layer
  outside every Filtered is never interested, or every plain layer (or a
  filter around it) is.

Each property has a mutant of the code that TLC catches (`PROJECT.json`).

The seven violations are findings; `PROJECT.json` "findings" has the details.
- **stale_bit:** a code bug. It is fixed in later tracing releases by
  clearing the map when `Layered::enabled` short-circuits.
- **nested_event:** a gap in the spec.
- **all_ids_used:** a divergence between spec and code. With fewer than 64
  filters, `event_enabled` can never be false.
- **stale_interest:** a debug-build panic.
- **tree_on_registry:** a code bug. `Layered::new` computes
  `inner_is_registry` from the type parameter `S`, and `S` is the Registry
  for every node of a tree attached to it. Such a node returns only its
  outer hint: `p2.and_then(Filtered::new(p1, ERROR))` over the Registry,
  with the Filtered layer outside and plain `p2` inside, reports ERROR, yet
  p2 takes INFO events.
- **nested_filtered:** a code bug. `Filtered::register_callsite` and
  `Filtered::enabled` never call the wrapped layer, so a Filtered inside a
  Filtered never records its verdict.
- **none_dominates:** a divergence between spec and code. It is harmless:
  `layer_tree_hint` shows the code's hint is still sound, because plain
  layers veto for everyone.

### Bounds

- **Chains.** Two or three layers cover both orders of plain and Filtered
  layers, and two Filtered layers that disagree. That is what `add_interest`,
  the short-circuit and the interest softening need.
- **Width.** Width 3 with two ids leaves a free bit, as every chain with fewer
  than 64 filters has. Width 1 or 2 with every id used is the 64-filter case.
- **Spans and handles.** Two spans and two handles let a span be created,
  cloned and closed while the other is live.
- **MaxDepth.** One in the pass runs, because a nested emission is already a
  known violation.
- **PassCounterBound.** 4 bounds the debug counters; no pass run reaches it.
- **Trees.** Two-leaf trees exercise every combination of the three flags
  of a node (a filtered or plain half on each side, None). A third leaf
  under the tree makes `inner_has_layer_filter` come from the rest of the
  chain. Deeper trees repeat the same rule at each node. One callsite of
  level 2 with MaxLevel 2 and hints {1, None} gives an event above some
  hints and below others. Two callsites, or Filtered-in-Filtered leaves in
  three-leaf shapes, took more than 15 minutes and add no new node shape.

Deadlock checking is off: once every callsite is cached and every span has
closed, the subscriber is simply not called again. No liveness property is
stated. Every operation here is synchronous and runs to completion on the
calling thread, so there is nothing to wait for (spec.md §5).

## 4. What is not modelled

- **Spans in trees.** `LayerTree` models the interest pass, the filter pass,
  events and hints. Span callbacks and several threads are modelled only for
  chains (`PlfSubscriber`). `Some(l)` is `l` itself.
- **User predicates.** The closures of `FilterFn` and the plain layers'
  answers are nondeterministic, within the Filter and Layer contracts.
- **Registry.** Not in `src/`; modelled from spec.md. Parents and span
  lookups are left out.
- **Out of scope.** `Debug` impls and `dbg!` output are formatting. The
  65th-filter panic in `FilterId::new` is a configuration-time assertion.

## 5. Proofs

Four modules hold the proofs. The first three rely on the assumptions in
`PlfSubscriber` and `FilterMap`:
- the chain is a sequence of layer kinds;
- FilterIds are injective and below `Width`, and `Width` is positive;
- `None` is not an Interest;
- the bounds are naturals.

### `PlfSubscriberProofs`: every chain

- **`TypeCorrect == Spec => []TypeOK`.** The inductive invariant is
  `TypeInv == TypeOK /\ RefsInv`. `RefsInv` says a live span holds a handle,
  and it is needed because `try_close` decrements the count.
- **`SpanViewCorrect == Spec => []SpanViewConsistent`.** The inductive
  invariant is `TypeInv /\ SpanViewInv`. `SpanViewInv` adds two facts:
  - what a layer was told at new_span equals what the stored map lets
    through;
  - an unused span id is in nobody's view.

  With these, each hook and on_close adds a span to a layer's view exactly
  when new_span did. This holds whichever thread calls and whatever the
  thread-local maps hold at that time.

### `PlfRefinementProofs`: every chain

**`SpanViewRefinement == Spec => ImplementsSpanView`** has three parts:
- `ViewInit`: the initial state maps to PlfSpanView's initial state.
- `ViewStep`: under `TypeInv /\ SpanViewInv`, every step maps to an
  abstract step or a stutter, with one case per action. The abstract
  `Viewers(s)` equals the code's `EnabledFor(s)` (`ViewersAreEnabledFor`),
  and that rests on `SpanViewInv`.
- The layers a callback reaches, `EnabledFor(s)`, are state expressions.
  The proof names each as a constant with PICK before it uses the lemmas
  `ViewNewIsNext` and `ViewHearIsNext`, whose parameters are constants.

### `PlfChainProofs`: every chain

- **`NeverInterestCorrect == Spec => []NeverInterestSound`.** The inductive
  invariant is `TypeInv /\ NeverInterestSound` itself. interestOf never
  changes, and only `RegisterCallsite` writes the cache, once per callsite.
  Two lemmas carry the argument:
  - `ChainInterestNever`: pick_interest answers never only when a plain
    layer said never, or when the chain has no plain layer and the Registry
    answered never. The innermost plain layer always has a per-layer filter
    on its inner side (Filtered layers or the Registry), so it turns an
    inner never into sometimes.
  - `AddInterestsUniform`: add_interest leaves never (or always) in the cell
    only when every interest it combined was that one.

### `PlfChainProofs`: chains that satisfy `ChainHypotheses`

`EventDeliveryMatchesFilter`, `MapClearBetweenPasses`,
`SpanDeliveryMatchesFilter` and `NoDebugAssertionFailure` do not hold on every
chain; the violation runs show where they fail. They are proved under
`ChainHypotheses`, a conjunction of three conditions on the constants:
- `PlainOutermost`: every plain layer is outside every Filtered layer.
  `stale_bit` and `stale_interest` break it.
- `FreeFilterBit`: some FilterMap bit belongs to no filter (fewer than 64
  filters). `all_ids_used` breaks it.
- `NoNestedDispatch`: `MaxDepth <= 1`, so no callsite is filtered while
  another of the same thread is pending. `nested_event` breaks it.

TLC confirms that the `ok` and `threads` instances satisfy all three, and
that each violation instance breaks exactly the one named.

**`ChainInvariant`** proves `ChainHypotheses => (Spec => [](TypeInv /\
ChainInv))`. The corollaries `EventDeliveryCorrect`, `SpanDeliveryCorrect`,
`MapClearCorrect` and `NoDebugFailureCorrect` follow from it, one per
property.

`ChainInv` is the strengthening these properties need. None of them is
inductive alone: dispatch reads the map and the counter that the filter pass
left. For each thread it says three things:
- the interest cell is empty and its counter is zero;
- at most one callsite is pending;
- with nothing pending, `fpass` is zero.

While a callsite is pending it also says:
- the map holds only filter bits;
- `fpass` is 0 or the number of Filtered layers, and it is that number
  whenever a bit is set;
- the frame's expected layers are the plain layers plus exactly those the
  map forwards.

Beyond the per-thread part, `ChainInv` adds two facts:
- a callsite cached always is always-enabled by every filter
  (`SkipEnabled` pushes with the default map);
- unused spans are in no layer's view.

TLC checked `ChainInv` as an invariant on the `ok` and `threads` instances
before the proof.

The proof has one lemma per action (`ChainRegister`, `ChainCheck`,
`ChainSkip`, `ChainDispatchEvent`, `ChainDispatchSpan`,
`ChainSpanCallback`). The did_enable assertion needs a cardinality lemma,
`NoDidEnableFail`. At Filtered layer j, the counter minus the count of
Filtered layers above j is at least 2 unless j is the outermost Filtered
layer, and at that layer every bit it could check is already cleared.

### `LevelHintsProofs`: one node of a layer tree, every number of levels

This module proves the step at one node of the argument for
`LevelHintSound`. It assumes only `HintAssumption`: there is at least one
level, and `None` is not a level filter.

A half of a node (a layer tree, or the rest of the subscriber) is described
by two sets of levels:
- `V`, the levels at which its `enabled()` may answer true;
- `R`, the levels at which it may hand an event to a layer inside it.

`Layered::enabled` asks the outer half, then the inner half only if the
outer said true. `on_event` reaches both halves. So the node lets through
`Va \cap Vb` and reaches `Va \cap Vb \cap (Ra \cup Rb)`.

`SoundHalf(h, plf, V, R)` says that hint `h` bounds `R`. When the half has
no per-layer filter, `h` also bounds `V`, because such a half's `enabled()`
vetoes for everyone. The leaves are sound halves:
- a plain layer keeps to its hint;
- a Filtered layer lets everything through and its filter keeps to its
  hint;
- `Option::None` and the Registry have no hint.

The results:
- `HintNodeSound`: at a node whose `inner_is_registry` is false, sound halves
  give a sound node hint for the flag `has /\ ihas`, whatever the other two
  flags are. The proof follows the branches of `pick_level_hint`:
  - With both hints present, `max` bounds what each one bounds.
  - The three rules that answer `None` are trivially sound.
  - In the last line, a missing hint loses to a present one. That is sound
    only because the half with the present hint then has no per-layer
    filter, so it vetoes everything above its hint. This is why the
    `none_dominates` divergence is harmless.
- `HintSubscriberNodeSound`: the same, for the flag `has \/ ihas` that the
  node above reads through `subscriber_has_plf`.
- `HintRegistrySound`: the `inner_is_registry` rule, which returns the
  outer hint alone, is sound for `Layered(L, Registry)`.
- `HintShortcutUnsound`: with two or more levels, some node whose
  `inner_is_registry` is set and whose inner half is a sound layer gets an
  unsound hint. The witness is `p2.and_then(Filtered::new(p1, ERROR))`: the
  outer Filtered layer hints ERROR, the inner plain `p2` has no hint. This is the `tree_on_registry` finding, proved for every number of
  levels.

Applying `HintNodeSound` at every node of a tree is an induction over the
tree. `LayerTree` does that walk with RECURSIVE operators, and TLC checks the
result end to end as `LevelHintSound`.

### What stays with TLC

- `LayerTree` declares RECURSIVE operators, which no module with a theorem
  may reach. So `LevelHintSound`, `TreeNeverInterestSound` and the tree runs
  are only model-checked, apart from the node step of `LevelHintSound`
  above.
- The interest pass over a tree cannot be split into node steps the same
  way. Whether the Registry answers never depends on the interest cell that
  every Filtered layer outside it has filled in. So `TreeNeverInterestSound`
  has no node lemma here.
- No liveness property is stated. The model has no fairness: a subscriber
  that is never called again is a legal behaviour.

## 6. Plan

Done:
- `FilterMap`, `PlfSubscriber`, and the abstract `PlfSpanView` with its
  refinement proof;
- `LayerTree` with its four runs;
- proofs of every `PlfSubscriber` property, the chain properties under
  `ChainHypotheses`;
- the node step of `pick_level_hint`'s soundness, and the proof that the
  `inner_is_registry` shortcut is unsound over a layer.

Open:
1. **Span callbacks over layer trees.** Extend `LayerTree` with `new_span`
   and the span hooks, on two threads.
2. **Contrast runs of the later fixes.** `clear_enabled` on a
   short-circuit, and `inner_is_registry` computed from the inner value.
3. **A non-recursive form of the tree walks.** Recursive functions over a
   set of trees bounded by depth would let the tree induction itself be
   proved. `WFMin` with `NatLessThanWellFounded` gives induction over the
   depth without an operator parameter.
