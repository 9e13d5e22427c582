-------------------------- MODULE LevelHintsProofs --------------------------
(***************************************************************************)
(* Why Layered::pick_level_hint gives a sound max_level_hint, one node at  *)
(* a time, for every number of levels:                                     *)
(*                                                                         *)
(*   HintNodeSound       a node whose halves have sound hints has a sound  *)
(*                       hint, whatever its flags, when inner_is_registry  *)
(*                       is false;                                         *)
(*   HintRegistrySound   the inner_is_registry shortcut is sound when the  *)
(*                       inner half really is the Registry;                *)
(*   HintShortcutUnsound the shortcut is unsound when the inner half is a  *)
(*                       layer (the tree_on_registry finding).             *)
(*                                                                         *)
(* A half of a node (a layer tree, or the rest of the subscriber) is       *)
(* described by what it can do with an event of each level:               *)
(*   V  the levels at which its enabled() may answer true;                 *)
(*   R  the levels at which it may hand the event to a layer inside it.    *)
(* Layered::enabled asks the outer half, then the inner one only if the    *)
(* outer said true, and Layered's on_event/event reaches both halves, so  *)
(* the node lets through Va \cap Vb and reaches Va \cap Vb \cap (Ra \cup  *)
(* Rb).  A hint is sound for a half when it bounds R (no event a layer     *)
(* would take is skipped by tracing-core) and, when the half has no        *)
(* per-layer filter, V as well (its enabled() is a veto for everyone).     *)
(* The leaves are sound halves: a plain layer keeps to its hint (V = R),   *)
(* a Filtered one answers true (V = Levels) and its filter keeps to its    *)
(* hint, Option::None and the Registry have no hint.  The walk that        *)
(* applies the lemma at every node of a tree is the recursion of           *)
(* LayerTree, and stays with TLC (LevelHintSound).                         *)
(***************************************************************************)
EXTENDS LevelHints, TLAPS

USE HintAssumption

\* The hint h bounds the levels S: none of them lies above it.
Bounds(h, S) == \A l \in S : ~Above(h, l)

\* What a sound half of a node promises, given whether it has a per-layer
\* filter (plf): its hint bounds the levels it hands to a layer, and, with
\* no per-layer filter, the levels it lets through at all.
SoundHalf(h, plf, V, R) ==
  /\ h \in Hints
  /\ R \subseteq V /\ V \subseteq Levels
  /\ Bounds(h, R)
  /\ ~plf => Bounds(h, V)

\* The levels a Layered node lets through and reaches, from its halves'.
NodeLets(Va, Vb) == Va \cap Vb
NodeReaches(Va, Vb, Ra, Rb) == Va \cap Vb \cap (Ra \cup Rb)

\* std::cmp::max on Option<LevelFilter> is a hint, and bounds what both of
\* its arguments bound.
LEMMA OptMaxBounds ==
  ASSUME NEW a \in Hints, NEW b \in Hints, NEW S \in SUBSET Levels,
         Bounds(a, S) \/ Bounds(b, S), a # None, b # None
  PROVE  OptMax(a, b) \in Hints /\ Bounds(OptMax(a, b), S)
BY DEF OptMax, Bounds, Above, Hints, LevelFilters, Levels

LEMMA OptMaxHint ==
  ASSUME NEW a \in Hints, NEW b \in Hints
  PROVE  OptMax(a, b) \in Hints
BY DEF OptMax

\* No level lies above the absence of a hint.
LEMMA NoneBounds ==
  ASSUME NEW S
  PROVE  Bounds(None, S)
BY DEF Bounds, Above

\* A hint that bounds a set bounds its subsets.
LEMMA BoundsSubset ==
  ASSUME NEW h, NEW S, NEW T, Bounds(h, S), T \subseteq S
  PROVE  Bounds(h, T)
BY DEF Bounds

\* A hint that bounds two sets bounds their union.
LEMMA BoundsUnion ==
  ASSUME NEW h, NEW S, NEW T, Bounds(h, S), Bounds(h, T)
  PROVE  Bounds(h, S \cup T)
BY DEF Bounds

\* Layered::pick_level_hint is sound at every node whose inner_is_registry
\* is false: if the outer half (with per-layer filter flag has) and the
\* inner half (with flag ihas) have sound hints, the node's hint bounds
\* every level the node hands to a layer, and, unless both halves have a
\* per-layer filter, every level it lets through.  The three rules that
\* answer None guard the cases where max would let a present hint
\* outvote a half with no hint whose enabled() is not a veto; the last
\* line, max with None below Some, is sound because a half with no
\* per-layer filter vetoes above its own hint (the none_dominates
\* divergence is harmless).
THEOREM HintNodeSound ==
  ASSUME NEW n, n.isreg = FALSE, n.has \in BOOLEAN, n.ihas \in BOOLEAN,
         NEW ha, NEW hb, NEW Va, NEW Vb, NEW Ra, NEW Rb,
         SoundHalf(ha, n.has, Va, Ra), SoundHalf(hb, n.ihas, Vb, Rb)
  PROVE  SoundHalf(PickLevelHint(n, ha, hb), n.has /\ n.ihas,
                   NodeLets(Va, Vb), NodeReaches(Va, Vb, Ra, Rb))
<1> DEFINE h == PickLevelHint(n, ha, hb)
           V == NodeLets(Va, Vb)
           R == NodeReaches(Va, Vb, Ra, Rb)
<1>1. /\ ha \in Hints /\ hb \in Hints
      /\ Ra \subseteq Levels /\ Rb \subseteq Levels
      /\ Va \subseteq Levels /\ Vb \subseteq Levels
      /\ Bounds(ha, Ra) /\ Bounds(hb, Rb)
      /\ ~n.has => Bounds(ha, Va)
      /\ ~n.ihas => Bounds(hb, Vb)
  BY DEF SoundHalf
<1>2. R \subseteq V /\ V \subseteq Levels /\ R \subseteq Ra \cup Rb
      /\ V \subseteq Va /\ V \subseteq Vb
  BY <1>1 DEF NodeLets, NodeReaches
<1>3. h \in Hints
  BY <1>1, OptMaxHint DEF PickLevelHint
\* Both hints present: max bounds what each of them bounds.
<1>4. ASSUME ha # None, hb # None, h = OptMax(ha, hb)
      PROVE  Bounds(h, R) /\ (~(n.has /\ n.ihas) => Bounds(h, V))
  <2>1. Bounds(h, Ra) /\ Bounds(h, Rb)
    BY <1>1, <1>4, OptMaxBounds
  <2>2. Bounds(h, R)
    BY <1>2, <2>1, BoundsUnion, BoundsSubset
  <2>3. ~(n.has /\ n.ihas) => Bounds(h, V)
    <3>1. ~n.has => Bounds(ha, V)
      BY <1>1, <1>2, BoundsSubset
    <3>2. ~n.ihas => Bounds(hb, V)
      BY <1>1, <1>2, BoundsSubset
    <3>3. QED
      BY <1>1, <1>2, <1>4, <3>1, <3>2, OptMaxBounds
  <2>4. QED
    BY <2>2, <2>3
\* The node answers None: nothing lies above it.
<1>5. ASSUME h = None
      PROVE  Bounds(h, R) /\ Bounds(h, V)
  BY <1>5, NoneBounds
<1>6. CASE n.has /\ n.ihas
  <2>1. h = None \/ (ha # None /\ hb # None /\ h = OptMax(ha, hb))
    BY <1>6 DEF PickLevelHint
  <2>2. QED
    BY <1>1, <1>3, <1>2, <1>4, <1>5, <2>1, <1>6 DEF SoundHalf
<1>7. CASE ~(n.has /\ n.ihas)
  <2>1. CASE (n.has /\ hb = None) \/ (n.ihas /\ ha = None)
    <3>1. h = None
      BY <1>7, <2>1 DEF PickLevelHint
    <3>2. QED
      BY <1>2, <1>3, <1>5, <3>1 DEF SoundHalf
  <2>2. CASE ~((n.has /\ hb = None) \/ (n.ihas /\ ha = None))
    <3>1. h = OptMax(ha, hb)
      BY <1>7, <2>2 DEF PickLevelHint
    <3>2. CASE ha # None /\ hb # None
      BY <1>2, <1>3, <1>4, <3>1, <3>2 DEF SoundHalf
    <3>3. CASE ha = None /\ hb # None
      \* Then the inner half has no per-layer filter and vetoes above hb.
      <4>1. h = hb /\ ~n.ihas
        BY <2>2, <3>1, <3>3 DEF OptMax
      <4>2. Bounds(h, V)
        BY <1>1, <1>2, <4>1, BoundsSubset
      <4>3. Bounds(h, R)
        BY <1>2, <4>2, BoundsSubset
      <4>4. QED
        BY <1>2, <1>3, <4>2, <4>3 DEF SoundHalf
    <3>4. CASE ha # None /\ hb = None
      \* Then the outer half has no per-layer filter and vetoes above ha.
      <4>1. h = ha /\ ~n.has
        BY <2>2, <3>1, <3>4 DEF OptMax
      <4>2. Bounds(h, V)
        BY <1>1, <1>2, <4>1, BoundsSubset
      <4>3. Bounds(h, R)
        BY <1>2, <4>2, BoundsSubset
      <4>4. QED
        BY <1>2, <1>3, <4>2, <4>3 DEF SoundHalf
    <3>5. CASE ha = None /\ hb = None
      <4>1. h = None
        BY <3>1, <3>5 DEF OptMax
      <4>2. QED
        BY <1>2, <1>3, <1>5, <4>1 DEF SoundHalf
    <3>6. QED
      BY <3>2, <3>3, <3>4, <3>5
  <2>3. QED
    BY <2>1, <2>2
<1>8. QED
  BY <1>6, <1>7

\* A half sound without a per-layer filter is sound with one.
LEMMA SoundHalfWeaken ==
  ASSUME NEW h, NEW p, NEW q, NEW V, NEW R, SoundHalf(h, p, V, R), p => q
  PROVE  SoundHalf(h, q, V, R)
BY DEF SoundHalf

\* The same step for a node Layered(L, rest) of the subscriber, seen from
\* the node above it: its downcast_raw answers the PLF marker when either
\* half does (subscriber_has_plf), so the node above reads the flag
\* has \/ ihas, and the node's hint is sound for that flag too.
THEOREM HintSubscriberNodeSound ==
  ASSUME NEW n, n.isreg = FALSE, n.has \in BOOLEAN, n.ihas \in BOOLEAN,
         NEW ha, NEW hb, NEW Va, NEW Vb, NEW Ra, NEW Rb,
         SoundHalf(ha, n.has, Va, Ra), SoundHalf(hb, n.ihas, Vb, Rb)
  PROVE  SoundHalf(PickLevelHint(n, ha, hb), n.has \/ n.ihas,
                   NodeLets(Va, Vb), NodeReaches(Va, Vb, Ra, Rb))
<1>1. SoundHalf(PickLevelHint(n, ha, hb), n.has /\ n.ihas,
                NodeLets(Va, Vb), NodeReaches(Va, Vb, Ra, Rb))
  BY HintNodeSound
<1>2. QED
  BY <1>1, SoundHalfWeaken

\* The Registry as the inner half: it has no hint and hands events to no
\* layer, whatever its enabled() (FilterState::event_enabled) answers.
LEMMA RegistrySound ==
  ASSUME NEW Vb \in SUBSET Levels
  PROVE  SoundHalf(None, FALSE, Vb, {})
BY NoneBounds DEF SoundHalf, Hints

\* The inner_is_registry rule of pick_level_hint, which returns the outer
\* hint alone, is sound for the node Layered(L, Registry): whatever the
\* Registry lets through, the node reaches only what L reaches, and lets
\* through only what L lets through.
THEOREM HintRegistrySound ==
  ASSUME NEW n, n.isreg = TRUE, n.has \in BOOLEAN,
         NEW ha, NEW Va, NEW Ra, SoundHalf(ha, n.has, Va, Ra),
         NEW Vb \in SUBSET Levels
  PROVE  SoundHalf(PickLevelHint(n, ha, None), n.has,
                   NodeLets(Va, Vb), NodeReaches(Va, Vb, Ra, {}))
<1>1. PickLevelHint(n, ha, None) = ha
  BY DEF PickLevelHint
<1>2. NodeReaches(Va, Vb, Ra, {}) \subseteq Ra
  BY DEF NodeReaches
<1>3. NodeLets(Va, Vb) \subseteq Va /\ NodeReaches(Va, Vb, Ra, {}) \subseteq NodeLets(Va, Vb)
  BY DEF NodeLets, NodeReaches
<1>4. QED
  BY <1>1, <1>2, <1>3, BoundsSubset DEF SoundHalf

\* Layered::new sets inner_is_registry from the type parameter S, which
\* is the Registry at every node of a layer tree attached to it with
\* and_then(...).with_subscriber(Registry).  At such a node the inner half
\* is a layer, and the rule is unsound: in
\* p2.and_then(Filtered::new(p1, LevelFilter::ERROR)) the outer Filtered
\* layer's hint ERROR is returned, although the inner plain layer p2
\* takes events of every level (the tree_on_registry finding, for every
\* number of levels above one).
THEOREM HintShortcutUnsound ==
  ASSUME MaxLevel >= 2
  PROVE  \E n \in [isreg : {TRUE}, has : BOOLEAN, ihas : BOOLEAN] :
         \E ha, hb \in Hints, Va, Vb, Ra, Rb \in SUBSET Levels :
           /\ SoundHalf(ha, n.has, Va, Ra)
           /\ SoundHalf(hb, n.ihas, Vb, Rb)
           /\ ~SoundHalf(PickLevelHint(n, ha, hb), n.has /\ n.ihas,
                         NodeLets(Va, Vb), NodeReaches(Va, Vb, Ra, Rb))
<1> DEFINE n == [isreg |-> TRUE, has |-> TRUE, ihas |-> TRUE]
\* The Filtered layer: its filter lets through ERROR (1) only.
<1>1. SoundHalf(1, TRUE, Levels, {1})
  BY DEF SoundHalf, Bounds, Above, Hints, LevelFilters, Levels
\* The plain layer p2 with no hint takes every level.
<1>2. SoundHalf(None, TRUE, Levels, Levels)
  BY NoneBounds DEF SoundHalf, Hints
<1>3. PickLevelHint(n, 1, None) = 1
  BY DEF PickLevelHint
<1>4. 2 \in NodeReaches(Levels, Levels, {1}, Levels) /\ Above(1, 2)
  BY DEF NodeReaches, Levels, Above, LevelFilters
<1>5. ~SoundHalf(PickLevelHint(n, 1, None), n.has /\ n.ihas,
                 NodeLets(Levels, Levels), NodeReaches(Levels, Levels, {1}, Levels))
  BY <1>3, <1>4 DEF SoundHalf, Bounds
<1>6. 1 \in Hints /\ None \in Hints /\ {1} \in SUBSET Levels /\ n \in [isreg : {TRUE}, has : BOOLEAN, ihas : BOOLEAN]
  BY DEF Hints, LevelFilters, Levels
<1>7. QED
  BY <1>1, <1>2, <1>5, <1>6

=============================================================================
