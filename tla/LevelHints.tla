----------------------------- MODULE LevelHints -----------------------------
(***************************************************************************)
(* Levels, level hints and Layered::pick_level_hint: how one Layered node  *)
(* combines the max_level_hint of its outer layer with its inner one.      *)
(* A node is a record with the three flags Layered::new computes:          *)
(*   has    has_layer_filter:   the outer layer has a per-layer filter     *)
(*   ihas   inner_has_layer_filter                                         *)
(*   isreg  inner_is_registry                                              *)
(* The walks over whole layer trees are in LayerTree, which extends this   *)
(* module; the combination step is kept here, free of recursion, so that   *)
(* LevelHintsProofs can reason about it.                                   *)
(***************************************************************************)
EXTENDS Naturals

CONSTANTS
  MaxLevel,  \* the most verbose level (TRACE is 5 in the code)
  None       \* Option::None: no hint

Levels == 1 .. MaxLevel
\* LevelFilter: OFF is 0, below every level.
LevelFilters == 0 .. MaxLevel
Hints == LevelFilters \cup {None}

ASSUME HintAssumption ==
  /\ MaxLevel \in Nat \ {0}
  /\ None \notin LevelFilters

\* A level lies above a hint: the hint promises it is never enabled.
Above(hint, lvl) == hint # None /\ lvl > hint

\* max(Option<LevelFilter>, Option<LevelFilter>): None orders below Some.
OptMax(a, b) ==
  IF a = None THEN b ELSE IF b = None THEN a ELSE IF a >= b THEN a ELSE b

\* Mutant: pick_level_hint without the rule that an outer layer with no
\* hint over per-layer-filtered inner layers gives no hint.
PickLevelHintNoOuterNone(n, outer, inner) ==
  IF n.isreg THEN outer
  ELSE IF n.has /\ n.ihas
       THEN IF outer = None \/ inner = None THEN None ELSE OptMax(outer, inner)
  ELSE IF n.has /\ inner = None THEN None
  ELSE OptMax(outer, inner)

\* Layered::pick_level_hint at node n.
PickLevelHint(n, outer, inner) ==
  IF n.isreg THEN outer
  ELSE IF n.has /\ n.ihas
       THEN IF outer = None \/ inner = None THEN None ELSE OptMax(outer, inner)
  ELSE IF n.has /\ inner = None THEN None
  ELSE IF n.ihas /\ outer = None THEN None
  ELSE OptMax(outer, inner)

=============================================================================
