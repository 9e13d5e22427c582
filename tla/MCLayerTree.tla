---------------------------- MODULE MCLayerTree ----------------------------
(***************************************************************************)
(* Model-checking instances of LayerTree.  A leaf of kind "P" is a plain   *)
(* layer, "F" a Filtered around a plain layer, "N" Option::None and "FF"   *)
(* a Filtered around a Filtered around a plain layer.  Leaf i uses the     *)
(* names p_i, f_i (and g_i for the inner filter of "FF"), so names are     *)
(* never shared.                                                           *)
(***************************************************************************)
EXTENDS LayerTree, TLC

CONSTANTS p1, p2, p3, f1, f2, f3, g1, g2, g3, e1, e2

P == <<p1, p2, p3>>
F == <<f1, f2, f3>>
G == <<g1, g2, g3>>

Leaf(kind, i) ==
  CASE kind = "P" -> PlainLayer(P[i])
    [] kind = "F" -> FilteredNew(PlainLayer(P[i]), F[i])
    [] kind = "FF" -> FilteredNew(FilteredNew(PlainLayer(P[i]), G[i]), F[i])
    [] OTHER -> NoneLayer

Kinds == {"P", "F", "N"}
AllKinds == Kinds \cup {"FF"}

\* leaf1.and_then... : Layered(leaf 1, leaf 2) used as a layer, on a
\* subscriber that is (isReg) or is not the Registry.
Pair(x, y, isReg) == AndThen(Leaf(y, 2), Leaf(x, 1), isReg)

\* Chains of one or two layers (nested Filtered ones included), and a
\* two-leaf tree above a single layer: no layer tree sits directly on the
\* Registry.
ChainsAndUpperTrees ==
  {<<Leaf(x, 1)>> : x \in AllKinds}
    \cup {<<Leaf(x, 1), Leaf(y, 2)>> : x, y \in AllKinds}
    \cup {<<Pair(x, y, FALSE), Leaf(z, 3)>> : x, y, z \in Kinds}

\* A two-leaf tree directly on the Registry.
TreesOnRegistry == {<<Pair(x, y, TRUE)>> : x, y \in Kinds}

\* A Filtered around a Filtered, on the Registry.
NestedFiltered == {<<Leaf("FF", 1)>>}

PlainSet == {p1, p2, p3}
FilterSet == {f1, f2, f3, g1, g2, g3}
Ids == (f1 :> 0) @@ (f2 :> 1) @@ (f3 :> 2) @@ (g1 :> 3) @@ (g2 :> 4) @@ (g3 :> 5)
OneCallsite == {e1}
TwoCallsites == {e1, e2}
\* e1 at the most verbose level, e2 one below.
Levels2 == (e1 :> 2) @@ (e2 :> 1)
Levels1 == e1 :> 2

\* Hints below the level of e1, and none.  Filters: a LevelFilter below
\* e1, a FilterFn without a hint, and a FilterFn with a hint below e1 and a
\* callsite callback.
SmallHints == {1, None}
SmallFilterConfigs ==
  {[kind |-> "level", lvl |-> 1],
   [kind |-> "fn", hint |-> None, cb |-> FALSE],
   [kind |-> "fn", hint |-> 1, cb |-> TRUE]}

=============================================================================
