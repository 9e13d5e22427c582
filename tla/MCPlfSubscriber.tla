--------------------------- MODULE MCPlfSubscriber ---------------------------
(***************************************************************************)
(* Model-checking instances of PlfSubscriber.  The chains below are the    *)
(* shapes the runs compare: a plain layer outside two Filtered layers      *)
(* (the usual global-filter-then-PLF stack), a Filtered layer outside a    *)
(* plain one, and a single Filtered layer.                                 *)
(***************************************************************************)
EXTENDS PlfSubscriber, TLC

CONSTANTS t1, t2, e1, e2, sp1, s1, s2

\* Layered(plain, Layered(Filtered, Layered(Filtered, Registry))).
\* with() registers the innermost layer first, so it gets id 0.
PlainOuterLayers == <<"plain", "filtered", "filtered">>
PlainOuterIds == (2 :> 1) @@ (3 :> 0)

\* Layered(Filtered, Layered(plain, Registry)).
FilteredOuterLayers == <<"filtered", "plain">>
FilteredOuterIds == 1 :> 0

\* Layered(plain, Layered(Filtered, Registry)).
PlainOuterLayersOne == <<"plain", "filtered">>
PlainOuterOneIds == 2 :> 0

\* Layered(Filtered, Registry).
SingleLayers == <<"filtered">>
SingleIds == 1 :> 0

OneThread == {t1}
TwoThreads == {t1, t2}
OneEvent == {e1}
TwoEvents == {e1, e2}
OneSpanCallsite == {sp1}
TwoSpans == {s1, s2}
NoSpans == {}

SpanSymmetry == Permutations(TwoSpans)
ThreadSpanSymmetry == Permutations(TwoThreads) \cup Permutations(TwoSpans)

=============================================================================
