------------------------------ MODULE FilterMap ------------------------------
(***************************************************************************)
(* FilterId and FilterMap of tracing-subscriber's per-layer filtering      *)
(* (src/tracing-subscriber/src/filter/layer_filters.rs).                   *)
(*                                                                         *)
(* A FilterMap is a u64 whose bit i is set when the filter with id i has   *)
(* DISABLED the span or event being filtered.  The data is abstracted to   *)
(* the set of positions of the set bits; the width of the word is the      *)
(* constant Width (64 in the code, smaller for model checking), and        *)
(* "bits = u64::MAX" becomes "every position 0..Width-1 is set".           *)
(***************************************************************************)
EXTENDS Naturals

CONSTANT
  Width    \* number of bits of the FilterMap word (u64: 64)

ASSUME WidthAssumption == Width \in Nat \ {0}

\* The ids FilterId::new accepts (it asserts id < 64).
FilterIds == 0 .. (Width - 1)

\* A FilterMap value: the set of the ids whose bit is set.
FilterMaps == SUBSET FilterIds

\* FilterMap::default(): no bit set, every filter enabled.
DefaultMap == {}

\* FilterMap::is_enabled: false for an id outside the word (the sentinel
\* FilterId(255) of a Filtered that was never registered), otherwise true
\* when the id's bit is clear.  FilterMap::set (setting or clearing one
\* bit) is written out in place, as set difference and union, where
\* PlfSubscriber applies it.
IsEnabled(map, idx) == idx \in FilterIds /\ idx \notin map

\* FilterMap::any_enabled: bits != u64::MAX.
AnyEnabled(map) == map # FilterIds

=============================================================================
