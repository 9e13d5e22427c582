---------------------------- MODULE PlfSpanView ----------------------------
(***************************************************************************)
(* What per-layer filtering promises each Filtered layer about spans,      *)
(* with no FilterMap, no thread and no Layered in sight.                   *)
(*                                                                         *)
(* A span is created once, gets more handles and loses them, and closes    *)
(* when its last handle goes.  At creation some set of Filtered layers     *)
(* take it (whichever their filters chose); from then on only those layers *)
(* hear of it (record, enter, exit, follows_from), and each of them, and   *)
(* no other, is told when it closes.                                       *)
(*                                                                         *)
(* PlfSubscriber implements this specification; the refinement mapping is  *)
(* in PlfSubscriber (View).                                                *)
(***************************************************************************)
EXTENDS Naturals

CONSTANTS
  Filtered,  \* the Filtered layers
  Spans,     \* span ids
  MaxRefs    \* bound: handles of one span

VARIABLES
  state,     \* each span: "unused", "live" or "closed"
  handles,   \* each span's handles
  view,      \* each layer: the spans it took at creation
  heard,     \* each layer: the spans it took or heard a callback about
  closedSeen \* each layer: the spans it was told had closed

absVars == <<state, handles, view, heard, closedSeen>>

\* The layers that took span s.
Viewers(s) == {i \in Filtered : s \in view[i]}

Init ==
  /\ state = [s \in Spans |-> "unused"]
  /\ handles = [s \in Spans |-> 0]
  /\ view = [i \in Filtered |-> {}]
  /\ heard = [i \in Filtered |-> {}]
  /\ closedSeen = [i \in Filtered |-> {}]

\* new_span: span s is created with one handle; the layers in E take it.
New(s, E) ==
  /\ state[s] = "unused"
  /\ E \subseteq Filtered
  /\ state' = [state EXCEPT ![s] = "live"]
  /\ handles' = [handles EXCEPT ![s] = 1]
  /\ view' = [i \in Filtered |-> IF i \in E THEN view[i] \cup {s} ELSE view[i]]
  /\ heard' = [i \in Filtered |-> IF i \in E THEN heard[i] \cup {s} ELSE heard[i]]
  /\ UNCHANGED closedSeen

\* A callback about the live spans S reaches the layers in I, each of which
\* took every span of S.
Hear(S, I) ==
  /\ \A s \in S : state[s] = "live"
  /\ \A i \in I : S \subseteq view[i]
  /\ heard' = [i \in Filtered |-> IF i \in I THEN heard[i] \cup S ELSE heard[i]]
  /\ UNCHANGED <<state, handles, view, closedSeen>>

\* clone_span: one more handle.
Clone(s) ==
  /\ state[s] = "live"
  /\ handles[s] < MaxRefs
  /\ handles' = [handles EXCEPT ![s] = @ + 1]
  /\ UNCHANGED <<state, view, heard, closedSeen>>

\* try_close: one handle fewer; the last one closes the span and tells
\* exactly the layers that took it.
Close(s) ==
  /\ state[s] = "live"
  /\ handles' = [handles EXCEPT ![s] = @ - 1]
  /\ IF handles[s] = 1
     THEN /\ state' = [state EXCEPT ![s] = "closed"]
          /\ closedSeen' = [i \in Filtered |->
                              IF i \in Viewers(s) THEN closedSeen[i] \cup {s}
                              ELSE closedSeen[i]]
     ELSE UNCHANGED <<state, closedSeen>>
  /\ UNCHANGED <<view, heard>>

Next ==
  \/ \E s \in Spans :
       \/ \E E \in SUBSET Filtered : New(s, E)
       \/ Clone(s)
       \/ Close(s)
  \/ \E S \in SUBSET Spans, I \in SUBSET Filtered : Hear(S, I)

Spec == Init /\ [][Next]_absVars

=============================================================================
