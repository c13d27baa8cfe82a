---------------------------- MODULE ActorHandoff ----------------------------
(***************************************************************************)
(* What hosted actor migration promises, whatever the nodes do: a session  *)
(* holds at most one state, no state is in two places, a state changes     *)
(* only by advancing where it is, and moves only as it is.                 *)
(***************************************************************************)
EXTENDS Naturals

CONSTANTS Sessions,     \* where a state may live
          Generations,  \* numbers of the actors a session may bear
          Nothing       \* what a session without a state holds

VARIABLE held           \* the state of each session: [lin |-> <<bearer, number>>, v]

\* The sessions that hold lineage l.
Homes(l) == {s \in Sessions : held[s] # Nothing /\ held[s].lin = l}

Init ==
  \A s \in Sessions :
    \/ held[s] = Nothing
    \/ \E g \in Generations : held[s] = [lin |-> <<s, g>>, v |-> 1]

\* A session without a state bears one, which is nowhere else.
Bear(s, g) ==
  /\ held[s] = Nothing /\ Homes(<<s, g>>) = {}
  /\ held' = [held EXCEPT ![s] = [lin |-> <<s, g>>, v |-> 1]]

\* An operation carries the state of s on, where it is.
Advance(s) ==
  /\ held[s] # Nothing
  /\ held' = [held EXCEPT ![s].v = @ + 1]

\* The state of s moves to t as it is, and replaces what was there.
Transfer(s, t) ==
  /\ s # t /\ held[s] # Nothing
  /\ held' = [held EXCEPT ![s] = Nothing, ![t] = held[s]]

\* The client gives the state of s up.
Drop(s) ==
  /\ held[s] # Nothing
  /\ held' = [held EXCEPT ![s] = Nothing]

Next ==
  \E s \in Sessions :
    \/ Advance(s) \/ Drop(s)
    \/ \E g \in Generations : Bear(s, g)
    \/ \E t \in Sessions : Transfer(s, t)

Spec == Init /\ [][Next]_held
=============================================================================
