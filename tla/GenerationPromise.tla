-------------------------- MODULE GenerationPromise --------------------------
(***************************************************************************)
(* What the queues of pairings and producer profiles promise whoever asks: *)
(* a request waits until it is served or given up, each once; what serves  *)
(* it was generated for the last time it was asked; and a text written by  *)
(* hand stays until somebody asks for a generated one again.               *)
(***************************************************************************)
EXTENDS Naturals

CONSTANT Requests

VARIABLE wish

Wish == [state : {"none", "waiting", "served", "failed", "written"}, asked : Nat, answered : Nat]

Init == wish = [q \in Requests |-> [state |-> "none", asked |-> 0, answered |-> 0]]

\* Somebody asks, for the first time or again: what comes must be new.
Ask(q) == wish' = [wish EXCEPT ![q].state = "waiting", ![q].asked = @ + 1]

\* An administrator writes the text.
Edit(q) == wish' = [wish EXCEPT ![q].state = "written"]

\* What was generated since the last request, and only that, ends the wait.
Serve(q) ==
  /\ wish[q].state = "waiting"
  /\ wish' = [wish EXCEPT ![q].state = "served", ![q].answered = wish[q].asked]

\* Several may be given up at once: one update for all that a fallen worker held.
GiveUp(some) ==
  /\ \A q \in some : wish[q].state = "waiting"
  /\ wish' = [q \in Requests |-> IF q \in some THEN [wish[q] EXCEPT !.state = "failed"] ELSE wish[q]]

Next ==
  \/ \E q \in Requests : Ask(q) \/ Edit(q) \/ Serve(q)
  \/ \E some \in SUBSET Requests : GiveUp(some)

Spec == Init /\ [][Next]_wish
=============================================================================
