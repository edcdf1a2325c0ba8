-------------------------- MODULE MCGenerationQueue --------------------------
(***************************************************************************)
(* GenerationQueue for TLC, a scene each: "lots", two requests, one of a   *)
(* producer whose wines are gone, and one worker; "stale", two workers and *)
(* a text asked for again, or edited, while their calls are on their way.  *)
(***************************************************************************)
EXTENDS GenerationQueue, TLC

CONSTANTS q1, q2, w1, w2

VARIABLE scene

MCVars == <<vars, scene>>

Deployed(w) == w = w1 \/ scene = "stale"

MCInit ==
  /\ NothingYet
  /\ scene \in {"lots", "stale"}
  /\ work = [w \in Workers |-> At(IF Deployed(w) THEN "idle" ELSE "down")]

\* Lots are asked for once, whatever the budget; one text is asked for again within it.
MCNext ==
  /\ Next
  /\ \A w \in Workers : ~ Deployed(w) => work'[w] = work[w]
  /\ scene = "lots" => \A q \in Requests : row'[q].asked <= 1
  /\ scene = "stale" => row'[q2].status = "absent" /\ ~ capped'
  /\ UNCHANGED scene

\* FairSpec's fairness, of the workers that are deployed.
MCSpec ==
  /\ MCInit /\ [][MCNext]_MCVars
  /\ \A w \in Workers : WF_vars(Deployed(w) /\ Step(w))
  /\ SF_vars(Pass)
=============================================================================
