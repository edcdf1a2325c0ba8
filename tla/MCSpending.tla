----------------------------- MODULE MCSpending -----------------------------
(***************************************************************************)
(* What Gemini costs, seen from two sides, a scene each: "month", a small  *)
(* instance of Spending (the main cellar and an invited one, a few cents   *)
(* of cap, two months); "calls", the calls themselves, one after another   *)
(* around the night Paris changes its clocks, and their report.            *)
(***************************************************************************)
EXTENDS Spending, VisionCalls, TLC

CONSTANTS main, cave, p1, w1, s1,
  MaxMonth,  \* bound: months
  MaxBilled, \* bound: no search starts once the month's have cost that
  MaxStops   \* bound: stops of the api

VARIABLES scene, stops

vars == <<spendVars, callVars, scene, stops>>

CaveOfAll == (p1 :> cave) @@ (w1 :> cave)

Init == SpendingInit /\ CallsInit /\ scene \in {"month", "calls"} /\ stops = 0

MonthNext ==
  \/ SpendingStep /\ UNCHANGED stops
  \/ \E s \in Searches : Searched(Caves) < MaxBilled /\ StartSearch(s) /\ UNCHANGED stops
  \/ month < MaxMonth /\ NextMonth /\ UNCHANGED stops
  \/ stops < MaxStops /\ ApiStops /\ stops' = stops + 1

\* Every array is answered to the first call, so that there are not too many pasts.
CallsNext ==
  \/ \E usage \in Lots, answer \in Answered : calls = << >> /\ CallGemini(usage, answer)
  \/ \E usage \in GEMINI_USAGES, answer \in Others \union Refusals : CallGemini(usage, answer)
  \/ CallEnds
  \/ \E n \in {44, 49} : TimeGoesBy(n)

OtherScene == UNCHANGED <<callVars, scene>>

Next ==
  \/ scene = "month" /\ MonthNext /\ OtherScene
  \/ scene = "calls" /\ CallsNext /\ UNCHANGED <<spendVars, scene, stops>>

SearchAdvances(s) == scene = "month" /\ SearchGoesOn(s) /\ OtherScene /\ UNCHANGED stops

Spec == Init /\ [][Next]_vars /\ \A s \in Searches : WF_vars(SearchAdvances(s))
=============================================================================
