------------------------------- MODULE MCPhone -------------------------------
(***************************************************************************)
(* The web application on the phones, for TLC: a behaviour, its scene, is  *)
(* of the photo sender, of the exit screens, of the page of photos to      *)
(* confirm, of the page that confirms one, of a wine's page or of the      *)
(* cellar's.  The six share nothing.                                       *)
(***************************************************************************)
EXTENDS PhotoSender, ExitScreen, InboxScreen, ConfirmScreen, FicheScreen, PlanPage, TLC

CONSTANTS
  t1, t2, anna, bruno, w1, w2, x1, x2, a1, a2,
  Scenes,     \* those of the run, among "sender", "exit", "inbox", "confirm", "fiche" and "plan"
  MaxUpsets

VARIABLES
  scene,
  upsets      \* what has gone wrong so far with the sender

vars == <<senderVars, exitScreenVars, inboxVars, confirmVars, ficheVars, planPageVars, scene, upsets>>

\* One bottle of a wine, two of another.
TwoWines == (w1 :> 1) @@ (w2 :> 2)

\* A label read whole, or without its colour.
MCReadings == {[producer |-> "a", color |-> c] : c \in {"BLANC", Null}}
MCTyped == [f \in READ_FIELDS |-> IF f = "producer" THEN {"b"} ELSE {"BLANC"}]

OneBottle == [p \in Spaces |-> IF p = NoRack THEN 1 ELSE 0]
OneArea == <<a1>>
MCMarked == [z \in Areas |-> IF z = a1 THEN x1 ELSE Unmarked]

Init ==
  /\ SenderInit /\ session = anna
  /\ ExitScreenInit /\ InboxInit /\ ConfirmInit /\ FicheInit /\ PlanPageInit
  /\ scene \in Scenes /\ upsets = 0

SenderSteps ==
  \/ SenderStep /\ UNCHANGED upsets
  \/ upsets < MaxUpsets /\ SenderUpset /\ upsets' = upsets + 1
  \/ session = Nobody /\ (\E u \in Users : SwitchSession(u)) /\ UNCHANGED upsets

PagesButPhotos == UNCHANGED <<ficheVars, planPageVars, scene>>
SendersAndExits == UNCHANGED <<senderVars, exitScreenVars, upsets>>

Next ==
  \/ scene = "sender"  /\ SenderSteps    /\ UNCHANGED <<exitScreenVars, inboxVars, confirmVars>> /\ PagesButPhotos
  \/ scene = "exit"    /\ ExitScreenStep /\ UNCHANGED <<senderVars, inboxVars, confirmVars, upsets>> /\ PagesButPhotos
  \/ scene = "inbox"   /\ InboxStep      /\ UNCHANGED confirmVars /\ SendersAndExits /\ PagesButPhotos
  \/ scene = "confirm" /\ ConfirmStep    /\ UNCHANGED inboxVars /\ SendersAndExits /\ PagesButPhotos
  \/ scene = "fiche"   /\ FicheStep      /\ UNCHANGED <<inboxVars, confirmVars, planPageVars, scene>> /\ SendersAndExits
  \/ scene = "plan"    /\ PlanPageStep   /\ UNCHANGED <<inboxVars, confirmVars, ficheVars, scene>> /\ SendersAndExits

Spec == Init /\ [][Next]_vars

SenderGoesOn(t) ==
  scene = "sender" /\ Sending(t) /\ UNCHANGED <<exitScreenVars, inboxVars, confirmVars, upsets>> /\ PagesButPhotos

\* The steps of the sender happen: the page runs, the 15 s go by, requests are answered.
Fairness == \A t \in Tabs : WF_vars(SenderGoesOn(t))

FairSpec == Spec /\ Fairness

-----------------------------------------------------------------------------
(* Properties *)

\* What is sent again goes under the key it had the first time: a visit of the list of
\* photos keeps one key, and a form of the wine's page writes one movement at most
\* however often it is sent, whatever was changed in it or taken by others in between
\* (AConfirmerPage.tsx:60-62, LocationsBlock.tsx:107-108, WinePage.tsx:58-59).
KeysKept == OneKeyPerVisit /\ FormsWriteOnce
=============================================================================
