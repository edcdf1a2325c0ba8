----------------------------- MODULE PhotoSender -----------------------------
(***************************************************************************)
(* Entry photos kept on the phone until they are sent.  The queue is one   *)
(* database for all tabs, and the session one cookie; the account a tab    *)
(* sends for, its timer and the sending in flight are its own.  A request  *)
(* leaves with the session of that moment, and its answer may be lost.     *)
(***************************************************************************)
EXTENDS Naturals, FiniteSets, FiniteSetsExt

CONSTANTS
  Tabs,    \* windows of the application
  Users,   \* owners who sign in on this phone
  Items,   \* photos, numbered in the order they are taken
  Legacy,  \* those queued by a version that wrote no account
  MaxItems, \* QUEUE_LIMITS.maxItems
  Nobody   \* no session, no account

ASSUME PhotoSenderAssumption ==
  Items \subseteq Nat /\ Legacy \subseteq Items /\ Nobody \notin Users /\ MaxItems \in Nat

VARIABLES
  session, \* whose cookie the browser has
  account, \* the account each tab sends for
  item,    \* each photo: where it is, and the account that took it
  flush,   \* the sending in flight in each tab
  timer,   \* the 15 s timer of each tab is armed
  arming,  \* an armTimer of the tab has yet to read the queue
  got,     \* photos the server has, by the owner of the cellar it put them in
  refused, \* photos the server said are no good
  taken,   \* history: photos taken in each tab since it was opened
  switched \* history: tabs that opened for, or are sending for, an earlier session

senderVars == <<session, account, item, flush, timer, arming, got, refused, taken, switched>>

Someone == Users \union {Nobody}
NoFlush == [at |-> "none", owner |-> Nobody, todo |-> {}, answer |-> "none"]

SenderTypeOK ==
  /\ session \in Someone
  /\ account \in [Tabs -> Someone]
  /\ item \in [Items -> [at : {"camera", "queued", "gone"}, by : Someone]]
  /\ flush \in [Tabs -> [at : {"none", "next", "asked"}, owner : Someone,
                         todo : SUBSET Items, answer : {"none", "ok", "no", "later"}]]
  /\ timer \in [Tabs -> BOOLEAN] /\ arming \in [Tabs -> BOOLEAN]
  /\ got \subseteq Items \X Users
  /\ refused \subseteq Items
  /\ switched \subseteq Tabs
  /\ taken \in [Tabs -> SUBSET Items]

Queued == {i \in Items : item[i].at = "queued"}

\* Mutant: whoever empties the queue sends what is in it.
BelongsToAnyone(i, u) == TRUE

BelongsTo(i, u) == item[i].by \in {u, Nobody}

Foremost(t) == Min(flush[t].todo)

-----------------------------------------------------------------------------
(* The sender *)

\* The photos that leave with an account.
Sendable(u) == {i \in Queued : BelongsTo(i, u)}

\* sendQueuedPhotos: one sending at a time in a tab, of what the queue holds at its
\* start, for the account of its start.
Started(t, u) ==
  IF flush[t].at = "none" THEN [at |-> "next", owner |-> u, todo |-> Sendable(u), answer |-> "none"]
  ELSE flush[t]

\* The timer; the network that comes back and the application looked at again
\* send nothing sooner than it could.
Trigger(t) ==
  /\ account[t] # Nobody /\ timer[t]
  /\ flush[t].at = "none"
  /\ flush' = [flush EXCEPT ![t] = Started(t, account[t])]
  /\ UNCHANGED <<session, account, item, timer, arming, got, refused, taken, switched>>

\* The request and what the server makes of it.
Upload(t, answer) ==
  /\ flush[t].at = "next" /\ flush[t].todo # {}
  /\ session = Nobody => answer = "later"
  /\ got' = IF answer = "ok" THEN got \union {<<Foremost(t), session>>} ELSE got
  /\ refused' = IF answer = "no" THEN refused \union {Foremost(t)} ELSE refused
  /\ flush' = [flush EXCEPT ![t].at = "asked", ![t].answer = answer]
  /\ UNCHANGED <<session, account, item, timer, arming, taken, switched>>

\* finally: the sending is over, and the tab's timer looks at the queue again.
Over(t) ==
  /\ flush' = [flush EXCEPT ![t] = NoFlush]
  /\ arming' = [arming EXCEPT ![t] = account[t] # Nobody]
  /\ switched' = IF account[t] = session THEN switched \ {t} ELSE switched

AllSent(t) ==
  /\ flush[t].at = "next" /\ flush[t].todo = {}
  /\ Over(t)
  /\ UNCHANGED <<session, account, item, timer, got, refused, taken>>

\* Mutant: any refusal takes the photo off the phone.
FinalToo(answer) == answer \in {"ok", "no", "later"}

\* A failure of the network or of the session, or a server that cannot, is not final.
Final(answer) == answer \in {"ok", "no"}

\* The answer comes: the photo leaves the phone, or the sending stops there.
Answered(t) ==
  /\ flush[t].at = "asked"
  /\ IF Final(flush[t].answer)
     THEN /\ item' = [item EXCEPT ![Foremost(t)].at = "gone"]
          /\ flush' = [flush EXCEPT ![t] = [@ EXCEPT !.at = "next", !.answer = "none",
                                              !.todo = flush[t].todo \ {Foremost(t)}]]
          /\ UNCHANGED <<arming, switched>>
     ELSE Over(t) /\ UNCHANGED item
  /\ UNCHANGED <<session, account, timer, got, refused, taken>>

\* The answer is lost: a failure like another.
AnswerLost(t) ==
  /\ flush[t].at = "asked"
  /\ Over(t)
  /\ UNCHANGED <<session, account, item, timer, got, refused, taken>>

\* Mutant: the timer is only ever put out.
ArmedOff(t) == FALSE

\* armTimer: armed while the account has photos in the queue.
Armed(t) == \E i \in Queued : BelongsTo(i, account[t])

ArmTimer(t) ==
  /\ arming[t]
  /\ arming' = [arming EXCEPT ![t] = FALSE]
  /\ timer' = [timer EXCEPT ![t] = Armed(t)]
  /\ UNCHANGED <<session, account, item, flush, got, refused, taken, switched>>

-----------------------------------------------------------------------------
(* The owner *)

\* Taken, kept with the account the page shows, and the sender woken up.
Take(t) ==
  /\ account[t] # Nobody
  /\ Cardinality(Queued) < MaxItems
  /\ \E i \in Items :
       /\ item[i].at = "camera" /\ \A j \in Items : item[j].at = "camera" => i <= j
       /\ item' = [item EXCEPT ![i] = [at |-> "queued", by |-> account[t]]]
       /\ flush' = [flush EXCEPT ![t] =
            IF @.at = "none" THEN [@ EXCEPT !.at = "next", !.owner = account[t],
                                            !.todo = Sendable(account[t]) \union {i}] ELSE @]
       /\ taken' = [taken EXCEPT ![t] = @ \union {i}]
  /\ arming' = [arming EXCEPT ![t] = TRUE]
  /\ UNCHANGED <<session, account, timer, got, refused, switched>>

\* A sign-in or sign-out, in whichever tab: the cookie of all of them changes.
SwitchSession(u) ==
  /\ session # u
  /\ session' = u
  /\ switched' = switched \union {t \in Tabs : account[t] # Nobody \/ flush[t].at # "none"}
  /\ UNCHANGED <<account, item, flush, timer, arming, got, refused, taken>>

\* A tab learns who is signed in: the effect of useBackgroundSender runs again.
Refresh(t) ==
  /\ account[t] # session
  /\ account' = [account EXCEPT ![t] = session]
  /\ timer' = [timer EXCEPT ![t] = FALSE]
  /\ arming' = [arming EXCEPT ![t] = session # Nobody]
  /\ flush' = IF session # Nobody THEN [flush EXCEPT ![t] = Started(t, session)] ELSE flush
  /\ switched' = IF flush[t].at = "none" THEN switched \ {t} ELSE switched
  /\ UNCHANGED <<session, item, got, refused, taken>>

\* Closed or reloaded, in the middle of anything.
CloseTab(t) ==
  /\ account[t] # Nobody \/ flush[t].at # "none"
  /\ account' = [account EXCEPT ![t] = Nobody]
  /\ flush' = [flush EXCEPT ![t] = NoFlush]
  /\ timer' = [timer EXCEPT ![t] = FALSE]
  /\ arming' = [arming EXCEPT ![t] = FALSE]
  /\ taken' = [taken EXCEPT ![t] = {}]
  /\ switched' = switched \ {t}
  /\ UNCHANGED <<session, item, got, refused>>

SenderInit ==
  /\ session \in Someone
  /\ account = [t \in Tabs |-> Nobody]
  /\ item = [i \in Items |-> [at |-> IF i \in Legacy THEN "queued" ELSE "camera", by |-> Nobody]]
  /\ flush = [t \in Tabs |-> NoFlush]
  /\ timer = [t \in Tabs |-> FALSE] /\ arming = [t \in Tabs |-> FALSE]
  /\ got = {} /\ refused = {} /\ switched = {}
  /\ taken = [t \in Tabs |-> {}]

Sending(t) ==
  \/ Trigger(t) \/ AllSent(t) \/ Answered(t) \/ ArmTimer(t)
  \/ \E answer \in {"ok", "no"} : Upload(t, answer)

SenderStep == \E t \in Tabs : Sending(t) \/ Take(t) \/ Refresh(t)

\* What may go wrong: a server that cannot, a lost answer, a closed tab, another session.
SenderUpset ==
  \/ \E t \in Tabs : Upload(t, "later") \/ AnswerLost(t) \/ CloseTab(t)
  \/ \E u \in Someone : SwitchSession(u)

-----------------------------------------------------------------------------
(* Properties *)

\* A photo that was kept is on the phone until the server has it, or has said it is
\* no good: no sign-out, lost answer, closed tab or second tab loses it
\* (offline-queue.ts:102-106, 117-120).
NeverLost ==
  \A i \in Items : item[i].at = "gone" => i \in refused \/ \E u \in Users : <<i, u>> \in got

\* A photo goes to the cellar of another account only from a tab that had not learnt
\* of a change of session, or a sending begun before it; a photo without an account
\* goes to whoever comes first (offline-queue.ts:17-25).
StrangersOnlyAcrossSessions ==
  [][\A t \in Tabs : \A u \in Users :
       flush[t].at = "next" /\ flush'[t].at = "asked" /\ got' # got /\ flush[t].todo # {} /\ session = u =>
         item[Foremost(t)].by \in {u, Nobody} \/ t \in switched]_senderVars

\* What an owner takes leaves the phone, as long as the tab and the session stay
\* theirs and the server does not put the photo off for ever (photo-sender.ts:13-18,
\* use-background-sender.ts:10-12).
QueueDrains ==
  \A i \in Items \ Legacy, t \in Tabs :
    item[i].at = "queued" /\ i \in taken[t] /\ item[i].by = account[t] ~>
      item[i].at = "gone" \/ item[i].by # account[t] \/ session # account[t]

\* "jamais envoyées dans la cave d'un autre" (offline-queue.ts:103-106).
OwnCaveOnly == \A i \in Items, u \in Users : <<i, u>> \in got => item[i].by \in {u, Nobody}
=============================================================================
