----------------------------- MODULE PhoneProofs -----------------------------
(***************************************************************************)
(* What the web application keeps on the phones, for any number of tabs,   *)
(* accounts, photos, wines, visits, forms and zones: proofs about          *)
(* PhotoSender, ExitScreen, InboxScreen, ConfirmScreen, FicheScreen and    *)
(* PlanPage, which share nothing, each from an inductive invariant of its  *)
(* own.                                                                    *)
(***************************************************************************)
EXTENDS MCPhone, FiniteSetTheorems, WellFoundedInduction, TLAPS

-----------------------------------------------------------------------------
(* The sender alone, and what holds between its steps *)

SenderNext == SenderStep \/ SenderUpset

SenderSpec == SenderInit /\ [][SenderNext]_senderVars

\* While the answer to a photo is on its way, the server has done what it will say.
AnswersKept ==
  \A t \in Tabs : flush[t].at = "asked" =>
    /\ flush[t].todo # {}
    /\ flush[t].answer = "ok" => \E u \in Users : <<Foremost(t), u>> \in got
    /\ flush[t].answer = "no" => Foremost(t) \in refused

\* A tab that is not behind sends for whoever is signed in.
InStep ==
  \A t \in Tabs \ switched :
    /\ account[t] \in {session, Nobody}
    /\ flush[t].at # "none" => flush[t].owner = session

\* A sending holds only photos of its account, or of none.
OwnPhotosOnly ==
  \A t \in Tabs : \A i \in flush[t].todo : item[i].at # "camera" /\ item[i].by \in {flush[t].owner, Nobody}

Flushes == [at : {"none", "next", "asked"}, owner : Someone,
            todo : SUBSET Items, answer : {"none", "ok", "no", "later"}]

SenderInv == SenderTypeOK /\ AnswersKept /\ InStep /\ OwnPhotosOnly /\ NeverLost

\* The photo in front of those a sending has left is one of them.
LEMMA ForemostIsOne ==
  ASSUME SenderTypeOK, NEW t \in Tabs, flush[t].todo # {}
  PROVE  Foremost(t) \in flush[t].todo /\ Foremost(t) \in Items
<1> DEFINE T == flush[t].todo
<1>1. T \subseteq Items /\ Items \subseteq Nat
  BY PhotoSenderAssumption DEF SenderTypeOK
<1>2. PICK x \in T : \A y \in T : ~ (<<y, x>> \in OpToRel(<, Nat))
  BY <1>1, WFMin, NatLessThanWellFounded
<1>3. \A y \in T : ~ (y < x)
  BY <1>1, <1>2 DEF OpToRel
<1>4. \A y \in T : x \in Nat /\ y \in Nat
  BY <1>1
<1>5. \A y \in T : x <= y
  BY <1>3, <1>4
<1> QED
  BY <1>1, <1>5 DEF Foremost, Min

\* At the start nothing is taken nor sent.
LEMMA SenderInitInv == SenderInit => SenderInv
<1> SUFFICES ASSUME SenderInit PROVE SenderInv
  OBVIOUS
<1>1. SenderTypeOK
  BY PhotoSenderAssumption DEF SenderInit, SenderTypeOK, Someone, NoFlush
<1>2. AnswersKept /\ InStep /\ OwnPhotosOnly /\ NeverLost
  BY DEF SenderInit, AnswersKept, InStep, OwnPhotosOnly, NeverLost, NoFlush
<1> QED
  BY <1>1, <1>2 DEF SenderInv

\* One step: each action leaves what is known of the tabs, the photos and the server.
LEMMA SenderStepInv == SenderInv /\ [SenderNext]_senderVars => SenderInv'
<1> SUFFICES ASSUME SenderInv, [SenderNext]_senderVars PROVE SenderInv'
  OBVIOUS
<1> USE DEF SenderInv
<1> Nobody \notin Users
  BY PhotoSenderAssumption
<1>1. ASSUME NEW t \in Tabs, Trigger(t) PROVE SenderInv'
  <2>1. SenderTypeOK'
    BY <1>1 DEF Trigger, SenderTypeOK, Started, Sendable, Queued, Someone
  <2>2. AnswersKept'
    BY <1>1 DEF Trigger, SenderTypeOK, AnswersKept, Started, Foremost
  <2>3. InStep'
    BY <1>1 DEF Trigger, SenderTypeOK, InStep, Started
  <2>4. OwnPhotosOnly'
    BY <1>1 DEF Trigger, SenderTypeOK, OwnPhotosOnly, Started, Sendable, Queued, BelongsTo
  <2>5. NeverLost'
    BY <1>1 DEF Trigger, NeverLost
  <2> QED
    BY <2>1, <2>2, <2>3, <2>4, <2>5
<1>2. ASSUME NEW t \in Tabs, NEW answer \in {"ok", "no", "later"}, Upload(t, answer) PROVE SenderInv'
  <2> DEFINE at1 == [flush[t] EXCEPT !.at = "asked"]
             asking == [at1 EXCEPT !.answer = answer]
  <2>0. /\ Foremost(t) \in Items /\ Foremost(t) \in flush[t].todo
        /\ answer = "ok" => session \in Users
    BY <1>2, ForemostIsOne DEF Upload, SenderTypeOK, Someone
  <2>a. flush \in [Tabs -> Flushes] /\ flush[t] \in Flushes
    BY DEF SenderTypeOK, Flushes
  <2>b. at1 \in Flushes
    BY <2>a DEF Flushes
  <2> HIDE DEF at1
  <2>c. asking \in Flushes
    BY <2>b DEF Flushes
  <2>d. flush' = [flush EXCEPT ![t] = asking]
    BY <1>2, <2>a DEF Upload, at1
  <2> HIDE DEF asking
  <2>e. flush' \in [Tabs -> Flushes]
    BY <2>a, <2>c, <2>d
  <2>1. SenderTypeOK'
    <3>1. got' \subseteq Items \X Users /\ refused' \subseteq Items
      BY <1>2, <2>0 DEF Upload, SenderTypeOK
    <3> QED
      BY <1>2, <2>e, <3>1 DEF Upload, SenderTypeOK, Flushes
  <2>2. \A u \in Tabs : flush'[u].todo = flush[u].todo /\ flush'[u].owner = flush[u].owner
                          /\ (u # t => flush'[u] = flush[u])
    BY <1>2 DEF Upload, SenderTypeOK
  <2>3. flush'[t].at = "asked" /\ flush'[t].answer = answer
    BY <1>2 DEF Upload, SenderTypeOK
  <2>4. \A u \in Tabs : Foremost(u)' = Foremost(u)
    BY <2>2 DEF Foremost
  <2>5. AnswersKept'
    BY <1>2, <2>0, <2>2, <2>3, <2>4 DEF Upload, AnswersKept
  <2>6. InStep'
    BY <1>2, <2>2 DEF Upload, InStep
  <2>7. OwnPhotosOnly'
    BY <1>2, <2>2 DEF Upload, OwnPhotosOnly
  <2>8. NeverLost'
    BY <1>2 DEF Upload, NeverLost
  <2> QED
    BY <2>1, <2>5, <2>6, <2>7, <2>8
<1>3. ASSUME NEW t \in Tabs, AllSent(t) PROVE SenderInv'
  <2>1. SenderTypeOK'
    BY <1>3 DEF AllSent, Over, SenderTypeOK, NoFlush, Someone
  <2>2. AnswersKept' /\ OwnPhotosOnly' /\ NeverLost'
    BY <1>3 DEF AllSent, Over, SenderTypeOK, NoFlush, AnswersKept, OwnPhotosOnly, NeverLost, Foremost
  <2>3. InStep'
    BY <1>3 DEF AllSent, Over, SenderTypeOK, NoFlush, InStep
  <2> QED
    BY <2>1, <2>2, <2>3
<1>4. ASSUME NEW t \in Tabs, AnswerLost(t) PROVE SenderInv'
  <2>1. SenderTypeOK'
    BY <1>4 DEF AnswerLost, Over, SenderTypeOK, NoFlush, Someone
  <2>2. AnswersKept' /\ OwnPhotosOnly' /\ NeverLost'
    BY <1>4 DEF AnswerLost, Over, SenderTypeOK, NoFlush, AnswersKept, OwnPhotosOnly, NeverLost, Foremost
  <2>3. InStep'
    BY <1>4 DEF AnswerLost, Over, SenderTypeOK, NoFlush, InStep
  <2> QED
    BY <2>1, <2>2, <2>3
<1>5. ASSUME NEW t \in Tabs, Answered(t) PROVE SenderInv'
  <2>0. Foremost(t) \in Items
    BY <1>5, ForemostIsOne DEF Answered, AnswersKept
  <2>a. CASE Final(flush[t].answer)
    <3> DEFINE front == Foremost(t)
    <3>a. flush \in [Tabs -> Flushes] /\ flush[t] \in Flushes
      BY DEF SenderTypeOK, Flushes
    <3>b. /\ flush' = [flush EXCEPT ![t] = [@ EXCEPT !.at = "next", !.answer = "none", !.todo = flush[t].todo \ {front}]]
          /\ item' = [item EXCEPT ![Foremost(t)].at = "gone"]
          /\ UNCHANGED <<session, account, timer, arming, got, refused, taken, switched>>
      BY <1>5, <2>a DEF Answered
    <3> HIDE DEF front
    <3>c. \A u \in Tabs : u # t => flush'[u] = flush[u]
      BY <3>a, <3>b
    <3>d. /\ flush'[t].at = "next" /\ flush'[t].owner = flush[t].owner /\ flush'[t].answer = "none"
          /\ flush'[t].todo = flush[t].todo \ {front}
      BY <3>a, <3>b DEF Flushes
    <3>e. flush'[t] \in Flushes
      BY <3>a, <3>b DEF Flushes
    <3>f. flush' \in [Tabs -> Flushes]
      BY <3>a, <3>b, <3>c, <3>e
    <3>1. SenderTypeOK'
      <4>1. item' \in [Items -> [at : {"camera", "queued", "gone"}, by : Someone]]
        BY <2>0, <3>b DEF SenderTypeOK
      <4> QED
        BY <3>b, <3>f, <4>1 DEF SenderTypeOK, Flushes
    <3>2. \A u \in Tabs : /\ flush'[u].owner = flush[u].owner /\ flush'[u].todo \subseteq flush[u].todo
                            /\ (u # t => flush'[u] = flush[u])
      BY <3>c, <3>d
    <3>3. flush'[t].at = "next"
      BY <3>d
    <3>4. \A i \in Items : /\ item'[i].by = item[i].by
                             /\ item'[i].at = IF i = Foremost(t) THEN "gone" ELSE item[i].at
      BY <2>0, <3>b DEF SenderTypeOK
    <3>5. AnswersKept'
      BY <1>5, <2>a, <3>2, <3>3 DEF Answered, AnswersKept, Foremost
    <3>6. InStep'
      BY <1>5, <2>a, <3>2, <3>3 DEF Answered, InStep
    <3>7. OwnPhotosOnly'
      BY <3>1, <3>2, <3>4 DEF OwnPhotosOnly, SenderTypeOK
    <3>8. NeverLost'
      BY <1>5, <2>0, <2>a, <3>4 DEF Answered, NeverLost, AnswersKept, Final
    <3> QED
      BY <3>1, <3>5, <3>6, <3>7, <3>8
  <2>b. CASE ~ Final(flush[t].answer)
    <3>0. Over(t) /\ UNCHANGED <<item, session, account, timer, got, refused, taken>>
      BY <1>5, <2>b DEF Answered
    <3>1. SenderTypeOK'
      BY <3>0 DEF Over, SenderTypeOK, NoFlush, Someone
    <3>2. AnswersKept' /\ OwnPhotosOnly' /\ NeverLost'
      BY <3>0 DEF Over, SenderTypeOK, NoFlush, AnswersKept, OwnPhotosOnly, NeverLost, Foremost
    <3>3. InStep'
      BY <3>0 DEF Over, SenderTypeOK, NoFlush, InStep
    <3> QED
      BY <3>1, <3>2, <3>3
  <2> QED
    BY <2>a, <2>b
<1>6. ASSUME NEW t \in Tabs, ArmTimer(t) PROVE SenderInv'
  <2>1. SenderTypeOK'
    BY <1>6 DEF ArmTimer, SenderTypeOK, Armed
  <2>2. AnswersKept' /\ InStep' /\ OwnPhotosOnly' /\ NeverLost'
    BY <1>6 DEF ArmTimer, AnswersKept, InStep, OwnPhotosOnly, NeverLost, Foremost
  <2> QED
    BY <2>1, <2>2
<1>7. ASSUME NEW t \in Tabs, Take(t) PROVE SenderInv'
  <2> DEFINE Holding(i) == Sendable(account[t]) \union {i}
  <2>0. PICK i \in Items :
          /\ item[i].at = "camera"
          /\ item' = [item EXCEPT ![i] = [at |-> "queued", by |-> account[t]]]
          /\ flush' = [flush EXCEPT ![t] =
               IF @.at = "none" THEN [@ EXCEPT !.at = "next", !.owner = account[t], !.todo = Holding(i)] ELSE @]
          /\ taken' = [taken EXCEPT ![t] = @ \union {i}]
    BY <1>7 DEF Take
  <2>1. /\ account[t] # Nobody /\ account[t] \in Someone
        /\ arming' = [arming EXCEPT ![t] = TRUE]
        /\ UNCHANGED <<session, account, timer, got, refused, switched>>
    BY <1>7 DEF Take, SenderTypeOK
  <2>2. flush \in [Tabs -> Flushes] /\ flush[t] \in Flushes /\ Holding(i) \subseteq Items
    BY DEF SenderTypeOK, Flushes, Sendable, Queued
  <2>3. \A j \in Holding(i) : j = i \/ (item[j].at = "queued" /\ item[j].by \in {account[t], Nobody})
    BY DEF Sendable, Queued, BelongsTo
  <2> DEFINE begun == [flush[t] EXCEPT !.at = "next", !.owner = account[t], !.todo = Holding(i)]
  <2>a. flush' = [flush EXCEPT ![t] = IF flush[t].at = "none" THEN begun ELSE flush[t]]
    BY <2>0, <2>2
  <2> HIDE DEF Holding
  <2>b. begun \in Flushes /\ begun.at = "next" /\ begun.owner = account[t] /\ begun.todo = Holding(i)
    BY <2>1, <2>2 DEF Flushes
  <2> HIDE DEF begun
  <2>4. item' \in [Items -> [at : {"camera", "queued", "gone"}, by : Someone]]
    BY <2>0, <2>1 DEF SenderTypeOK
  <2>5. \A j \in Items : IF j = i THEN item'[j].at = "queued" /\ item'[j].by = account[t] ELSE item'[j] = item[j]
    BY <2>0 DEF SenderTypeOK
  <2>6. /\ flush' \in [Tabs -> Flushes]
        /\ \A u \in Tabs : u # t \/ flush[t].at # "none" => flush'[u] = flush[u]
        /\ flush[t].at = "none" =>
             flush'[t].at = "next" /\ flush'[t].owner = account[t] /\ flush'[t].todo = Holding(i)
    BY <2>2, <2>a, <2>b
  <2>7. SenderTypeOK'
    BY <2>0, <2>1, <2>4, <2>6 DEF SenderTypeOK, Flushes
  <2>8. AnswersKept'
    BY <2>1, <2>6 DEF AnswersKept, Foremost
  <2>9. InStep'
    BY <2>1, <2>6 DEF InStep
  <2>10. OwnPhotosOnly'
    BY <2>0, <2>1, <2>2, <2>3, <2>5, <2>6 DEF OwnPhotosOnly, SenderTypeOK
  <2>11. NeverLost'
    BY <2>1, <2>5 DEF NeverLost
  <2> QED
    BY <2>7, <2>8, <2>9, <2>10, <2>11
<1>8. ASSUME NEW t \in Tabs, Refresh(t) PROVE SenderInv'
  <2>1. SenderTypeOK'
    BY <1>8 DEF Refresh, SenderTypeOK, Started, Sendable, Queued, Someone
  <2>2. AnswersKept' /\ NeverLost'
    BY <1>8 DEF Refresh, SenderTypeOK, AnswersKept, NeverLost, Started, Foremost
  <2>3. InStep'
    BY <1>8 DEF Refresh, SenderTypeOK, InStep, Started
  <2>4. OwnPhotosOnly'
    BY <1>8 DEF Refresh, SenderTypeOK, OwnPhotosOnly, Started, Sendable, Queued, BelongsTo
  <2> QED
    BY <2>1, <2>2, <2>3, <2>4
<1>9. ASSUME NEW t \in Tabs, CloseTab(t) PROVE SenderInv'
  <2>1. SenderTypeOK'
    BY <1>9 DEF CloseTab, SenderTypeOK, NoFlush, Someone
  <2>2. AnswersKept' /\ OwnPhotosOnly' /\ NeverLost'
    BY <1>9 DEF CloseTab, SenderTypeOK, NoFlush, AnswersKept, OwnPhotosOnly, NeverLost, Foremost
  <2>3. InStep'
    BY <1>9 DEF CloseTab, SenderTypeOK, NoFlush, InStep
  <2> QED
    BY <2>1, <2>2, <2>3
<1>10. ASSUME NEW u \in Someone, SwitchSession(u) PROVE SenderInv'
  <2>1. SenderTypeOK'
    BY <1>10 DEF SwitchSession, SenderTypeOK
  <2>2. AnswersKept' /\ InStep' /\ OwnPhotosOnly' /\ NeverLost'
    BY <1>10 DEF SwitchSession, AnswersKept, InStep, OwnPhotosOnly, NeverLost, Foremost
  <2> QED
    BY <2>1, <2>2
<1>11. CASE UNCHANGED senderVars
  BY <1>11 DEF senderVars, SenderTypeOK, AnswersKept, InStep, OwnPhotosOnly, NeverLost, Foremost
<1> QED
  BY <1>1, <1>2, <1>3, <1>4, <1>5, <1>6, <1>7, <1>8, <1>9, <1>10, <1>11
  DEF SenderNext, SenderStep, SenderUpset, Sending


-----------------------------------------------------------------------------
(* The results *)

\* The invariant of the sender: what it has asked is what the server has done, and a
\* tab that is not behind sends what its account took.
THEOREM SenderInvariance == SenderSpec => []SenderInv
  BY SenderInitInv, SenderStepInv, PTL DEF SenderSpec

\* No sign-out, lost answer, closed tab or second tab loses a photo the phone kept
\* (sendQueuedPhotos, photo-sender.ts).
THEOREM NoPhotoIsLost == SenderSpec => []NeverLost
<1>1. SenderInv => NeverLost
  BY DEF SenderInv
<1> QED
  BY <1>1, SenderInvariance, PTL

\* A photo reaches the cellar of another account only from a tab that was behind a
\* change of session (useBackgroundSender, belongsTo).
THEOREM StrangersNeedAChange == SenderSpec => StrangersOnlyAcrossSessions
<1> DEFINE Kept ==
      \A t \in Tabs : \A u \in Users :
        flush[t].at = "next" /\ flush'[t].at = "asked" /\ got' # got /\ flush[t].todo # {} /\ session = u =>
          item[Foremost(t)].by \in {u, Nobody} \/ t \in switched
<1>1. SenderInv /\ [SenderNext]_senderVars => [Kept]_senderVars
  <2> SUFFICES ASSUME SenderInv, SenderNext, NEW t \in Tabs, NEW u \in Users,
                      flush[t].at = "next", flush'[t].at = "asked", flush[t].todo # {}, session = u,
                      t \notin switched
               PROVE  item[Foremost(t)].by \in {u, Nobody}
    OBVIOUS
  <2>1. flush[t].owner = session
    BY DEF SenderInv, InStep
  <2>2. Foremost(t) \in flush[t].todo
    BY ForemostIsOne DEF SenderInv
  <2> QED
    BY <2>1, <2>2 DEF SenderInv, OwnPhotosOnly
<1> QED
  BY <1>1, SenderInvariance, PTL DEF SenderSpec, StrangersOnlyAcrossSessions

-----------------------------------------------------------------------------
(* Taking a bottle out *)

ExitScreenSpec == ExitScreenInit /\ [][ExitScreenStep]_exitScreenVars

Keys == 1..MaxKeys

\* What a screen shows is a confirmation of the wine chosen, one of those listed, and
\* its result an exit of that wine.
Confirms(c) ==
  /\ c.chosen = NoWine <=> c.key = 0
  /\ c.from = "none" => c.chosen = NoWine /\ ~ c.settled
  /\ c.from = "photo" /\ c.chosen # NoWine => c.settled /\ c.chosen \in c.pinned
  /\ c.result # 0 => c.exited /\ c.chosen # NoWine /\ exits[c.result].wine = c.chosen

\* A withdrawal awaited is of the confirmation shown, unless that was left, and its
\* answer an exit of the wine asked for.
Awaits(a, c) ==
  /\ a.key # 0 /\ a.key = c.key => a.wine = c.chosen
  /\ a.answer # 0 => exits[a.answer].wine = a.wine /\ a.wine # NoWine

OfTheirWine ==
  \A s \in Screens :
    /\ Confirms(screen[s]) /\ Awaits(asked[s], screen[s])
    /\ screen[s].key <= drawn /\ asked[s].key <= drawn

\* Until an exit is cancelled, those made from the photo carry it, and one carries it.
OneCarriesThePhoto ==
  /\ \A k \in Keys : exits[k].wine = NoWine => ~ exits[k].photo /\ ~ exits[k].back /\ exits[k].from = "none"
  /\ (\A k \in Keys : ~ exits[k].back) =>
       /\ \A k \in Keys : exits[k].from = "photo" => exits[k].photo
       /\ \A k, j \in Keys : exits[k].photo /\ exits[j].photo => k = j

ExitScreenInv ==
  ExitScreenTypeOK /\ OfTheirWine /\ OneCarriesThePhoto

Exits == [wine : Wine \union {NoWine}, qty : 0..2, photo : BOOLEAN, from : {"none", "photo", "page"}, back : BOOLEAN]

Shows == [from : {"none", "photo", "page"}, data : SUBSET Wine, settled : BOOLEAN,
          pinned : SUBSET Wine, chosen : Wine \union {NoWine}, key : 0..MaxKeys, sending : BOOLEAN,
          result : 0..MaxKeys, exited : BOOLEAN]

Asks == [key : 0..MaxKeys, wine : Wine \union {NoWine}, answer : 0..MaxKeys]

\* At the start nothing is shown, asked for nor taken out.
LEMMA ExitScreenInitInv == ExitScreenInit => ExitScreenInv
<1> SUFFICES ASSUME ExitScreenInit PROVE ExitScreenInv
  OBVIOUS
<1> USE ExitScreenAssumption
<1>1. exits \in [1..MaxKeys -> Exits]
  BY DEF ExitScreenInit, Exits
<1>2. Closed \in Shows
  BY DEF Closed, Shows
<1>3. NoRequest \in Asks
  BY DEF NoRequest, Asks
<1>4. ExitScreenTypeOK
  BY <1>1, <1>2, <1>3 DEF ExitScreenInit, ExitScreenTypeOK, Exits, Shows, Asks
<1>5. OfTheirWine
  BY DEF ExitScreenInit, OfTheirWine, Confirms, Awaits, Closed, NoRequest
<1>6. OneCarriesThePhoto
  BY DEF ExitScreenInit, OneCarriesThePhoto, Keys
<1> QED
  BY <1>4, <1>5, <1>6 DEF ExitScreenInv

\* The steps that leave the journal alone keep what it holds.
LEMMA SameJournal ==
  ASSUME ExitScreenInv, exits' = exits
  PROVE  OneCarriesThePhoto'
  BY DEF ExitScreenInv, OneCarriesThePhoto, Keys

\* What one screen shows and awaits changes, and is still of the wine of its confirmation.
LEMMA ScreenChanges ==
  ASSUME ExitScreenInv, NEW s \in Screens, NEW c \in Shows, NEW a \in Asks,
         screen' = [screen EXCEPT ![s] = c], asked' = [asked EXCEPT ![s] = a],
         exits' = exits, drawn' \in 0..MaxKeys, drawn <= drawn',
         c.key <= drawn', a.key <= drawn', Confirms(c), Awaits(a, c)
  PROVE  ExitScreenInv'
<1> USE DEF ExitScreenInv
<1>1. screen \in [Screens -> Shows] /\ asked \in [Screens -> Asks] /\ drawn \in Nat /\ drawn' \in Nat
  BY ExitScreenAssumption DEF ExitScreenTypeOK, Shows, Asks
<1>2. /\ screen' \in [Screens -> Shows] /\ screen'[s] = c /\ \A u \in Screens : u # s => screen'[u] = screen[u]
      /\ asked' \in [Screens -> Asks] /\ asked'[s] = a /\ \A u \in Screens : u # s => asked'[u] = asked[u]
  BY <1>1
<1>3. ExitScreenTypeOK'
  BY <1>2 DEF ExitScreenTypeOK, Shows, Asks
<1>4. \A u \in Screens : screen[u].key \in Nat /\ asked[u].key \in Nat
  BY <1>1, ExitScreenAssumption DEF Shows, Asks
<1>5. \A u \in Screens : Confirms(screen'[u]) /\ Awaits(asked'[u], screen'[u])
  BY <1>2 DEF OfTheirWine
<1>6. OfTheirWine'
  BY <1>1, <1>2, <1>4, <1>5 DEF OfTheirWine, Confirms, Awaits
<1> QED
  BY <1>3, <1>6, SameJournal

\* The steps of one screen that leave the journal alone.
LEMMA ScreenSteps ==
  ASSUME ExitScreenInv, NEW s \in Screens,
         \/ \E from \in {"photo", "page"} : Open(s, from)
         \/ Settle(s) \/ Reconnect(s) \/ ChooseAnother(s) \/ Leave(s)
         \/ \E w \in Wine : Choose(s, w)
         \/ TapLost(s) \/ ExitAnswered(s)
  PROVE  ExitScreenInv'
<1> USE DEF ExitScreenInv
<1> DEFINE c0 == screen[s]
           a0 == asked[s]
           no == FALSE
<1>0. /\ c0 \in Shows /\ a0 \in Asks /\ drawn \in 0..MaxKeys /\ drawn \in Nat
      /\ asked = [asked EXCEPT ![s] = a0]
      /\ no \in BOOLEAN
  BY ExitScreenAssumption DEF ExitScreenTypeOK, Shows, Asks
<1>1. /\ c0.key <= drawn /\ a0.key <= drawn
      /\ Confirms(c0) /\ Awaits(a0, c0)
  BY DEF OfTheirWine
<1>2. Candidates \subseteq Wine
  BY DEF Candidates
<1>3. ASSUME NEW c \in Shows, screen' = [screen EXCEPT ![s] = c], UNCHANGED <<exits, asked, drawn>>,
             Confirms(c), Awaits(a0, c), c.key <= drawn
      PROVE  ExitScreenInv'
  <2>1. /\ asked' = [asked EXCEPT ![s] = a0] /\ exits' = exits
        /\ drawn' \in 0..MaxKeys /\ drawn <= drawn' /\ c.key <= drawn' /\ a0.key <= drawn'
    BY <1>0, <1>1, <1>3
  <2>2. a0 \in Asks
    BY <1>0
  <2> HIDE DEF a0, c0
  <2> QED
    BY <1>3, <2>1, <2>2, ScreenChanges
<1>4. ASSUME NEW from \in {"photo", "page"}, Open(s, from) PROVE ExitScreenInv'
  <2> DEFINE c == [c0 EXCEPT !.from = from]
  <2>1. screen' = [screen EXCEPT ![s] = c] /\ UNCHANGED <<exits, asked, drawn>> /\ c0.from = "none"
    BY <1>4 DEF Open
  <2>2. c \in Shows /\ c.from = from /\ c.chosen = c0.chosen /\ c.key = c0.key /\ c.settled = c0.settled
        /\ c.pinned = c0.pinned /\ c.result = c0.result /\ c.exited = c0.exited
    BY <1>0 DEF Shows
  <2> HIDE DEF c
  <2>3. Confirms(c) /\ Awaits(a0, c) /\ c.key <= drawn
    BY <1>1, <2>1, <2>2 DEF Confirms, Awaits
  <2> HIDE DEF a0
  <2> QED
    BY <1>3, <2>1, <2>2, <2>3
<1>5. ASSUME Settle(s) PROVE ExitScreenInv'
  <2> DEFINE yes == TRUE
             c1 == [c0 EXCEPT !.data = Candidates]
             c2 == [c1 EXCEPT !.settled = yes]
             c  == [c2 EXCEPT !.pinned = Candidates]
  <2>1. screen' = [screen EXCEPT ![s] = c] /\ UNCHANGED <<exits, asked, drawn>>
        /\ c0.from = "photo" /\ ~ c0.settled
    BY <1>5 DEF Settle
  <2> HIDE DEF yes
  <2>2. yes \in BOOLEAN /\ yes
    BY DEF yes
  <2>3. c1 \in Shows /\ c1.from = c0.from /\ c1.chosen = c0.chosen /\ c1.key = c0.key
        /\ c1.result = c0.result /\ c1.exited = c0.exited
    BY <1>0, <1>2 DEF Shows
  <2> HIDE DEF c1
  <2>4. c2 \in Shows /\ c2.from = c0.from /\ c2.chosen = c0.chosen /\ c2.key = c0.key
        /\ c2.result = c0.result /\ c2.exited = c0.exited
    BY <2>2, <2>3 DEF Shows
  <2> HIDE DEF c2
  <2>5. c \in Shows /\ c.from = c0.from /\ c.chosen = c0.chosen /\ c.key = c0.key
        /\ c.result = c0.result /\ c.exited = c0.exited
    BY <1>2, <2>4 DEF Shows
  <2> HIDE DEF c
  <2>6. Confirms(c) /\ Awaits(a0, c) /\ c.key <= drawn
    BY <1>1, <2>1, <2>5 DEF Confirms, Awaits
  <2> HIDE DEF a0
  <2> QED
    BY <1>3, <2>1, <2>5, <2>6
<1>6. ASSUME Reconnect(s) PROVE ExitScreenInv'
  <2> DEFINE c == [c0 EXCEPT !.data = Candidates]
  <2>1. screen' = [screen EXCEPT ![s] = c] /\ UNCHANGED <<exits, asked, drawn>>
    BY <1>6 DEF Reconnect
  <2>2. c \in Shows /\ c.from = c0.from /\ c.chosen = c0.chosen /\ c.key = c0.key /\ c.settled = c0.settled
        /\ c.pinned = c0.pinned /\ c.result = c0.result /\ c.exited = c0.exited
    BY <1>0, <1>2 DEF Shows
  <2> HIDE DEF c
  <2>3. Confirms(c) /\ Awaits(a0, c) /\ c.key <= drawn
    BY <1>1, <2>1, <2>2 DEF Confirms, Awaits
  <2> HIDE DEF a0
  <2> QED
    BY <1>3, <2>1, <2>2, <2>3
<1>7. ASSUME ChooseAnother(s) PROVE ExitScreenInv'
  <2> DEFINE c1 == [c0 EXCEPT !.chosen = NoWine]
             c  == [c1 EXCEPT !.key = 0]
  <2>1. screen' = [screen EXCEPT ![s] = c] /\ UNCHANGED <<exits, asked, drawn>> /\ c0.from = "photo" /\ ~ c0.exited
    BY <1>7 DEF ChooseAnother
  <2>2. c1 \in Shows /\ c1.from = c0.from /\ c1.chosen = NoWine /\ c1.result = c0.result
    BY <1>0 DEF Shows
  <2> HIDE DEF c1
  <2>3. c \in Shows /\ c.from = c0.from /\ c.chosen = NoWine /\ c.key = 0 /\ c.result = c0.result
    BY <2>2, ExitScreenAssumption DEF Shows
  <2> HIDE DEF c
  <2>4. Confirms(c) /\ Awaits(a0, c) /\ c.key <= drawn
    BY <1>0, <1>1, <2>1, <2>3 DEF Confirms, Awaits
  <2> HIDE DEF a0
  <2> QED
    BY <1>3, <2>1, <2>3, <2>4
<1>8. ASSUME Leave(s) PROVE ExitScreenInv'
  <2>1. screen' = [screen EXCEPT ![s] = Closed] /\ asked' = [asked EXCEPT ![s] = NoRequest] /\ exits' = exits /\ drawn' = drawn
    BY <1>8 DEF Leave
  <2>2. Closed \in Shows /\ NoRequest \in Asks /\ Confirms(Closed) /\ Awaits(NoRequest, Closed)
        /\ Closed.key <= drawn /\ NoRequest.key <= drawn
    BY <1>0, ExitScreenAssumption DEF Closed, NoRequest, Shows, Asks, Confirms, Awaits
  <2>3. drawn' \in 0..MaxKeys /\ drawn <= drawn' /\ Closed.key <= drawn' /\ NoRequest.key <= drawn'
    BY <1>0, <2>1, <2>2
  <2> QED
    BY <2>1, <2>2, <2>3, ScreenChanges
<1>9. ASSUME NEW w \in Wine, Choose(s, w) PROVE ExitScreenInv'
  <2> DEFINE c1 == [c0 EXCEPT !.chosen = w]
             c2 == [c1 EXCEPT !.key = drawn + 1]
             c3 == [c2 EXCEPT !.sending = no]
             c  == [c3 EXCEPT !.result = 0]
  <2>1. /\ screen' = [screen EXCEPT ![s] = c] /\ exits' = exits /\ asked' = asked /\ drawn' = drawn + 1
        /\ drawn < MaxKeys
        /\ c0.from = "page" \/ (c0.settled /\ w \in Shown(s))
    BY <1>9 DEF Choose
  <2> HIDE DEF no
  <2>2. drawn + 1 \in 0..MaxKeys /\ drawn + 1 # 0 /\ w \in Wine \union {NoWine} /\ w # NoWine
    BY <1>0, <2>1, ExitScreenAssumption DEF Wine
  <2>3. c1 \in Shows /\ c1.from = c0.from /\ c1.chosen = w /\ c1.settled = c0.settled /\ c1.pinned = c0.pinned
    BY <1>0, <2>2 DEF Shows
  <2> HIDE DEF c1
  <2>4. c2 \in Shows /\ c2.from = c0.from /\ c2.chosen = w /\ c2.settled = c0.settled /\ c2.pinned = c0.pinned
        /\ c2.key = drawn + 1
    BY <2>2, <2>3 DEF Shows
  <2> HIDE DEF c2
  <2>5. c3 \in Shows /\ c3.from = c0.from /\ c3.chosen = w /\ c3.settled = c0.settled /\ c3.pinned = c0.pinned
        /\ c3.key = drawn + 1
    BY <1>0, <2>4 DEF Shows
  <2> HIDE DEF c3
  <2>6. c \in Shows /\ c.from = c0.from /\ c.chosen = w /\ c.settled = c0.settled /\ c.pinned = c0.pinned
        /\ c.key = drawn + 1 /\ c.result = 0
    BY <2>5, ExitScreenAssumption DEF Shows
  <2> HIDE DEF c
  <2>7. c0.from = "photo" => c0.settled /\ w \in c0.pinned
    BY <2>1 DEF Shown
  <2>8. c0.from # "none"
    BY <1>1, <2>1 DEF Confirms
  <2>9. a0.key # drawn + 1
    BY <1>0, <1>1 DEF Asks
  <2>10. Confirms(c) /\ Awaits(a0, c)
    BY <1>1, <2>2, <2>6, <2>7, <2>8, <2>9 DEF Confirms, Awaits
  <2>11. drawn' \in 0..MaxKeys /\ drawn <= drawn' /\ c.key <= drawn' /\ a0.key <= drawn'
    BY <1>0, <1>1, <2>1, <2>2, <2>6 DEF Asks
  <2>12. asked' = [asked EXCEPT ![s] = a0]
    BY <1>0, <2>1
  <2> HIDE DEF a0, c0
  <2> QED
    BY <1>0, <2>1, <2>6, <2>10, <2>11, <2>12, ScreenChanges
<1>10. ASSUME TapLost(s) PROVE ExitScreenInv'
  <2> DEFINE c == [c0 EXCEPT !.sending = no]
  <2>1. screen' = [screen EXCEPT ![s] = c] /\ asked' = [asked EXCEPT ![s] = NoRequest] /\ exits' = exits /\ drawn' = drawn
    BY <1>10 DEF TapLost
  <2> HIDE DEF no
  <2>2. c \in Shows /\ c.from = c0.from /\ c.chosen = c0.chosen /\ c.key = c0.key /\ c.settled = c0.settled
        /\ c.pinned = c0.pinned /\ c.result = c0.result /\ c.exited = c0.exited
    BY <1>0 DEF Shows
  <2> HIDE DEF c
  <2>3. Confirms(c) /\ Awaits(NoRequest, c) /\ NoRequest \in Asks
    BY <1>1, <2>2, ExitScreenAssumption DEF Confirms, Awaits, NoRequest, Asks
  <2>4. drawn' \in 0..MaxKeys /\ drawn <= drawn' /\ c.key <= drawn' /\ NoRequest.key <= drawn'
    BY <1>0, <1>1, <2>1, <2>2 DEF NoRequest
  <2> QED
    BY <2>1, <2>2, <2>3, <2>4, ScreenChanges
<1>11. ASSUME ExitAnswered(s) PROVE ExitScreenInv'
  <2> DEFINE told == c0.exited \/ a0.answer # 0
             result == IF c0.key = a0.key THEN a0.answer ELSE c0.result
             locked == IF c0.key = a0.key THEN a0.answer # 0 ELSE c0.sending
             c1 == [c0 EXCEPT !.exited = told]
             c2 == [c1 EXCEPT !.result = result]
             c  == [c2 EXCEPT !.sending = locked]
  <2>1. /\ screen' = [screen EXCEPT ![s] = c] /\ asked' = [asked EXCEPT ![s] = NoRequest] /\ exits' = exits /\ drawn' = drawn
        /\ a0.key # 0
    BY <1>11 DEF ExitAnswered
  <2>2. told \in BOOLEAN /\ locked \in BOOLEAN
    BY <1>0 DEF Shows
  <2>3. (told <=> c0.exited \/ a0.answer # 0) /\ result \in 0..MaxKeys
    BY <1>0 DEF Shows, Asks
  <2>4. c0.key = a0.key => result = a0.answer
    OBVIOUS
  <2>5. c0.key # a0.key => result = c0.result
    OBVIOUS
  <2> HIDE DEF told, result, locked
  <2>6. c1 \in Shows /\ c1.from = c0.from /\ c1.chosen = c0.chosen /\ c1.key = c0.key /\ c1.settled = c0.settled
        /\ c1.pinned = c0.pinned /\ c1.exited = told
    BY <1>0, <2>2 DEF Shows
  <2> HIDE DEF c1
  <2>7. c2 \in Shows /\ c2.from = c0.from /\ c2.chosen = c0.chosen /\ c2.key = c0.key /\ c2.settled = c0.settled
        /\ c2.pinned = c0.pinned /\ c2.exited = told /\ c2.result = result
    BY <2>3, <2>6 DEF Shows
  <2> HIDE DEF c2
  <2>8. c \in Shows /\ c.from = c0.from /\ c.chosen = c0.chosen /\ c.key = c0.key /\ c.settled = c0.settled
        /\ c.pinned = c0.pinned /\ c.exited = told /\ c.result = result
    BY <2>2, <2>7 DEF Shows
  <2> HIDE DEF c
  <2>9. Confirms(c)
    BY <1>1, <2>1, <2>3, <2>4, <2>5, <2>8 DEF Confirms, Awaits
  <2>10. Awaits(NoRequest, c) /\ NoRequest \in Asks
    BY ExitScreenAssumption DEF Awaits, NoRequest, Asks
  <2>11. drawn' \in 0..MaxKeys /\ drawn <= drawn' /\ c.key <= drawn' /\ NoRequest.key <= drawn'
    BY <1>0, <1>1, <2>1, <2>8 DEF NoRequest
  <2> QED
    BY <2>1, <2>8, <2>9, <2>10, <2>11, ScreenChanges
<1> QED
  BY <1>4, <1>5, <1>6, <1>7, <1>8, <1>9, <1>10, <1>11

\* What planOut answers with: the movement of the key, or of the photo, of that wine.
LEMMA ReplayIsOfTheWine ==
  ASSUME ExitScreenInv, NEW k \in Keys, NEW w \in Wine, NEW photo \in BOOLEAN,
         Plan(k, w, photo) \in {"replay", "replay photo"}
  PROVE  LET o == Replayed(Plan(k, w, photo), k) IN o \in Keys /\ exits[o].wine = w
<1>1. CASE Plan(k, w, photo) = "replay"
  <2>1. exits[k].wine = w
    BY <1>1 DEF Plan
  <2> QED
    BY <1>1, <2>1 DEF Replayed
<1>2. CASE Plan(k, w, photo) = "replay photo"
  <2>1. ByPhoto # {} /\ \A o \in ByPhoto : exits[o].wine = w
    BY <1>2 DEF Plan
  <2>2. ByPhoto \subseteq Keys
    BY DEF ByPhoto, Keys
  <2> QED
    BY <1>2, <2>1, <2>2 DEF Replayed
<1> QED
  BY <1>1, <1>2

\* A key that is free is written: the journal keeps the rest, and one photo is carried.
LEMMA JournalGrows ==
  ASSUME ExitScreenInv, NEW k \in Keys, NEW e \in Exits, exits' = [exits EXCEPT ![k] = e],
         ~ Written(k), e.wine # NoWine,
         e.photo => ByPhoto = {},
         e.from = "photo" /\ ~ e.photo => \E o \in Keys : exits[o].back
  PROVE  /\ exits' \in [Keys -> Exits]
         /\ \A o \in Keys : exits[o].wine # NoWine => exits'[o] = exits[o]
         /\ OneCarriesThePhoto'
<1> USE DEF ExitScreenInv
<1>1. exits \in [Keys -> Exits]
  BY DEF ExitScreenTypeOK, Keys, Exits
<1>2. exits' \in [Keys -> Exits] /\ exits'[k] = e /\ \A o \in Keys : o # k => exits'[o] = exits[o]
  BY <1>1
<1>3. \A o \in Keys : exits[o].wine # NoWine => exits'[o] = exits[o]
  BY <1>2 DEF Written
<1>4. \A o \in Keys : exits[o].back => o # k
  BY DEF OneCarriesThePhoto, Written
<1>5. (\A o \in Keys : ~ exits'[o].back) => \A o \in Keys : ~ exits[o].back
  BY <1>2, <1>4
<1>6. e.photo => \A o \in Keys : ~ exits[o].photo
  BY DEF ByPhoto, OneCarriesThePhoto, Written, Keys
<1>7. \A o \in Keys : exits'[o].wine = NoWine => ~ exits'[o].photo /\ ~ exits'[o].back /\ exits'[o].from = "none"
  BY <1>2 DEF OneCarriesThePhoto
<1>8. ASSUME \A o \in Keys : ~ exits'[o].back
      PROVE  /\ \A o \in Keys : exits'[o].from = "photo" => exits'[o].photo
             /\ \A o, j \in Keys : exits'[o].photo /\ exits'[j].photo => o = j
  <2>1. \A o \in Keys : ~ exits[o].back
    BY <1>5, <1>8
  <2>2. /\ \A o \in Keys : exits[o].from = "photo" => exits[o].photo
        /\ \A o, j \in Keys : exits[o].photo /\ exits[j].photo => o = j
    BY <2>1 DEF OneCarriesThePhoto
  <2>3. e.from = "photo" => e.photo
    BY <2>1
  <2> QED
    BY <1>2, <1>6, <2>2, <2>3
<1>9. OneCarriesThePhoto'
  BY <1>7, <1>8 DEF OneCarriesThePhoto, Keys
<1> QED
  BY <1>2, <1>3, <1>9

\* createOut, as a screen calls it.
LEMMA TapStep ==
  ASSUME ExitScreenInv, NEW s \in Screens, NEW qty \in 1..2, Tap(s, qty)
  PROVE  ExitScreenInv'
<1> USE DEF ExitScreenInv
<1> DEFINE c0 == screen[s]
           w == c0.chosen
           k == c0.key
           photo == c0.from = "photo"
           yes == TRUE
           no == FALSE
           c == [c0 EXCEPT !.sending = yes]
           asks(answer) == [key |-> k, wine |-> w, answer |-> answer]
           plan == Plan(k, w, photo)
<1>1. /\ screen' = [screen EXCEPT ![s] = c] /\ drawn' = drawn
      /\ OnScreen(s) # NoWine /\ Withdraw(s, k, w, qty)
  BY DEF Tap, Tappable, KeyOf
<1>2. /\ c0 \in Shows /\ drawn \in 0..MaxKeys /\ drawn \in Nat
      /\ c0.key <= drawn /\ Confirms(c0)
  BY ExitScreenAssumption DEF ExitScreenTypeOK, Shows, OfTheirWine
<1>3. w # NoWine /\ w \in Wine /\ k \in Keys /\ photo \in BOOLEAN
  <2>1. w # NoWine
    BY <1>1 DEF OnScreen
  <2> QED
    BY <1>2, <2>1, ExitScreenAssumption DEF Confirms, Shows, Keys
<1>4. \/ /\ plan \in {"replay", "replay photo"}
         /\ asked' = [asked EXCEPT ![s] = asks(Replayed(plan, k))] /\ exits' = exits
      \/ /\ plan \in {"write", "write alone"}
         /\ exits' = [exits EXCEPT ![k] = [wine |-> w, qty |-> qty, photo |-> plan = "write" /\ photo,
                                           from |-> c0.from, back |-> no]]
         /\ asked' = [asked EXCEPT ![s] = asks(k)]
      \/ asked' = [asked EXCEPT ![s] = asks(0)] /\ exits' = exits
  BY <1>1 DEF Withdraw
<1> HIDE DEF yes, no
<1>5. yes \in BOOLEAN /\ no \in BOOLEAN /\ ~ no
  BY DEF yes, no
<1>6. c \in Shows /\ c.from = c0.from /\ c.chosen = w /\ c.key = k /\ c.settled = c0.settled
      /\ c.pinned = c0.pinned /\ c.result = c0.result /\ c.exited = c0.exited
  BY <1>2, <1>5 DEF Shows
<1> HIDE DEF c
<1>7. c.key <= drawn /\ drawn <= drawn' /\ drawn' \in 0..MaxKeys /\ c.key <= drawn'
  BY <1>1, <1>2, <1>6
<1>8. Confirms(c)
  BY <1>2, <1>6 DEF Confirms
<1>9. \A answer \in 0..MaxKeys : asks(answer) \in Asks /\ asks(answer).key <= drawn' /\ asks(answer).answer = answer
                                   /\ asks(answer).wine = w
  BY <1>3, <1>6, <1>7, ExitScreenAssumption DEF Asks, Keys
<1>10. ASSUME NEW answer \in 0..MaxKeys, asked' = [asked EXCEPT ![s] = asks(answer)], exits' = exits,
              answer # 0 => exits[answer].wine = w
       PROVE  ExitScreenInv'
  <2> DEFINE a == asks(answer)
  <2>1. a \in Asks /\ a.key <= drawn'
    BY <1>9
  <2>2. Awaits(a, c)
    BY <1>3, <1>6, <1>9, <1>10 DEF Awaits
  <2>3. asked' = [asked EXCEPT ![s] = a]
    BY <1>10
  <2> HIDE DEF a, c0
  <2> QED
    BY <1>1, <1>6, <1>7, <1>8, <1>10, <2>1, <2>2, <2>3, ScreenChanges
<1>11. CASE plan \in {"replay", "replay photo"} /\ asked' = [asked EXCEPT ![s] = asks(Replayed(plan, k))] /\ exits' = exits
  <2>1. Replayed(plan, k) \in Keys /\ exits[Replayed(plan, k)].wine = w
    BY <1>3, <1>11, ReplayIsOfTheWine
  <2>2. Replayed(plan, k) \in 0..MaxKeys
    BY <2>1, ExitScreenAssumption DEF Keys
  <2> QED
    BY <1>10, <1>11, <2>1, <2>2
<1>12. CASE asked' = [asked EXCEPT ![s] = asks(0)] /\ exits' = exits
  <2>1. 0 \in 0..MaxKeys
    BY ExitScreenAssumption
  <2> QED
    BY <1>10, <1>12, <2>1
<1>13. ASSUME plan \in {"write", "write alone"},
              exits' = [exits EXCEPT ![k] = [wine |-> w, qty |-> qty, photo |-> plan = "write" /\ photo,
                                             from |-> c0.from, back |-> no]],
              asked' = [asked EXCEPT ![s] = asks(k)]
       PROVE  ExitScreenInv'
  <2> DEFINE carries == plan = "write" /\ photo
             e == [wine |-> w, qty |-> qty, photo |-> carries, from |-> c0.from, back |-> no]
  <2>1. exits' = [exits EXCEPT ![k] = e]
    BY <1>13
  <2>2. ~ Written(k) /\ (carries => ByPhoto = {}) /\ (plan = "write alone" => ByPhoto # {} /\ \A o \in ByPhoto : exits[o].back)
        /\ (photo /\ ~ carries => plan = "write alone")
    BY <1>13 DEF Plan
  <2>3. carries \in BOOLEAN
    OBVIOUS
  <2>4. (photo /\ ~ carries) => \E o \in Keys : exits[o].back
    BY <2>2 DEF ByPhoto, Keys
  <2>5. c0.from = "photo" /\ ~ carries => \E o \in Keys : exits[o].back
    BY <2>4
  <2> HIDE DEF carries, plan, photo
  <2>6. e \in Exits /\ e.wine = w /\ e.from = c0.from /\ e.photo = carries
    BY <1>2, <1>3, <1>5, <2>3 DEF Exits, Shows
  <2> HIDE DEF e
  <2>7. /\ exits' \in [Keys -> Exits]
        /\ \A o \in Keys : exits[o].wine # NoWine => exits'[o] = exits[o]
        /\ OneCarriesThePhoto'
    <3>1. e.photo => ByPhoto = {}
      BY <2>2, <2>6
    <3>2. e.from = "photo" /\ ~ e.photo => \E o \in Keys : exits[o].back
      BY <2>5, <2>6
    <3>3. e.wine # NoWine /\ k \in Keys
      BY <1>3, <2>6
    <3> HIDE DEF k, w
    <3> QED
      BY <2>1, <2>2, <2>6, <3>1, <3>2, <3>3, JournalGrows
  <2>8. exits'[k].wine = w
    BY <1>3, <2>1, <2>6 DEF ExitScreenTypeOK, Keys
  <2>9. /\ screen' \in [Screens -> Shows] /\ screen'[s] = c /\ \A u \in Screens : u # s => screen'[u] = screen[u]
    BY <1>1, <1>6 DEF ExitScreenTypeOK, Shows
  <2>10. k \in 0..MaxKeys /\ k # 0
    BY <1>3, ExitScreenAssumption DEF Keys
  <2>11. /\ asked' \in [Screens -> Asks] /\ asked'[s] = asks(k) /\ \A u \in Screens : u # s => asked'[u] = asked[u]
    BY <1>9, <1>13, <2>10 DEF ExitScreenTypeOK, Asks
  <2>12. ExitScreenTypeOK'
    BY <1>7, <2>7, <2>9, <2>11 DEF ExitScreenTypeOK, Exits, Shows, Asks, Keys
  <2>13. \A u \in Screens : screen[u].result \in 0..MaxKeys /\ asked[u].answer \in 0..MaxKeys
    BY DEF ExitScreenTypeOK
  <2>14. \A o \in 0..MaxKeys : o # 0 => o \in Keys
    BY ExitScreenAssumption DEF Keys
  <2>15. \A u \in Screens : Confirms(screen[u]) /\ Awaits(asked[u], screen[u])
    BY DEF OfTheirWine
  <2>16. \A u \in Screens : u # s => Confirms(screen[u])' /\ Awaits(asked[u], screen[u])'
    BY <2>7, <2>9, <2>11, <2>13, <2>14, <2>15 DEF Confirms, Awaits
  <2>17. Confirms(screen[s])'
    BY <1>6, <1>8, <2>7, <2>9, <2>13, <2>14 DEF Confirms
  <2>18. Awaits(asked[s], screen[s])'
    BY <1>3, <1>6, <1>9, <2>8, <2>9, <2>10, <2>11 DEF Awaits
  <2>19. OfTheirWine'
    BY <1>1, <1>7, <1>9, <2>9, <2>10, <2>11, <2>16, <2>17, <2>18 DEF OfTheirWine
  <2> QED
    BY <2>7, <2>12, <2>19
<1> QED
  BY <1>4, <1>11, <1>12, <1>13

\* A withdrawal cancelled is of the wine it was of.
LEMMA CancelStep ==
  ASSUME ExitScreenInv, NEW s \in Screens, Cancel(s)
  PROVE  ExitScreenInv'
<1> USE DEF ExitScreenInv
<1> DEFINE r == screen[s].result
           yes == TRUE
<1>1. r \in Keys
  BY ExitScreenAssumption DEF Cancel, ExitScreenTypeOK, Keys
<1>2. exits' = [exits EXCEPT ![r].back = yes] /\ UNCHANGED <<screen, asked, drawn>>
  BY DEF Cancel
<1>3. exits[r].wine # NoWine
  BY DEF Cancel, OfTheirWine, Confirms
<1> HIDE DEF yes
<1>4. yes \in BOOLEAN /\ yes
  BY DEF yes
<1> HIDE DEF r
<1>5. exits \in [Keys -> Exits]
  BY DEF ExitScreenTypeOK, Keys, Exits
<1>6. /\ exits' \in [Keys -> Exits]
      /\ \A k \in Keys : exits'[k].wine = exits[k].wine /\ exits'[k].from = exits[k].from /\ exits'[k].photo = exits[k].photo
      /\ \A k \in Keys : k # r => exits'[k].back = exits[k].back
      /\ exits'[r].back
  BY <1>1, <1>2, <1>4, <1>5 DEF Exits
<1>7. ExitScreenTypeOK'
  BY <1>2, <1>6 DEF ExitScreenTypeOK, Keys, Exits
<1>8. \A u \in Screens : screen[u].result \in 0..MaxKeys /\ asked[u].answer \in 0..MaxKeys
  BY DEF ExitScreenTypeOK
<1>9. \A o \in 0..MaxKeys : o # 0 => o \in Keys
  BY ExitScreenAssumption DEF Keys
<1>10. OfTheirWine'
  BY <1>2, <1>6, <1>8, <1>9 DEF OfTheirWine, Confirms, Awaits
<1>11. OneCarriesThePhoto'
  BY <1>1, <1>3, <1>6 DEF OneCarriesThePhoto, Keys
<1> QED
  BY <1>7, <1>10, <1>11

\* The invariant of the exit screens, with as many phones and confirmations as one likes.
THEOREM ExitInvariance == ExitScreenSpec => []ExitScreenInv
<1>1. ExitScreenInv /\ [ExitScreenStep]_exitScreenVars => ExitScreenInv'
  <2>1. ASSUME ExitScreenInv, ExitScreenStep PROVE ExitScreenInv'
    BY <2>1, ScreenSteps, TapStep, CancelStep DEF ExitScreenStep
  <2>2. ASSUME ExitScreenInv, UNCHANGED exitScreenVars PROVE ExitScreenInv'
    BY <2>2 DEF exitScreenVars, ExitScreenInv, ExitScreenTypeOK, OfTheirWine, Confirms, Awaits, OneCarriesThePhoto
  <2> QED
    BY <2>1, <2>2
<1> QED
  BY <1>1, ExitScreenInitInv, PTL DEF ExitScreenSpec

\* A photo takes one bottle out until an exit is cancelled, however many phones show
\* it, however often it is tapped and whatever answers are lost (SortieConfirmation.tsx,
\* planOut).
THEOREM OneBottleForAPhoto == ExitScreenSpec => []PhotoDebitsOnce
<1>1. ASSUME ExitScreenInv, \A k \in 1..MaxKeys : ~ exits[k].back
      PROVE  Cardinality({k \in 1..MaxKeys : exits[k].from = "photo"}) <= 1
  <2> DEFINE S == {k \in 1..MaxKeys : exits[k].from = "photo"}
  <2>1. \A k, j \in S : k = j
    BY <1>1 DEF ExitScreenInv, OneCarriesThePhoto, Keys
  <2>2. CASE S = {}
    BY <2>2, FS_EmptySet
  <2>3. ASSUME NEW k \in S PROVE Cardinality(S) <= 1
    <3>1. S = {k}
      BY <2>1, <2>3
    <3>2. Cardinality({k}) = 1
      BY FS_Singleton
    <3> HIDE DEF S
    <3> QED
      BY <3>1, <3>2
  <2> QED
    BY <2>2, <2>3
<1>2. ExitScreenInv => PhotoDebitsOnce
  BY <1>1 DEF PhotoDebitsOnce
<1> QED
  BY <1>2, ExitInvariance, PTL

\* A confirmation that shows an exit shows one of its own wine, although the list
\* changes under it (SortieResolutionPage.tsx, movements.service.ts).
THEOREM ResultsStayTruthful == ExitScreenSpec => []ResultStaysTruthful
<1>1. ExitScreenInv => ResultStaysTruthful
  <2> SUFFICES ASSUME ExitScreenInv, NEW s \in Screens, screen[s].result # 0
               PROVE  exits[screen[s].result].wine = OnScreen(s)
    BY DEF ResultStaysTruthful
  <2>1. Confirms(screen[s])
    BY DEF ExitScreenInv, OfTheirWine
  <2>2. ~ (screen[s].from = "photo" /\ Shown(s) = {})
    BY <2>1 DEF Confirms, Shown
  <2> QED
    BY <2>1, <2>2 DEF Confirms, OnScreen
<1> QED
  BY <1>1, ExitInvariance, PTL

-----------------------------------------------------------------------------
(* "A confirmer" *)

InboxSpec == InboxInit /\ [][InboxStep]_inboxVars

\* The list will never again name this photo.
DecidedFor(p) == entered[p] # NoEntry \/ p \in dismissed

\* A row has drawn its key, and what has drawn one and is no row any more does not come
\* back: it was decided here, or elsewhere before the answer under way was written.
RowsDrawOnce ==
  \A v \in Pages, p \in Snaps :
    /\ page[v].drawn[p] \in {0, 1}
    /\ page[v].drawn[p] = 1 => label[p] = "read"
    /\ p \in page[v].rows => page[v].drawn[p] = 1 /\ p \notin page[v].handled
    /\ page[v].drawn[p] = 1 /\ p \notin page[v].rows =>
         p \in page[v].handled \/ (DecidedFor(p) /\ p \notin page[v].answer)

\* An answer under way that leaves out a row was written after the photo was decided.
AnswersLeaveOutDecided ==
  \A v \in Pages :
    /\ ~ page[v].fetching => page[v].answer = {}
    /\ page[v].fetching => \A p \in page[v].rows \ page[v].answer : DecidedFor(p)

InboxInv == InboxTypeOK /\ RowsDrawOnce /\ AnswersLeaveOutDecided

Visits == [fetching : BOOLEAN, answer : SUBSET Snaps, drawn : [Snaps -> 0..MaxVisit],
           rows : SUBSET Snaps, failed : SUBSET Snaps, handled : SUBSET Snaps]

\* At the start no visit shows anything.
LEMMA InboxInitInv == InboxInit => InboxInv
<1> SUFFICES ASSUME InboxInit PROVE InboxInv
  OBVIOUS
<1>1. Unopened \in Visits
  BY InboxScreenAssumption DEF Unopened, Visits
<1>2. NoEntry \in [by : SUBSET Pages, n : 0..MaxVisit]
  BY InboxScreenAssumption DEF NoEntry
<1>3. InboxTypeOK
  BY <1>1, <1>2 DEF InboxInit, InboxTypeOK, Visits, Undecided
<1>4. RowsDrawOnce /\ AnswersLeaveOutDecided
  BY DEF InboxInit, RowsDrawOnce, AnswersLeaveOutDecided, Unopened
<1> QED
  BY <1>3, <1>4 DEF InboxInv

\* What is decided stays decided, and the api's steps leave the pages as they are.
LEMMA ApiKeepsPages ==
  ASSUME InboxInv, page' = page,
         \A p \in Snaps : /\ label[p] = "read" => label'[p] = "read"
                          /\ DecidedFor(p) => DecidedFor(p)'
  PROVE  RowsDrawOnce' /\ AnswersLeaveOutDecided'
  BY DEF InboxInv, InboxTypeOK, RowsDrawOnce, AnswersLeaveOutDecided

\* The api reads a label, enters or puts aside photos.
LEMMA InboxApiStep ==
  ASSUME InboxInv,
         \/ \E p \in Snaps : ReadLabel(p)
         \/ \E v \in Pages, sel \in SUBSET Snaps : \E refusals \in SUBSET sel : Validate(v, sel, refusals)
         \/ \E v \in Pages, p \in Snaps : Dismiss(v, p)
  PROVE  InboxInv'
<1>1. ASSUME NEW p \in Snaps, ReadLabel(p) PROVE InboxInv'
  <2>1. InboxTypeOK'
    BY <1>1 DEF ReadLabel, InboxInv, InboxTypeOK
  <2>2. page' = page /\ \A q \in Snaps : (label[q] = "read" => label'[q] = "read") /\ (DecidedFor(q) => DecidedFor(q)')
    BY <1>1 DEF ReadLabel, InboxInv, InboxTypeOK, DecidedFor
  <2> QED
    BY <2>1, <2>2, ApiKeepsPages DEF InboxInv
<1>2. ASSUME NEW v \in Pages, NEW sel \in SUBSET Snaps, NEW refusals \in SUBSET sel, Validate(v, sel, refusals)
      PROVE  InboxInv'
  <2> DEFINE New(p) == [by |-> {v}, n |-> page[v].drawn[p]]
  <2>1. \A p \in Snaps : New(p) \in [by : SUBSET Pages, n : 0..MaxVisit] /\ New(p) # NoEntry
    <3>1. \A p \in Snaps : New(p) \in [by : SUBSET Pages, n : 0..MaxVisit]
      BY DEF InboxInv, InboxTypeOK
    <3>2. \A p \in Snaps : New(p).by # NoEntry.by
      BY DEF NoEntry
    <3> QED
      BY <3>1, <3>2
  <2> HIDE DEF New
  <2>2. entered' = [p \in Snaps |-> IF p \in sel \ refusals /\ entered[p] = NoEntry THEN New(p) ELSE entered[p]]
    BY <1>2 DEF Validate, New
  <2>3. entered' \in [Snaps -> [by : SUBSET Pages, n : 0..MaxVisit]]
    BY <2>1, <2>2 DEF InboxInv, InboxTypeOK
  <2>4. InboxTypeOK'
    BY <1>2, <2>3 DEF Validate, InboxInv, InboxTypeOK
  <2>5. page' = page /\ \A q \in Snaps : (label[q] = "read" => label'[q] = "read") /\ (DecidedFor(q) => DecidedFor(q)')
    BY <1>2, <2>1, <2>2 DEF Validate, DecidedFor
  <2> QED
    BY <2>4, <2>5, ApiKeepsPages DEF InboxInv
<1>3. ASSUME NEW v \in Pages, NEW p \in Snaps, Dismiss(v, p) PROVE InboxInv'
  <2>1. InboxTypeOK'
    BY <1>3 DEF Dismiss, InboxInv, InboxTypeOK
  <2>2. page' = page /\ \A q \in Snaps : (label[q] = "read" => label'[q] = "read") /\ (DecidedFor(q) => DecidedFor(q)')
    BY <1>3 DEF Dismiss, DecidedFor
  <2> QED
    BY <2>1, <2>2, ApiKeepsPages DEF InboxInv
<1> QED
  BY <1>1, <1>2, <1>3

\* The page asks, is answered, hears of its decision or does not.
LEMMA InboxPageStep ==
  ASSUME InboxInv, NEW v \in Pages, Fetch(v) \/ Arrive(v) \/ Decided(v) \/ DecisionLost(v)
  PROVE  InboxInv'
<1> USE DEF InboxInv
<1> page \in [Pages -> Visits] /\ page[v] \in Visits
  BY DEF InboxTypeOK, Visits
<1>1. CASE Fetch(v)
  <2>1. /\ page'[v].fetching /\ page'[v].answer = ToConfirm
        /\ page'[v].drawn = page[v].drawn /\ page'[v].rows = page[v].rows /\ page'[v].handled = page[v].handled
        /\ \A u \in Pages : u # v => page'[u] = page[u]
        /\ page' \in [Pages -> Visits]
    BY <1>1 DEF Fetch, Visits, ToConfirm
  <2>2. InboxTypeOK'
    BY <1>1, <2>1 DEF Fetch, InboxTypeOK, Visits
  <2>3. \A p \in Snaps : DecidedFor(p)' = DecidedFor(p) /\ label'[p] = label[p]
    BY <1>1 DEF Fetch, DecidedFor
  <2>4. RowsDrawOnce'
    BY <2>1, <2>3 DEF RowsDrawOnce, ToConfirm, DecidedFor
  <2>5. AnswersLeaveOutDecided'
    <3>1. \A u \in Pages : page[u].rows \subseteq Snaps /\ page'[u].rows = page[u].rows
      BY <2>1 DEF Visits
    <3>2. \A p \in page[v].rows \ ToConfirm : DecidedFor(p)
      BY <3>1 DEF RowsDrawOnce, ToConfirm, DecidedFor
    <3> HIDE DEF ToConfirm, DecidedFor
    <3> QED
      BY <2>1, <2>3, <3>1, <3>2 DEF AnswersLeaveOutDecided
  <2> QED
    BY <2>2, <2>4, <2>5
<1>2. CASE Arrive(v)
  <2> DEFINE drawing == [p \in Snaps |-> page[v].drawn[p] + (IF p \in Listed(v) \ page[v].rows THEN 1 ELSE 0)]
             unread  == {p \in page[v].answer : label[p] = "unreadable"}
             shown   == [page[v] EXCEPT !.fetching = FALSE, !.answer = {}, !.rows = Listed(v), !.failed = unread, !.drawn = drawing]
  <2>1. page' = [page EXCEPT ![v] = shown]
    BY <1>2 DEF Arrive
  <2>2. Listed(v) \subseteq Snaps /\ unread \subseteq Snaps
    BY DEF Listed, Visits
  <2>3. drawing \in [Snaps -> 0..MaxVisit]
    <3>1. \A p \in Listed(v) \ page[v].rows : page[v].drawn[p] < MaxVisit
      BY <1>2 DEF Arrive
    <3>2. page[v].drawn \in [Snaps -> 0..MaxVisit]
      BY DEF Visits
    <3> QED
      BY <3>1, <3>2, InboxScreenAssumption
  <2>4. \A p \in Snaps : drawing[p] = page[v].drawn[p] + (IF p \in Listed(v) \ page[v].rows THEN 1 ELSE 0)
    OBVIOUS
  <2> HIDE DEF drawing, unread
  <2>5. /\ shown \in Visits
        /\ ~ shown.fetching /\ shown.answer = {} /\ shown.rows = Listed(v)
        /\ shown.drawn = drawing /\ shown.handled = page[v].handled
    BY <2>2, <2>3 DEF Visits
  <2> HIDE DEF shown
  <2>6. page' \in [Pages -> Visits] /\ page'[v] = shown /\ \A u \in Pages : u # v => page'[u] = page[u]
    BY <2>1, <2>5
  <2>7. InboxTypeOK'
    BY <1>2, <2>6 DEF Arrive, InboxTypeOK, Visits
  <2>8. \A p \in Snaps : DecidedFor(p)' = DecidedFor(p) /\ label'[p] = label[p]
    BY <1>2 DEF Arrive, DecidedFor
  <2>9. page[v].fetching
    BY <1>2 DEF Arrive
  <2>10. RowsDrawOnce'
    <3> SUFFICES ASSUME NEW p \in Snaps
                 PROVE  /\ shown.drawn[p] \in {0, 1}
                        /\ shown.drawn[p] = 1 => label[p] = "read"
                        /\ p \in shown.rows => shown.drawn[p] = 1 /\ p \notin shown.handled
                        /\ shown.drawn[p] = 1 /\ p \notin shown.rows =>
                             p \in shown.handled \/ (DecidedFor(p) /\ p \notin shown.answer)
      BY <2>6, <2>8 DEF RowsDrawOnce
    <3>1. /\ page[v].drawn[p] \in {0, 1}
          /\ page[v].drawn[p] = 1 => label[p] = "read"
          /\ p \in page[v].rows => page[v].drawn[p] = 1 /\ p \notin page[v].handled
          /\ page[v].drawn[p] = 1 /\ p \notin page[v].rows =>
               p \in page[v].handled \/ (DecidedFor(p) /\ p \notin page[v].answer)
      BY DEF RowsDrawOnce
    <3>2. p \in page[v].rows \ page[v].answer => DecidedFor(p)
      BY <2>9 DEF AnswersLeaveOutDecided
    <3>3. p \in Listed(v) <=> p \in page[v].answer /\ p \notin page[v].handled /\ label[p] = "read"
      BY DEF Listed
    <3>4. drawing[p] = IF p \in Listed(v) /\ p \notin page[v].rows THEN page[v].drawn[p] + 1 ELSE page[v].drawn[p]
      BY <2>4, <3>1
    <3> QED
      BY <2>5, <3>1, <3>2, <3>3, <3>4
  <2>11. AnswersLeaveOutDecided'
    <3>1. \A u \in Pages : page[u].rows \subseteq Snaps
      BY DEF Visits
    <3> QED
      BY <2>5, <2>6, <2>8, <3>1 DEF AnswersLeaveOutDecided
  <2> QED
    BY <2>7, <2>10, <2>11
<1>3. CASE Decided(v)
  <2>0. decision[v].done \subseteq Snaps
    BY DEF InboxTypeOK
  <2>1. /\ page'[v].fetching = page[v].fetching /\ page'[v].answer = page[v].answer /\ page'[v].drawn = page[v].drawn
        /\ page'[v].rows = page[v].rows \ decision[v].done
        /\ page'[v].handled = page[v].handled \union decision[v].done
        /\ \A u \in Pages : u # v => page'[u] = page[u]
        /\ page' \in [Pages -> Visits]
    BY <1>3, <2>0 DEF Decided, Visits
  <2>2. InboxTypeOK'
    BY <1>3, <2>1 DEF Decided, InboxTypeOK, Visits, Undecided
  <2>3. \A p \in Snaps : DecidedFor(p)' = DecidedFor(p) /\ label'[p] = label[p]
    BY <1>3 DEF Decided, DecidedFor
  <2>4. RowsDrawOnce'
    BY <2>1, <2>3 DEF RowsDrawOnce
  <2>5. AnswersLeaveOutDecided'
    BY <2>1, <2>3 DEF AnswersLeaveOutDecided, Visits
  <2> QED
    BY <2>2, <2>4, <2>5
<1>4. CASE DecisionLost(v)
  <2>1. InboxTypeOK'
    BY <1>4 DEF DecisionLost, InboxTypeOK, Undecided
  <2>2. page' = page /\ \A q \in Snaps : (label[q] = "read" => label'[q] = "read") /\ (DecidedFor(q) => DecidedFor(q)')
    BY <1>4 DEF DecisionLost, DecidedFor
  <2> QED
    BY <2>1, <2>2, ApiKeepsPages
<1> QED
  BY <1>1, <1>2, <1>3, <1>4

\* The invariant of the list of photos to confirm.
THEOREM InboxInvariance == InboxSpec => []InboxInv
<1>1. InboxInv /\ [InboxStep]_inboxVars => InboxInv'
  <2>1. ASSUME InboxInv, InboxStep PROVE InboxInv'
    BY <2>1, InboxApiStep, InboxPageStep DEF InboxStep
  <2>2. ASSUME InboxInv, UNCHANGED inboxVars PROVE InboxInv'
    BY <2>2 DEF inboxVars, InboxInv, InboxTypeOK, RowsDrawOnce, AnswersLeaveOutDecided, DecidedFor
  <2> QED
    BY <2>1, <2>2
<1> QED
  BY <1>1, InboxInitInv, PTL DEF InboxSpec

\* However late an answer is, and whoever decided, a visit draws one key for a photo
\* and does not show again what it has decided (AConfirmerPage.tsx).
THEOREM OneKeyForEachPhoto == InboxSpec => []OneKeyPerVisit
<1>1. InboxInv => OneKeyPerVisit
  BY DEF InboxInv, RowsDrawOnce, OneKeyPerVisit
<1> QED
  BY <1>1, InboxInvariance, PTL

-----------------------------------------------------------------------------
(* The page that confirms an entry *)

ConfirmSpec == ConfirmInit /\ [][ConfirmStep]_confirmVars

ReadOnes    == UNION {{r[f] : f \in READ_FIELDS} : r \in LabelReadings}
TypedOnes   == UNION {TypedValues[f] : f \in READ_FIELDS}
FieldValues == {"ROUGE", ""} \union TypedOnes \union ReadOnes
Drafts   == [READ_FIELDS -> FieldValues]
Statuses == {"PENDING", "PROCESSING", "DONE", "FAILED"}
Captures == [status : Statuses, reason : BOOLEAN, reading : LabelReadings \union {NoReading}]
Cards    == [opened : 0..MaxOpened, status : Statuses, reason : BOOLEAN, draft : Drafts, proposed : SUBSET Drafts,
             manual : BOOLEAN, late : BOOLEAN, stream : {"none", "asked", "open", "closed"}, taps : Nat,
             submitting : BOOLEAN, result : BOOLEAN]
Tellings == [kind : {"photo", "event"}, row : SUBSET Captures]
Sendings == [key : 1..MaxOpened, tap : Nat, draft : Drafts, proposed : SUBSET Drafts,
             read : {"none", "shown", "unseen"}]
Kept     == [made : BOOLEAN, draft : Drafts, shown : BOOLEAN, proposed : SUBSET Drafts]

\* What is proposed is the reading of the photo, which is read for good: in the page,
\* in the answers that tell of it, in the confirmations that carry it and in the rows.
Proposes(proposed) ==
  proposed # {} => capture.status = "DONE" /\ proposed = {ExtractionToDraft(capture.reading)}

CardShows(c) == c \in Cards /\ Proposes(c.proposed)

AnswersTell(as) ==
  as \subseteq Tellings /\ \A a \in as : \A row \in a.row : row.status = "DONE" => row = capture

SendsCarry(ss) ==
  ss \subseteq Sendings
    /\ \A s \in ss : Proposes(s.proposed) /\ (s.proposed # {} => s.read \in {"none", "shown"})

EntriesKeep(es) ==
  es \in [1..MaxOpened -> Kept]
    /\ \A k \in 1..MaxOpened : Proposes(es[k].proposed) /\ (es[k].proposed # {} => es[k].shown)

ConfirmInv ==
  capture \in Captures /\ CardShows(card) /\ AnswersTell(answers) /\ SendsCarry(sends) /\ EntriesKeep(entries)

\* A reading fills a draft.
LEMMA ReadingsFillDrafts ==
  ASSUME NEW reading \in LabelReadings \union {NoReading}
  PROVE  ExtractionToDraft(reading) \in Drafts /\ Defaults \in Drafts
<1>1. Defaults \in Drafts
  BY DEF Defaults, Drafts, FieldValues
<1>2. \A f \in READ_FIELDS : reading[f] # Null => reading \in LabelReadings
  BY DEF NoReading
<1>3. \A f \in READ_FIELDS : (IF reading[f] = Null THEN Defaults[f] ELSE reading[f]) \in FieldValues
  <2> SUFFICES ASSUME NEW f \in READ_FIELDS
               PROVE  (IF reading[f] = Null THEN Defaults[f] ELSE reading[f]) \in FieldValues
    OBVIOUS
  <2>1. Defaults[f] \in FieldValues
    BY <1>1 DEF Drafts
  <2>2. ASSUME reading \in LabelReadings PROVE reading[f] \in FieldValues
    <3>1. reading[f] \in ReadOnes
      BY <2>2 DEF ReadOnes
    <3> QED
      BY <3>1 DEF FieldValues
  <2> QED
    BY <1>2, <2>1, <2>2
<1> QED
  BY <1>1, <1>3 DEF ExtractionToDraft, Drafts

\* A page just opened, and a photo just taken.
LEMMA FreshCard == ASSUME NEW n \in 0..MaxOpened PROVE Fresh(n) \in Cards /\ Fresh(n).proposed = {}
  BY ReadingsFillDrafts DEF Fresh, Cards, Statuses

\* At the start nothing is proposed.
LEMMA ConfirmInitInv == ConfirmInit => ConfirmInv
<1> SUFFICES ASSUME ConfirmInit PROVE ConfirmInv
  OBVIOUS
<1>1. capture \in Captures
  BY DEF ConfirmInit, Captures, Statuses
<1>2. CardShows(card)
  BY FreshCard, ConfirmScreenAssumption DEF ConfirmInit, CardShows, Proposes
<1>3. AnswersTell(answers) /\ SendsCarry(sends)
  BY DEF ConfirmInit, AnswersTell, SendsCarry
<1>4. NotMade \in Kept /\ NotMade.proposed = {}
  BY ReadingsFillDrafts DEF NotMade, Kept
<1>5. EntriesKeep(entries)
  BY <1>4 DEF ConfirmInit, EntriesKeep, Proposes
<1> QED
  BY <1>1, <1>2, <1>3, <1>5 DEF ConfirmInv

\* While the photo stays as it is, what is proposed stays a proposal of its reading.
LEMMA SameCapture ==
  ASSUME ConfirmInv, capture' = capture,
         CardShows(card'), AnswersTell(answers'), SendsCarry(sends'), EntriesKeep(entries')
  PROVE  ConfirmInv'
  BY DEF ConfirmInv, CardShows, AnswersTell, SendsCarry, EntriesKeep, Proposes

\* The photo is taken up, or read: nothing was proposed.
LEMMA WorkerStep ==
  ASSUME ConfirmInv, TakeUpLabel \/ ReadLabelOnce
  PROVE  ConfirmInv'
<1> USE DEF ConfirmInv
<1>1. capture.status # "DONE" /\ UNCHANGED <<card, answers, sends, entries>>
  BY DEF TakeUpLabel, ReadLabelOnce
<1>2. capture' \in Captures
  <2>1. CASE TakeUpLabel
    BY <2>1 DEF TakeUpLabel, Captures, Statuses
  <2>2. CASE ReadLabelOnce
    <3>1. ASSUME NEW r \in LabelReadings, capture' = [status |-> "DONE", reason |-> FALSE, reading |-> r]
          PROVE  capture' \in Captures
      BY <3>1 DEF Captures, Statuses
    <3>2. ASSUME NEW s \in {"PENDING", "FAILED"}, capture' = [capture EXCEPT !.status = s, !.reason = TRUE]
          PROVE  capture' \in Captures
      <4> DEFINE yes == TRUE
                 one == [capture EXCEPT !.status = s]
      <4>1. capture' = [one EXCEPT !.reason = yes]
        BY <3>2
      <4> HIDE DEF yes
      <4>2. yes \in BOOLEAN
        BY DEF yes
      <4>3. one \in Captures
        BY DEF Captures, Statuses
      <4> HIDE DEF one
      <4> QED
        BY <4>1, <4>2, <4>3 DEF Captures
    <3> QED
      BY <2>2, <3>1, <3>2 DEF ReadLabelOnce
  <2> QED
    BY <2>1, <2>2
<1>3. CardShows(card)'
  BY <1>1 DEF CardShows, Proposes
<1>4. AnswersTell(answers)'
  BY <1>1 DEF AnswersTell
<1>5. SendsCarry(sends)'
  BY <1>1 DEF SendsCarry, Proposes
<1>6. EntriesKeep(entries)'
  BY <1>1 DEF EntriesKeep, Proposes
<1> QED
  BY <1>2, <1>3, <1>4, <1>5, <1>6

\* What the page shows once told of the row.
LEMMA ToldShows ==
  ASSUME ConfirmInv, NEW row \in Captures, row.status = "DONE" => row = capture
  PROVE  CardShows(Told(row))
<1> DEFINE one   == [card EXCEPT !.status = row.status]
           told  == [one EXCEPT !.reason = row.reason]
           read  == ExtractionToDraft(row.reading)
           three == [told EXCEPT !.draft = read]
           four  == [three EXCEPT !.proposed = {read}]
<1>1. Told(row) = IF row.status = "DONE" THEN four ELSE told
  BY DEF Told
<1>2. card \in Cards /\ Proposes(card.proposed)
  BY DEF ConfirmInv, CardShows
<1>3. read \in Drafts
  BY ReadingsFillDrafts DEF Captures
<1> HIDE DEF read
<1>4. one \in Cards /\ one.proposed = card.proposed
  BY <1>2 DEF Cards, Captures
<1> HIDE DEF one
<1>5. told \in Cards /\ told.proposed = card.proposed
  BY <1>4 DEF Cards, Captures
<1> HIDE DEF told
<1>6. three \in Cards
  BY <1>3, <1>5 DEF Cards
<1> HIDE DEF three
<1>7. four \in Cards /\ four.proposed = {read}
  BY <1>3, <1>6 DEF Cards
<1> HIDE DEF four
<1>8. row.status = "DONE" => Proposes({read})
  BY DEF Proposes, read
<1> QED
  BY <1>1, <1>2, <1>5, <1>7, <1>8 DEF CardShows

\* The page is opened, asks, is told, waits or gives up waiting.
LEMMA PageStep ==
  ASSUME ConfirmInv,
         OpenCard \/ AnswerPhoto \/ PhotoTold \/ PhotoUntold \/ EventTold \/ StreamCut \/ GetLate \/ TypeByHand
  PROVE  ConfirmInv'
<1> USE DEF ConfirmInv
<1>0. /\ card \in Cards /\ Proposes(card.proposed) /\ capture' = capture
      /\ UNCHANGED <<sends, entries>>
  BY DEF CardShows, OpenCard, AnswerPhoto, PhotoTold, PhotoUntold, EventTold, StreamCut, GetLate, TypeByHand
<1> DEFINE asks(kind) == [kind |-> kind, row |-> {}]
           yes == TRUE
<1>a. \A kind \in {"photo", "event"} : asks(kind) \in Tellings /\ asks(kind).row = {}
  BY DEF Tellings
<1> HIDE DEF asks, yes
<1>b. yes \in BOOLEAN
  BY DEF yes
<1>1. ASSUME OpenCard PROVE CardShows(card') /\ AnswersTell(answers')
  <2>1. card.opened + 1 \in 0..MaxOpened
    BY <1>0, <1>1, ConfirmScreenAssumption DEF OpenCard, Cards
  <2>2. card' = Fresh(card.opened + 1) /\ answers' = {asks("photo")}
    BY <1>1 DEF OpenCard, asks
  <2>3. CardShows(card')
    BY <2>1, <2>2, FreshCard DEF CardShows, Proposes
  <2> QED
    BY <1>a, <2>2, <2>3 DEF AnswersTell
<1>2. ASSUME AnswerPhoto PROVE CardShows(card') /\ AnswersTell(answers')
  <2>1. PICK a \in answers : answers' = (answers \ {a}) \union {[a EXCEPT !.row = {capture}]} /\ card' = card
    BY <1>2 DEF AnswerPhoto
  <2> DEFINE told == [a EXCEPT !.row = {capture}]
  <2>2. told \in Tellings /\ told.row = {capture}
    BY DEF AnswersTell, Tellings
  <2>3. answers' = (answers \ {a}) \union {told}
    BY <2>1
  <2> HIDE DEF told
  <2> QED
    BY <2>1, <2>2, <2>3 DEF AnswersTell
<1>3. ASSUME PhotoTold PROVE CardShows(card') /\ AnswersTell(answers')
  <2>1. PICK a \in answers : \E row \in a.row :
          /\ card' = [Told(row) EXCEPT !.stream = IF row.status = "FAILED" THEN "none" ELSE "asked"]
          /\ answers' = (answers \ {a}) \union (IF row.status = "FAILED" THEN {} ELSE {asks("event")})
    BY <1>3 DEF PhotoTold, asks
  <2>2. PICK row \in a.row :
          /\ card' = [Told(row) EXCEPT !.stream = IF row.status = "FAILED" THEN "none" ELSE "asked"]
          /\ answers' = (answers \ {a}) \union (IF row.status = "FAILED" THEN {} ELSE {asks("event")})
    BY <2>1
  <2>3. row \in Captures /\ (row.status = "DONE" => row = capture)
    BY DEF AnswersTell, Tellings
  <2>4. CardShows(Told(row))
    BY <2>3, ToldShows
  <2> DEFINE told == Told(row)
  <2> HIDE DEF told
  <2>5. card' \in Cards /\ card'.proposed = told.proposed /\ Proposes(told.proposed)
    BY <2>2, <2>4 DEF CardShows, Cards, told
  <2> QED
    BY <1>a, <2>2, <2>5 DEF CardShows, AnswersTell
<1>4. ASSUME EventTold PROVE CardShows(card') /\ AnswersTell(answers')
  <2>1. PICK a \in answers : \E row \in a.row :
          /\ card' = [Told(row) EXCEPT !.stream = IF row.status \in {"DONE", "FAILED"} THEN "closed" ELSE "open"]
          /\ answers' = answers \ {a}
    BY <1>4 DEF EventTold
  <2>2. PICK row \in a.row :
          card' = [Told(row) EXCEPT !.stream = IF row.status \in {"DONE", "FAILED"} THEN "closed" ELSE "open"]
    BY <2>1
  <2>3. row \in Captures /\ (row.status = "DONE" => row = capture)
    BY DEF AnswersTell, Tellings
  <2>4. CardShows(Told(row))
    BY <2>3, ToldShows
  <2> DEFINE told == Told(row)
  <2> HIDE DEF told
  <2>5. card' \in Cards /\ card'.proposed = told.proposed /\ Proposes(told.proposed)
    BY <2>2, <2>4 DEF CardShows, Cards, told
  <2> QED
    BY <2>1, <2>5 DEF CardShows, AnswersTell
<1>5. ASSUME PhotoUntold \/ StreamCut PROVE CardShows(card') /\ AnswersTell(answers')
  <2> DEFINE failed == [card EXCEPT !.status = "FAILED"]
             cut1   == [card EXCEPT !.stream = "closed"]
             cut2   == [cut1 EXCEPT !.late = yes]
  <2>1. answers' \subseteq answers /\ card' \in {[failed EXCEPT !.reason = yes], [cut2 EXCEPT !.reason = yes]}
    BY <1>5 DEF PhotoUntold, StreamCut, yes
  <2>2. failed \in Cards /\ failed.proposed = card.proposed
    BY <1>0 DEF Cards, Statuses
  <2>3. cut1 \in Cards /\ cut1.proposed = card.proposed
    BY <1>0 DEF Cards
  <2> HIDE DEF failed, cut1
  <2>4. cut2 \in Cards /\ cut2.proposed = card.proposed
    BY <1>b, <2>3 DEF Cards
  <2> HIDE DEF cut2
  <2>5. card' \in Cards /\ card'.proposed = card.proposed
    BY <1>b, <2>1, <2>2, <2>4 DEF Cards
  <2> QED
    BY <1>0, <2>1, <2>5 DEF CardShows, AnswersTell
<1>6. ASSUME GetLate \/ TypeByHand PROVE CardShows(card') /\ AnswersTell(answers')
  <2>1. answers' = answers /\ card' \in {[card EXCEPT !.late = yes], [card EXCEPT !.manual = yes]}
    BY <1>6 DEF GetLate, TypeByHand, yes
  <2>2. card' \in Cards /\ card'.proposed = card.proposed
    BY <1>0, <1>b, <2>1 DEF Cards
  <2> QED
    BY <1>0, <2>1, <2>2 DEF CardShows, AnswersTell
<1>7. CardShows(card') /\ AnswersTell(answers')
  BY <1>1, <1>2, <1>3, <1>4, <1>5, <1>6
<1> QED
  BY <1>0, <1>7, SameCapture

\* The form is filled and sent.
LEMMA FormStep ==
  ASSUME ConfirmInv, EditField \/ ConfirmTap \/ ConfirmLost
  PROVE  ConfirmInv'
<1> USE DEF ConfirmInv
<1> DEFINE no == FALSE
           yes == TRUE
<1>0. /\ card \in Cards /\ Proposes(card.proposed) /\ capture' = capture
      /\ UNCHANGED <<answers, entries>>
  BY DEF CardShows, EditField, ConfirmTap, ConfirmLost
<1> HIDE DEF no, yes
<1>b. no \in BOOLEAN /\ yes \in BOOLEAN
  BY DEF no, yes
<1>1. ASSUME EditField PROVE CardShows(card') /\ SendsCarry(sends')
  <2>1. PICK f \in READ_FIELDS : \E v \in TypedValues[f] : card' = [card EXCEPT !.draft[f] = v] /\ sends' = sends
    BY <1>1 DEF EditField
  <2>2. PICK v \in TypedValues[f] : card' = [card EXCEPT !.draft[f] = v]
    BY <2>1
  <2> DEFINE draft == [card.draft EXCEPT ![f] = v]
  <2>3. v \in FieldValues
    <3>1. v \in TypedOnes
      BY DEF TypedOnes
    <3> QED
      BY <3>1 DEF FieldValues
  <2>4. draft \in Drafts
    BY <1>0, <2>3 DEF Cards, Drafts
  <2>5. card' = [card EXCEPT !.draft = draft]
    BY <2>2
  <2> HIDE DEF draft
  <2>6. card' \in Cards /\ card'.proposed = card.proposed
    BY <1>0, <2>4, <2>5 DEF Cards
  <2> QED
    BY <1>0, <2>1, <2>6 DEF CardShows
<1>2. ASSUME ConfirmTap PROVE CardShows(card') /\ SendsCarry(sends')
  <2> DEFINE one == [card EXCEPT !.submitting = yes]
             s == [key |-> card.opened, tap |-> card.taps + 1, draft |-> card.draft,
                   proposed |-> card.proposed, read |-> "none"]
  <2>1. card' = [one EXCEPT !.taps = @ + 1] /\ sends' = sends \union {s} /\ card.opened > 0
    BY <1>2 DEF ConfirmTap, Form, yes
  <2>2. one \in Cards /\ one.proposed = card.proposed
    BY <1>0, <1>b DEF Cards
  <2> HIDE DEF one
  <2>3. card' \in Cards /\ card'.proposed = card.proposed
    BY <2>1, <2>2 DEF Cards
  <2>4. card.opened \in 1..MaxOpened
    BY <1>0, <2>1, ConfirmScreenAssumption DEF Cards
  <2>5. s \in Sendings /\ s.proposed = card.proposed /\ s.read = "none"
    BY <1>0, <2>4 DEF Sendings, Cards
  <2> HIDE DEF s
  <2> QED
    BY <1>0, <2>1, <2>3, <2>5 DEF CardShows, SendsCarry
<1>3. ASSUME ConfirmLost PROVE CardShows(card') /\ SendsCarry(sends')
  <2>1. card' = [card EXCEPT !.submitting = no] /\ sends' = sends
    BY <1>3 DEF ConfirmLost, no
  <2>2. card' \in Cards /\ card'.proposed = card.proposed
    BY <1>0, <1>b, <2>1 DEF Cards
  <2> QED
    BY <1>0, <2>1, <2>2 DEF CardShows
<1> QED
  BY <1>0, <1>1, <1>2, <1>3, SameCapture

\* createIn: the photo's row is looked at, and the movement written once for a key.
LEMMA CreateInStep ==
  ASSUME ConfirmInv, CheckEntry \/ WriteEntry
  PROVE  ConfirmInv'
<1> USE DEF ConfirmInv
<1>0. /\ card \in Cards /\ Proposes(card.proposed) /\ UNCHANGED <<capture, answers>>
  BY DEF CardShows, CheckEntry, WriteEntry
<1>1. \A s : CardShows(ShowResult(s))
  <2> DEFINE no == FALSE
             yes == TRUE
             freed == [card EXCEPT !.submitting = no]
             shown == [freed EXCEPT !.result = yes]
  <2>1. \A s : ShowResult(s) \in {card, shown}
    BY DEF ShowResult
  <2> HIDE DEF no, yes
  <2>2. no \in BOOLEAN /\ yes \in BOOLEAN
    BY DEF no, yes
  <2>3. freed \in Cards /\ freed.proposed = card.proposed
    BY <1>0, <2>2 DEF Cards
  <2> HIDE DEF freed
  <2>4. shown \in Cards /\ shown.proposed = card.proposed
    BY <2>2, <2>3 DEF Cards
  <2> HIDE DEF shown
  <2> QED
    BY <1>0, <2>1, <2>4 DEF CardShows
<1>2. CASE CheckEntry
  <2>1. PICK s \in sends :
          /\ s.read = "none"
          /\ \/ sends' = sends \ {s} /\ card' = ShowResult(s)
             \/ sends' = (sends \ {s}) \union {[s EXCEPT !.read = ReadingShown(capture.status)]} /\ card' = card
          /\ entries' = entries
    BY <1>2 DEF CheckEntry
  <2> DEFINE seen == [s EXCEPT !.read = ReadingShown(capture.status)]
  <2>2. seen \in Sendings /\ seen.proposed = s.proposed /\ seen.read = ReadingShown(capture.status)
    BY DEF SendsCarry, Sendings, ReadingShown
  <2>3. sends' \subseteq (sends \ {s}) \union {seen}
    BY <2>1
  <2> HIDE DEF seen
  <2>4. Proposes(seen.proposed) /\ (seen.proposed # {} => seen.read \in {"none", "shown"})
    BY <2>2 DEF SendsCarry, Proposes, ReadingShown
  <2>5. SendsCarry(sends')
    BY <2>2, <2>3, <2>4 DEF SendsCarry
  <2>6. CardShows(card')
    BY <1>1, <2>1
  <2> QED
    BY <1>0, <2>1, <2>5, <2>6, SameCapture
<1>3. CASE WriteEntry
  <2>1. PICK s \in sends :
          /\ s.read # "none" /\ sends' = sends \ {s} /\ card' = ShowResult(s)
          /\ \/ entries' = entries
             \/ entries' = [entries EXCEPT ![s.key] = [made |-> TRUE, draft |-> s.draft, shown |-> s.read = "shown",
                                                       proposed |-> s.proposed]]
    BY <1>3 DEF WriteEntry
  <2> DEFINE yes == TRUE
             seen == s.read = "shown"
             kept == [made |-> yes, draft |-> s.draft, shown |-> seen, proposed |-> s.proposed]
  <2>2. s \in Sendings /\ Proposes(s.proposed) /\ (s.proposed # {} => seen)
    BY <2>1 DEF SendsCarry
  <2>3. entries' = entries \/ entries' = [entries EXCEPT ![s.key] = kept]
    BY <2>1
  <2> HIDE DEF yes
  <2>4. yes \in BOOLEAN /\ seen \in BOOLEAN
    BY DEF yes
  <2> HIDE DEF seen
  <2>5. kept \in Kept /\ kept.proposed = s.proposed /\ kept.shown = seen
    BY <2>2, <2>4 DEF Kept, Sendings
  <2> HIDE DEF kept
  <2>6. EntriesKeep(entries')
    BY <2>2, <2>3, <2>5 DEF EntriesKeep
  <2>7. CardShows(card') /\ SendsCarry(sends')
    BY <1>1, <2>1 DEF SendsCarry
  <2> QED
    BY <1>0, <2>6, <2>7, SameCapture
<1> QED
  BY <1>2, <1>3

\* The invariant of the page that confirms an entry.
THEOREM ConfirmInvariance == ConfirmSpec => []ConfirmInv
<1>1. ConfirmInv /\ [ConfirmStep]_confirmVars => ConfirmInv'
  <2>1. ASSUME ConfirmInv, ConfirmStep PROVE ConfirmInv'
    BY <2>1, WorkerStep, PageStep, FormStep, CreateInStep DEF ConfirmStep
  <2>2. ASSUME ConfirmInv, UNCHANGED confirmVars PROVE ConfirmInv'
    BY <2>2, SameCapture DEF confirmVars, ConfirmInv
  <2> QED
    BY <2>1, <2>2
<1> QED
  BY <1>1, ConfirmInitInv, PTL DEF ConfirmSpec

\* The fields counted as corrected, when the page showed the reading, are those the user
\* changed (EntreeConfirmationPage.tsx, movements.service.ts, reading-quality.ts).
THEOREM CorrectionsAreOfTheUser == ConfirmSpec => []CorrectionsAreTheUsers
<1>1. ASSUME ConfirmInv, NEW k \in 1..MaxOpened, NEW proposed \in entries[k].proposed
      PROVE  Corrected(entries[k]) = {f \in READ_FIELDS : entries[k].draft[f] # proposed[f]}
  <2>1. entries[k].shown /\ proposed = ExtractionToDraft(capture.reading)
    BY <1>1 DEF ConfirmInv, EntriesKeep, Proposes
  <2>2. proposed = Prefill(capture.reading)
    BY <2>1 DEF ExtractionToDraft, Prefill
  <2> QED
    BY <2>1, <2>2 DEF Corrected
<1>2. ConfirmInv => CorrectionsAreTheUsers
  BY <1>1 DEF CorrectionsAreTheUsers
<1> QED
  BY <1>2, ConfirmInvariance, PTL

-----------------------------------------------------------------------------
(* The forms of a wine's page *)

FicheSpec == FicheInit /\ [][FicheStep]_ficheVars

Asked    == [op : {"none", "count", "move"}, from : Spaces, to : Spaces, n : Nat]
Tickets  == [key : Nat, form : Nat, asks : Asked, answer : {"none", "ok", "refused"}, orphan : BOOLEAN]
Writings == [key : Nat, form : Nat, asks : Asked]
History  == [asks : Asked, sends : Nat, lost : BOOLEAN, done : BOOLEAN]

FicheTyped ==
  /\ paper \in [Ops -> Nat] /\ tickets \subseteq Tickets
  /\ written \subseteq Writings /\ forms \in Seq(History)

\* A form is open in one section, and no more once it is done.
OpenOK ==
  \A op \in Ops : paper[op] # NoForm =>
    /\ paper[op] \in 1..Len(forms) /\ ~ forms[paper[op]].done
    /\ \A o \in Ops : paper[o] = paper[op] => o = op

\* A request is of one form, under its number and for what it was last sent for; if the
\* form is still open, it is in the section that sent it, which has not gone meanwhile.
TicketOK(t) ==
  /\ t.form \in 1..Len(forms) /\ t.key = t.form /\ t.asks.op \in Ops
  /\ t.asks = forms[t.form].asks /\ ~ forms[t.form].done
  /\ \A op \in Ops : paper[op] = t.form => t.asks.op = op /\ ~ t.orphan

\* A form awaits one answer at a time.
OneTicketEach ==
  /\ \A t \in tickets : TicketOK(t)
  /\ \A t, u \in tickets : t.form = u.form => t = u

\* A movement is under the number of its form, alone under it; it is what the form was
\* last sent for, and what it has heard or is about to, unless an answer was lost.
OneMovementEach ==
  /\ \A m \in written : m.form \in 1..Len(forms) /\ m.key = m.form
  /\ \A m, n \in written : m.form = n.form => m = n
  /\ \A m \in written : ~ forms[m.form].lost =>
       /\ m.asks = forms[m.form].asks
       /\ forms[m.form].done \/ \E t \in tickets : t.form = m.form /\ t.answer = "ok"

FicheInv == FicheTyped /\ OpenOK /\ OneTicketEach /\ OneMovementEach

\* At the start no form is open and nothing is written.
LEMMA FicheInitInv == FicheInit => FicheInv
  BY DEF FicheInit, FicheInv, FicheTyped, OpenOK, OneTicketEach, OneMovementEach, NoForm

\* A form is opened.
LEMMA OpenStep ==
  ASSUME FicheInv, NEW op \in Ops, OpenForm(op)
  PROVE  FicheInv'
<1> USE DEF FicheInv
<1> DEFINE no == FALSE
           blank == [asks |-> Nothing, sends |-> 0, lost |-> no, done |-> no]
           n == Len(forms) + 1
<1>1. /\ forms' = Append(forms, blank) /\ paper' = [paper EXCEPT ![op] = n] /\ UNCHANGED <<written, tickets>>
      /\ paper[op] = NoForm
  BY DEF OpenForm
<1> HIDE DEF no
<1>2. no \in BOOLEAN /\ ~ no
  BY DEF no
<1>3. blank \in History /\ ~ blank.done
  BY <1>2, FicheScreenAssumption DEF Nothing, Asked, Spaces, History
<1> HIDE DEF blank
<1>4. forms \in Seq(History) /\ Len(forms) \in Nat /\ paper \in [Ops -> Nat]
  BY DEF FicheTyped
<1>5. /\ forms' \in Seq(History) /\ Len(forms') = n /\ n \in Nat
      /\ \A f \in 1..Len(forms) : forms'[f] = forms[f] /\ f # n /\ f \in 1..n
      /\ forms'[n] = blank
  BY <1>1, <1>3, <1>4
<1> HIDE DEF n
<1>6. paper' \in [Ops -> Nat] /\ paper'[op] = n /\ \A o \in Ops : o # op => paper'[o] = paper[o]
  BY <1>1, <1>4, <1>5
<1>7. FicheTyped'
  BY <1>1, <1>5, <1>6 DEF FicheTyped
<1>8. n # NoForm /\ n \in 1..Len(forms')
  BY <1>4, <1>5 DEF n, NoForm
<1>9. \A o \in Ops : o # op /\ paper'[o] # NoForm => paper'[o] \in 1..Len(forms) /\ paper'[o] # n
  BY <1>5, <1>6 DEF OpenOK
<1>10. OpenOK'
  BY <1>3, <1>5, <1>6, <1>8, <1>9 DEF OpenOK
<1>11. \A t \in tickets : TicketOK(t)'
  BY <1>5, <1>6 DEF OneTicketEach, TicketOK
<1>12. OneTicketEach'
  BY <1>1, <1>11 DEF OneTicketEach
<1>13. OneMovementEach'
  BY <1>1, <1>5 DEF OneMovementEach
<1> QED
  BY <1>7, <1>10, <1>12, <1>13

\* Forms are put away, or stay as they are: nothing that is open, awaited or written
\* comes of it.
LEMMA NoFormStep ==
  ASSUME FicheInv, UNCHANGED <<written, tickets, forms>>, paper' \in [Ops -> Nat],
         \A op \in Ops : paper'[op] \in {paper[op], NoForm}
  PROVE  FicheInv'
<1> USE DEF FicheInv
<1>1. FicheTyped' /\ OneMovementEach'
  BY DEF FicheTyped, OneMovementEach
<1>2. OpenOK'
  BY DEF OpenOK
<1>3. \A t \in tickets : t.form # NoForm
  BY DEF OneTicketEach, TicketOK, NoForm
<1>4. \A t \in tickets : TicketOK(t)'
  BY <1>3 DEF OneTicketEach, TicketOK
<1>5. OneTicketEach'
  BY <1>4 DEF OneTicketEach
<1> QED
  BY <1>1, <1>2, <1>5

\* The page reads again, and may do without its section of locations.
LEMMA FicheReadStep ==
  ASSUME FicheInv, ReadFiche
  PROVE  FicheInv'
<1>1. CASE UNCHANGED <<paper, tickets>>
  <2>1. UNCHANGED <<written, forms>> /\ paper' \in [Ops -> Nat]
    BY <1>1 DEF ReadFiche, FicheInv, FicheTyped
  <2> QED
    BY <1>1, <2>1, NoFormStep
<1>2. CASE /\ paper' = [paper EXCEPT !["move"] = NoForm]
           /\ tickets' = {[t EXCEPT !.orphan = @ \/ t.asks.op = "move"] : t \in tickets}
  <2> USE DEF FicheInv
  <2> DEFINE Orphaned(t) == [t EXCEPT !.orphan = @ \/ t.asks.op = "move"]
  <2>1. UNCHANGED <<written, forms>> /\ tickets' = {Orphaned(t) : t \in tickets}
    BY <1>2 DEF ReadFiche
  <2>2. paper \in [Ops -> Nat] /\ paper' \in [Ops -> Nat] /\ paper'["move"] = NoForm /\ paper'["count"] = paper["count"]
    BY <1>2 DEF FicheTyped, Ops, NoForm
  <2>3. ASSUME NEW t \in tickets
        PROVE  /\ Orphaned(t) \in Tickets /\ Orphaned(t).form = t.form /\ Orphaned(t).key = t.key /\ Orphaned(t).asks = t.asks
               /\ Orphaned(t).answer = t.answer /\ (t.asks.op = "count" /\ ~ t.orphan => ~ Orphaned(t).orphan)
    <3> DEFINE b == t.orphan \/ t.asks.op = "move"
    <3>1. Orphaned(t) = [t EXCEPT !.orphan = b] /\ t \in Tickets /\ b \in BOOLEAN
      BY DEF FicheTyped
    <3>2. t.asks.op = "count" /\ ~ t.orphan => ~ b
      OBVIOUS
    <3> HIDE DEF b, Orphaned
    <3> QED
      BY <3>1, <3>2 DEF Tickets
  <2> HIDE DEF Orphaned
  <2>4. FicheTyped'
    BY <2>1, <2>2, <2>3 DEF FicheTyped
  <2>5. OpenOK'
    BY <2>1, <2>2 DEF OpenOK, Ops
  <2>6. ASSUME NEW t \in tickets PROVE TicketOK(Orphaned(t))'
    <3>1. TicketOK(t) /\ t.form # NoForm
      BY DEF OneTicketEach, TicketOK, NoForm
    <3>2. \A op \in Ops : paper'[op] = t.form => op = "count" /\ paper[op] = t.form
      BY <2>2, <3>1 DEF Ops
    <3> QED
      BY <2>1, <2>3, <3>1, <3>2 DEF TicketOK
  <2>7. OneTicketEach'
    BY <2>1, <2>3, <2>6 DEF OneTicketEach
  <2>8. OneMovementEach'
    <3>1. ASSUME NEW m \in written, \E t \in tickets : t.form = m.form /\ t.answer = "ok"
          PROVE  \E t \in tickets' : t.form = m.form /\ t.answer = "ok"
      BY <2>1, <2>3, <3>1
    <3> QED
      BY <2>1, <3>1 DEF OneMovementEach
  <2> QED
    BY <2>4, <2>5, <2>7, <2>8
<1> QED
  BY <1>1, <1>2 DEF ReadFiche

\* The history of one form changes.
LEMMA HistoryChanges ==
  ASSUME FicheInv, NEW f \in 1..Len(forms), NEW h \in History, forms' = [forms EXCEPT ![f] = h]
  PROVE  /\ forms' \in Seq(History) /\ Len(forms') = Len(forms)
         /\ forms'[f] = h /\ \A g \in 1..Len(forms) : g # f => forms'[g] = forms[g]
  BY DEF FicheInv, FicheTyped

\* A form is sent: nothing of it is written, unless an answer was lost.
LEMMA SendStep ==
  ASSUME FicheInv, NEW asks \in Asked, asks.op \in Ops, Send(asks)
  PROVE  FicheInv'
<1> USE DEF FicheInv
<1>0. PICK f : f = paper[asks.op]
  OBVIOUS
<1> DEFINE no == FALSE
           h1 == [forms[f] EXCEPT !.asks = asks]
           h == [h1 EXCEPT !.sends = @ + 1]
           sent == [key |-> f, form |-> f, asks |-> asks, answer |-> "none", orphan |-> no]
<1>1. /\ tickets' = tickets \union {sent} /\ UNCHANGED <<written, paper>>
      /\ f # NoForm /\ ~ Busy(asks.op)
  BY <1>0 DEF Send, KeyOfForm
<1>2. f \in 1..Len(forms) /\ Len(forms) \in Nat /\ f \in Nat /\ ~ forms[f].done /\ forms[f] \in History
  BY <1>0, <1>1 DEF OpenOK, FicheTyped
<1>3. forms' = [forms EXCEPT ![f] = h]
  BY <1>0, <1>2 DEF Send, FicheTyped
<1>4. h1 \in History /\ h1.done = forms[f].done /\ h1.lost = forms[f].lost /\ h1.asks = asks
  BY <1>2 DEF History
<1> HIDE DEF h1
<1>5. h \in History /\ h.done = forms[f].done /\ h.lost = forms[f].lost /\ h.asks = asks
  BY <1>4 DEF History
<1> HIDE DEF no, h
<1>6. no \in BOOLEAN /\ ~ no
  BY DEF no
<1>7. /\ sent \in Tickets /\ sent.form = f /\ sent.key = f /\ sent.asks = asks /\ ~ sent.orphan
      /\ sent.answer = "none"
  BY <1>2, <1>6 DEF Tickets
<1> HIDE DEF sent
<1>8. /\ forms' \in Seq(History) /\ Len(forms') = Len(forms)
      /\ forms'[f] = h /\ \A g \in 1..Len(forms) : g # f => forms'[g] = forms[g]
  BY <1>2, <1>3, <1>5, HistoryChanges
<1>9. \A t \in tickets : t.form # f
  BY <1>0, <1>1 DEF Busy, OneTicketEach, TicketOK
<1>10. FicheTyped'
  BY <1>1, <1>7, <1>8 DEF FicheTyped
<1>11. OpenOK'
  BY <1>1, <1>2, <1>5, <1>8 DEF OpenOK
<1>12. TicketOK(sent)'
  <2>1. \A op \in Ops : paper'[op] = f => op = asks.op
    BY <1>0, <1>1 DEF OpenOK
  <2>2. f \in 1..Len(forms') /\ forms'[f].asks = asks /\ ~ forms'[f].done
    BY <1>2, <1>5, <1>8
  <2> QED
    BY <1>7, <2>1, <2>2 DEF TicketOK
<1>13. \A t \in tickets : TicketOK(t)'
  BY <1>1, <1>8, <1>9 DEF OneTicketEach, TicketOK
<1>14. OneTicketEach'
  BY <1>1, <1>7, <1>9, <1>12, <1>13 DEF OneTicketEach
<1>15. \A m \in written : m.form = f => forms[f].lost
  BY <1>2, <1>9 DEF OneMovementEach
<1>16. OneMovementEach'
  BY <1>1, <1>5, <1>8, <1>15 DEF OneMovementEach
<1> QED
  BY <1>10, <1>11, <1>14, <1>16

\* The answer comes or is lost: the form hears of it.
LEMMA TicketStep ==
  ASSUME FicheInv, NEW t \in tickets, TicketAnswered(t) \/ TicketLost(t)
  PROVE  FicheInv'
<1> USE DEF FicheInv
<1> DEFINE f == t.form
<1>1. TicketOK(t) /\ f \in 1..Len(forms) /\ Len(forms) \in Nat /\ f \in Nat /\ forms[f] \in History /\ ~ forms[f].done
  BY DEF OneTicketEach, TicketOK, FicheTyped
<1>2. tickets' = tickets \ {t} /\ written' = written /\ \A u \in tickets' : u \in tickets /\ u.form # f
  BY DEF TicketAnswered, TicketLost, OneTicketEach
<1>3. /\ paper' \in [Ops -> Nat] /\ \A op \in Ops : paper'[op] \in {paper[op], NoForm}
  BY DEF TicketAnswered, TicketLost, FicheTyped, NoForm
<1>4. PICK h \in History :
        /\ forms' = [forms EXCEPT ![f] = h]
        /\ h.asks = forms[f].asks
        /\ \/ h.lost /\ ~ h.done
           \/ h.lost = forms[f].lost /\ (h.done <=> t.answer = "ok")
        /\ \A op \in Ops : paper'[op] = f => ~ h.done
  <2>1. CASE TicketAnswered(t)
    <3> DEFINE ok == t.answer = "ok"
               h == [forms[f] EXCEPT !.done = ok]
    <3>1. forms' = [forms EXCEPT ![f] = h]
      BY <2>1 DEF TicketAnswered
    <3>2. ok \in BOOLEAN /\ (ok <=> t.answer = "ok")
      OBVIOUS
    <3>3. ASSUME ok, NEW op \in Ops PROVE paper'[op] # f
      <4>1. CASE paper[op] = f
        <5>1. op = t.asks.op /\ ~ t.orphan
          BY <1>1, <4>1 DEF TicketOK
        <5>2. paper' = [paper EXCEPT ![t.asks.op] = NoForm]
          BY <2>1, <3>3, <5>1 DEF TicketAnswered
        <5>3. paper'[op] = NoForm
          BY <5>1, <5>2 DEF FicheTyped
        <5> QED
          BY <1>1, <5>3 DEF NoForm
      <4>2. CASE paper[op] # f
        BY <1>1, <1>3, <4>2 DEF NoForm
      <4> QED
        BY <4>1, <4>2
    <3> HIDE DEF ok
    <3>4. h \in History /\ h.asks = forms[f].asks /\ h.lost = forms[f].lost /\ h.done = ok
      BY <1>1, <3>2 DEF History
    <3> HIDE DEF h
    <3> QED
      BY <3>1, <3>2, <3>3, <3>4
  <2>2. CASE TicketLost(t)
    <3> DEFINE yes == TRUE
               h == [forms[f] EXCEPT !.lost = yes]
    <3>1. forms' = [forms EXCEPT ![f] = h]
      BY <2>2 DEF TicketLost
    <3> HIDE DEF yes
    <3>2. yes \in BOOLEAN /\ yes
      BY DEF yes
    <3>3. h \in History /\ h.asks = forms[f].asks /\ h.lost = yes /\ h.done = forms[f].done
      BY <1>1, <3>2 DEF History
    <3> HIDE DEF h
    <3> QED
      BY <1>1, <3>1, <3>2, <3>3
  <2> QED
    BY <2>1, <2>2
<1>5. /\ forms' \in Seq(History) /\ Len(forms') = Len(forms)
      /\ forms'[f] = h /\ \A g \in 1..Len(forms) : g # f => forms'[g] = forms[g]
  <2> HIDE DEF f
  <2> QED
    BY <1>1, <1>4, HistoryChanges
<1>6. FicheTyped'
  BY <1>2, <1>3, <1>5 DEF FicheTyped
<1>7. OpenOK'
  <2> SUFFICES ASSUME NEW op \in Ops, paper'[op] # NoForm
               PROVE  /\ paper'[op] \in 1..Len(forms') /\ ~ forms'[paper'[op]].done
                      /\ \A o \in Ops : paper'[o] = paper'[op] => o = op
    BY DEF OpenOK
  <2>1. /\ paper'[op] = paper[op] /\ paper[op] \in 1..Len(forms) /\ ~ forms[paper[op]].done
        /\ \A o \in Ops : paper[o] = paper[op] => o = op
    BY <1>3 DEF OpenOK
  <2>2. ~ forms'[paper'[op]].done
    BY <1>4, <1>5, <2>1
  <2> QED
    BY <1>3, <1>5, <2>1, <2>2
<1>8. ASSUME NEW u \in tickets' PROVE TicketOK(u)'
  <2>1. u \in tickets /\ u.form # f /\ TicketOK(u) /\ u.form # NoForm
    BY <1>2, <1>8 DEF OneTicketEach, TicketOK, NoForm
  <2>2. \A op \in Ops : paper'[op] = u.form => paper[op] = u.form
    BY <1>3, <2>1
  <2> QED
    BY <1>5, <2>1, <2>2 DEF TicketOK
<1>9. OneTicketEach'
  BY <1>2, <1>8 DEF OneTicketEach
<1>10. OneMovementEach'
  <2>1. \A m \in written : m.form \in 1..Len(forms') /\ m.key = m.form
    BY <1>5 DEF OneMovementEach
  <2>2. ASSUME NEW m \in written, ~ forms'[m.form].lost
        PROVE  /\ m.asks = forms'[m.form].asks
               /\ forms'[m.form].done \/ \E u \in tickets' : u.form = m.form /\ u.answer = "ok"
    <3>1. CASE m.form = f
      <4>1. h.lost = forms[f].lost /\ (h.done <=> t.answer = "ok") /\ ~ forms[f].lost
        BY <1>4, <1>5, <2>2, <3>1
      <4>2. m.asks = forms[f].asks /\ \E u \in tickets : u.form = f /\ u.answer = "ok"
        BY <1>1, <3>1, <4>1 DEF OneMovementEach
      <4>3. t.answer = "ok"
        BY <4>2 DEF OneTicketEach
      <4> QED
        BY <1>4, <1>5, <3>1, <4>1, <4>2, <4>3
    <3>2. CASE m.form # f
      BY <1>2, <1>5, <2>2, <3>2 DEF OneMovementEach
    <3> QED
      BY <3>1, <3>2
  <2> QED
    BY <1>2, <2>1, <2>2 DEF OneMovementEach
<1> QED
  BY <1>6, <1>7, <1>9, <1>10

\* The api answers a request: its ticket alone changes, and it is still the form's.
LEMMA AnswerFacts ==
  ASSUME FicheInv, NEW t \in tickets, t.answer = "none", NEW answer \in {"ok", "refused"}, Answer(t, answer)
  PROVE  /\ tickets' \subseteq Tickets /\ OpenOK' /\ OneTicketEach' /\ UNCHANGED <<paper, forms>>
         /\ \A u \in tickets : u.answer = "ok" => u \in tickets'
         /\ \E u \in tickets' : u.form = t.form /\ u.answer = answer
<1> USE DEF FicheInv
<1> DEFINE told == [t EXCEPT !.answer = answer]
<1>1. tickets' = (tickets \ {t}) \union {told} /\ UNCHANGED <<paper, forms>>
  BY DEF Answer
<1>2. /\ told \in Tickets /\ told.key = t.key /\ told.form = t.form /\ told.asks = t.asks
      /\ told.orphan = t.orphan /\ told.answer = answer
  BY DEF FicheTyped, Tickets
<1> HIDE DEF told
<1>3. tickets' \subseteq Tickets /\ OpenOK'
  BY <1>1, <1>2 DEF FicheTyped, OpenOK
<1>4. TicketOK(told)' /\ \A u \in tickets : TicketOK(u)'
  BY <1>1, <1>2 DEF OneTicketEach, TicketOK
<1>5. OneTicketEach'
  BY <1>1, <1>2, <1>4 DEF OneTicketEach
<1> QED
  BY <1>1, <1>2, <1>3, <1>5

\* The api answers without writing: it knows the key, or there is nothing to write, or
\* it refuses.
LEMMA AnswerStep ==
  ASSUME FicheInv, NEW t \in tickets, t.answer = "none", NEW answer \in {"ok", "refused"}, Answer(t, answer),
         written' = written
  PROVE  FicheInv'
<1>1. FicheTyped'
  BY AnswerFacts DEF FicheInv, FicheTyped
<1>2. OneMovementEach'
  BY AnswerFacts DEF FicheInv, OneMovementEach
<1> QED
  BY <1>1, <1>2, AnswerFacts DEF FicheInv

\* The api writes the movement of a form whose key it does not know.
LEMMA WriteStep ==
  ASSUME FicheInv, NEW t \in tickets, t.answer = "none", ~ Known(t.key), NEW places, Write(t, places)
  PROVE  FicheInv'
<1> USE DEF FicheInv
<1> DEFINE m == [key |-> t.key, form |-> t.form, asks |-> t.asks]
<1>1. Answer(t, "ok") /\ written' = written \union {m}
  BY DEF Write
<1>2. /\ tickets' \subseteq Tickets /\ OpenOK' /\ OneTicketEach' /\ UNCHANGED <<paper, forms>>
      /\ \A u \in tickets : u.answer = "ok" => u \in tickets'
      /\ \E u \in tickets' : u.form = t.form /\ u.answer = "ok"
  BY <1>1, AnswerFacts
<1>3. m \in Writings /\ m.key = t.key /\ m.form = t.form /\ m.asks = t.asks
  BY DEF FicheTyped, Tickets, Writings
<1> HIDE DEF m
<1>4. t.form \in 1..Len(forms) /\ t.key = t.form /\ t.asks = forms[t.form].asks
  BY DEF OneTicketEach, TicketOK
<1>5. \A o \in written : o.form # m.form
  BY <1>3, <1>4 DEF Known, OneMovementEach
<1>6. FicheTyped'
  BY <1>1, <1>2, <1>3 DEF FicheTyped
<1>7. OneMovementEach'
  <2>1. \A o \in written : o.form \in 1..Len(forms) /\ o.key = o.form
    BY DEF OneMovementEach
  <2>2. \A o, q \in written' : o.form = q.form => o = q
    BY <1>1, <1>5 DEF OneMovementEach
  <2>3. \A o \in written : ~ forms[o.form].lost =>
          /\ o.asks = forms[o.form].asks
          /\ forms[o.form].done \/ \E u \in tickets' : u.form = o.form /\ u.answer = "ok"
    BY <1>2 DEF OneMovementEach
  <2>4. m.asks = forms[m.form].asks /\ \E u \in tickets' : u.form = m.form /\ u.answer = "ok"
    BY <1>2, <1>3, <1>4
  <2> QED
    BY <1>1, <1>2, <1>3, <1>4, <2>1, <2>2, <2>3, <2>4 DEF OneMovementEach
<1> QED
  BY <1>2, <1>6, <1>7

\* The api's handlers: what they answer and write.
LEMMA HandlerStep ==
  ASSUME FicheInv, NEW t \in tickets, AdjustTo(t) \/ MoveBottles(t)
  PROVE  FicheInv'
<1>1. t.answer = "none"
  BY DEF AdjustTo, MoveBottles
<1>2. \/ \E answer \in {"ok", "refused"} : Answer(t, answer) /\ written' = written
      \/ ~ Known(t.key) /\ \E places : Write(t, places)
  BY DEF AdjustTo, MoveBottles
<1> QED
  BY <1>1, <1>2, AnswerStep, WriteStep

\* The invariant of the forms of a wine's page.
THEOREM FicheInvariance == FicheSpec => []FicheInv
<1>1. FicheInv /\ [FicheStep]_ficheVars => FicheInv'
  <2> SUFFICES ASSUME FicheInv, [FicheStep]_ficheVars PROVE FicheInv'
    OBVIOUS
  <2>1. ASSUME (\E op \in Ops : PutAway(op)) \/ (\E p \in Spaces : OthersMove(p)) \/ UNCHANGED ficheVars PROVE FicheInv'
    <3>1. paper \in [Ops -> Nat]
      BY DEF FicheInv, FicheTyped
    <3>2. UNCHANGED <<written, tickets, forms>> /\ (paper' = paper \/ \E op \in Ops : paper' = [paper EXCEPT ![op] = NoForm])
      BY <2>1 DEF PutAway, OthersMove, ficheVars
    <3>3. paper' \in [Ops -> Nat] /\ \A op \in Ops : paper'[op] \in {paper[op], NoForm}
      BY <3>1, <3>2 DEF NoForm
    <3> QED
      BY <3>2, <3>3, NoFormStep
  <2>2. ASSUME NEW n \in 0..MaxCount, NEW p \in Spaces, SaveInventory(n, p) PROVE FicheInv'
    <3> DEFINE asks == [op |-> "count", from |-> p, to |-> p, n |-> n]
    <3>1. Send(asks)
      BY <2>2 DEF SaveInventory
    <3>2. asks \in Asked /\ asks.op \in Ops
      BY FicheScreenAssumption DEF Asked, Ops
    <3> HIDE DEF asks
    <3> QED
      BY <3>1, <3>2, SendStep
  <2>3. ASSUME NEW p \in Spaces, NEW r \in Racks, NEW n \in 1..MaxCount, SubmitMove(p, r, n) PROVE FicheInv'
    <3> DEFINE asks == [op |-> "move", from |-> p, to |-> r, n |-> n]
    <3>1. Send(asks)
      BY <2>3 DEF SubmitMove
    <3>2. asks \in Asked /\ asks.op \in Ops
      BY FicheScreenAssumption DEF Asked, Spaces, Ops
    <3> HIDE DEF asks
    <3> QED
      BY <3>1, <3>2, SendStep
  <2> QED
    BY <2>1, <2>2, <2>3, OpenStep, FicheReadStep, TicketStep, HandlerStep DEF FicheStep
<1> QED
  BY <1>1, FicheInitInv, PTL DEF FicheSpec

\* However often it is sent, a form writes one movement, and one that closed and lost
\* no answer did what it was last sent for (LocationsBlock.tsx, WinePage.tsx).
THEOREM FormsWriteOneMovement == FicheSpec => []FormsWriteOnce
<1>1. ASSUME FicheInv, NEW f \in DOMAIN forms
      PROVE  LET own == {m \in written : m.form = f} IN
               /\ Cardinality(own) <= 1
               /\ forms[f].done /\ ~ forms[f].lost => \A m \in own : m.asks = forms[f].asks
  <2> DEFINE own == {m \in written : m.form = f}
  <2>1. \A m, n \in own : m = n
    BY <1>1 DEF FicheInv, OneMovementEach
  <2>2. \A m \in own : ~ forms[f].lost => m.asks = forms[f].asks
    BY <1>1 DEF FicheInv, OneMovementEach
  <2>3. Cardinality(own) <= 1
    <3> HIDE DEF own
    <3>1. CASE own = {}
      BY <3>1, FS_EmptySet
    <3>2. ASSUME NEW m \in own PROVE Cardinality(own) <= 1
      <4>1. own = {m}
        BY <2>1, <3>2
      <4>2. Cardinality({m}) = 1
        BY FS_Singleton
      <4> QED
        BY <4>1, <4>2
    <3> QED
      BY <3>1, <3>2
  <2> QED
    BY <2>2, <2>3
<1>2. FicheInv => FormsWriteOnce
  BY <1>1 DEF FormsWriteOnce
<1> QED
  BY <1>2, FicheInvariance, PTL

-----------------------------------------------------------------------------
(* The plan of the cellar *)

PlanPageSpec == PlanPageInit /\ [][PlanPageStep]_planPageVars

Requests == {"mark", "unmark", "order", "delete", "upload", "remove"}

OfAMarker(c) == c.op \in {"mark", "unmark"}

\* Where a request puts the marker of its zone.
Put(c) == IF c.op = "mark" THEN c.at ELSE Unmarked

PlanShaped ==
  /\ \E S : calls \in Seq(S)
  /\ \A i \in DOMAIN calls : DOMAIN calls[i] = {"state", "ask"}
  /\ \A i \in Awaited : calls[i].ask.op \in Requests
  /\ DOMAIN mine = Areas
  /\ DOMAIN cellar = {"order", "marker", "plan"} /\ DOMAIN cellar.marker = Areas

\* The card of the plan waits for one request, and that of a marker is what the page
\* last said of it.
OneAtATime ==
  /\ \A i, j \in Awaited : CardOf(calls[i].ask) = "plan" /\ CardOf(calls[j].ask) = "plan" => i = j
  /\ \A i \in Awaited, z \in Areas : OfAMarker(calls[i].ask) /\ calls[i].ask.zone = z =>
       /\ mine[z] = Put(calls[i].ask)
       /\ calls[i].state = "done" => mine[z] = cellar.marker[z]

\* A marker nothing is awaited for is where the page last put it, or is not known.
SettledMarkers ==
  \A z \in Areas :
    (\A i \in Awaited : OfAMarker(calls[i].ask) => calls[i].ask.zone # z) => mine[z] \in {Whatever, cellar.marker[z]}

PlanPageInv == PlanShaped /\ OneAtATime /\ SettledMarkers

\* At the start nothing is awaited nor known.
LEMMA PlanInitInv == PlanPageInit => PlanPageInv
<1> SUFFICES ASSUME PlanPageInit PROVE PlanPageInv
  OBVIOUS
<1>1. calls \in Seq({}) /\ DOMAIN calls = {} /\ Awaited = {}
  BY DEF PlanPageInit, Awaited
<1>2. PlanShaped
  BY <1>1, PlanPageAssumption DEF PlanPageInit, PlanShaped
<1>3. OneAtATime /\ SettledMarkers
  BY <1>1 DEF PlanPageInit, OneAtATime, SettledMarkers
<1> QED
  BY <1>2, <1>3 DEF PlanPageInv

\* A request is sent, by a card that awaits none.
LEMMA ActStep ==
  ASSUME PlanPageInv, NEW c, c.op \in Requests, Act(c)
  PROVE  PlanPageInv'
<1> USE DEF PlanPageInv
<1> DEFINE n == Len(calls) + 1
           call == [state |-> "sent", ask |-> c]
<1>1. calls' = Append(calls, call) /\ cellar' = cellar /\ Free(CardOf(c))
  BY DEF Act
<1>2. DOMAIN call = {"state", "ask"} /\ call.ask = c /\ call.state = "sent"
  OBVIOUS
<1> HIDE DEF call
<1>3. PICK S : calls \in Seq(S)
  BY DEF PlanShaped
<1>4. Len(calls) \in Nat /\ DOMAIN calls = 1..Len(calls)
  BY <1>3
<1>5. calls' \in Seq(S \union {call}) /\ DOMAIN calls' = 1..n /\ calls'[n] = call
      /\ \A i \in DOMAIN calls : calls'[i] = calls[i]
  BY <1>1, <1>3, <1>4
<1>6. Awaited' = Awaited \union {n} /\ n \notin Awaited
  BY <1>2, <1>4, <1>5 DEF Awaited
<1>7. \A i \in Awaited : calls'[i] = calls[i] /\ i \in DOMAIN calls
  BY <1>5 DEF Awaited
<1>8. DOMAIN mine' = Areas /\ \A z \in Areas : mine'[z] = IF OfAMarker(c) /\ c.zone = z THEN Put(c) ELSE mine[z]
  BY DEF Act, OfAMarker, Put, PlanShaped
<1>9. PlanShaped'
  <2>1. \A i \in Awaited' : calls'[i].ask.op \in Requests
    BY <1>2, <1>5, <1>6, <1>7 DEF PlanShaped
  <2>2. \E T : calls' \in Seq(T)
    BY <1>5
  <2>3. \A i \in DOMAIN calls' : DOMAIN calls'[i] = {"state", "ask"}
    BY <1>2, <1>4, <1>5 DEF PlanShaped
  <2> QED
    BY <1>1, <1>8, <2>1, <2>2, <2>3 DEF PlanShaped
<1>10. \A i \in Awaited : CardOf(calls[i].ask) # CardOf(c)
  BY <1>1 DEF Free
<1>11. OfAMarker(c) => CardOf(c) = "plan"
  BY DEF OfAMarker, CardOf
<1>12. \A i \in Awaited : OfAMarker(calls[i].ask) => CardOf(calls[i].ask) = "plan"
  BY DEF OfAMarker, CardOf
<1>13. OneAtATime'
  <2>1. \A i, j \in Awaited' : CardOf(calls'[i].ask) = "plan" /\ CardOf(calls'[j].ask) = "plan" => i = j
    BY <1>2, <1>5, <1>6, <1>7, <1>10 DEF OneAtATime
  <2>2. \A i \in Awaited', z \in Areas : OfAMarker(calls'[i].ask) /\ calls'[i].ask.zone = z =>
          /\ mine'[z] = Put(calls'[i].ask)
          /\ calls'[i].state = "done" => mine'[z] = cellar.marker[z]
    <3> SUFFICES ASSUME NEW i \in Awaited', NEW z \in Areas, OfAMarker(calls'[i].ask), calls'[i].ask.zone = z
                 PROVE  mine'[z] = Put(calls'[i].ask) /\ (calls'[i].state = "done" => mine'[z] = cellar.marker[z])
      OBVIOUS
    <3>1. CASE i = n
      BY <1>2, <1>5, <1>8, <3>1
    <3>2. CASE i \in Awaited
      <4>1. ~ OfAMarker(c)
        BY <1>7, <1>10, <1>11, <1>12, <3>2
      <4> QED
        BY <1>7, <1>8, <3>2, <4>1 DEF OneAtATime
    <3> QED
      BY <1>6, <3>1, <3>2
  <2> QED
    BY <1>1, <2>1, <2>2 DEF OneAtATime, Awaited, OfAMarker, Put, CardOf
<1>14. SettledMarkers'
  <2> SUFFICES ASSUME NEW z \in Areas, \A i \in Awaited' : OfAMarker(calls'[i].ask) => calls'[i].ask.zone # z
               PROVE  mine'[z] \in {Whatever, cellar.marker[z]}
    BY <1>1 DEF SettledMarkers, Awaited, OfAMarker
  <2>1. ~ (OfAMarker(c) /\ c.zone = z)
    BY <1>2, <1>5, <1>6
  <2>2. \A i \in Awaited : OfAMarker(calls[i].ask) => calls[i].ask.zone # z
    BY <1>6, <1>7
  <2> QED
    BY <1>8, <2>1, <2>2 DEF SettledMarkers
<1> QED
  BY <1>9, <1>13, <1>14

\* What a request does to the markers.
LEMMA CarryPuts ==
  ASSUME PlanShaped, NEW c, c.op \in Requests
  PROVE  /\ DOMAIN Carry(c) = {"order", "marker", "plan"} /\ DOMAIN Carry(c).marker = Areas
         /\ \A z \in Areas : Carry(c).marker[z] = IF OfAMarker(c) /\ c.zone = z THEN Put(c) ELSE cellar.marker[z]
  BY DEF PlanShaped, Carry, OfAMarker, Put, Requests

\* One request is looked at, and what is known of it changes.
LEMMA CallChanges ==
  ASSUME PlanShaped, NEW i \in DOMAIN calls, NEW call, DOMAIN call = {"state", "ask"}, calls' = [calls EXCEPT ![i] = call]
  PROVE  /\ \E S : calls' \in Seq(S)
         /\ DOMAIN calls' = DOMAIN calls /\ calls'[i] = call
         /\ \A j \in DOMAIN calls : j # i => calls'[j] = calls[j]
         /\ \A j \in DOMAIN calls' : DOMAIN calls'[j] = {"state", "ask"}
<1>1. PICK S : calls \in Seq(S)
  BY DEF PlanShaped
<1>2. calls' \in Seq(S \union {call})
  BY <1>1
<1> QED
  BY <1>1, <1>2 DEF PlanShaped

\* The api carries a request out, or refuses it.
LEMMA HandleStep ==
  ASSUME PlanPageInv, NEW i \in Awaited, Handle(i)
  PROVE  PlanPageInv'
<1> USE DEF PlanPageInv
<1> DEFINE c == calls[i].ask
<1>0. i \in DOMAIN calls /\ c.op \in Requests /\ DOMAIN calls[i] = {"state", "ask"}
  BY DEF Awaited, PlanShaped
<1>1. PICK state \in {"done", "refused"} :
        /\ calls' = [calls EXCEPT ![i].state = state] /\ mine' = mine
        /\ state = "done" => cellar' = Carry(c)
        /\ state = "refused" => cellar' = cellar
  BY DEF Handle
<1> DEFINE call == [calls[i] EXCEPT !.state = state]
<1>2. DOMAIN call = {"state", "ask"} /\ call.ask = c /\ call.state = state
  BY <1>0
<1>3. calls' = [calls EXCEPT ![i] = call]
  BY <1>1
<1> HIDE DEF call
<1>4. /\ \E S : calls' \in Seq(S)
      /\ DOMAIN calls' = DOMAIN calls /\ calls'[i] = call
      /\ \A j \in DOMAIN calls : j # i => calls'[j] = calls[j]
      /\ \A j \in DOMAIN calls' : DOMAIN calls'[j] = {"state", "ask"}
  BY <1>0, <1>2, <1>3, CallChanges
<1>5. Awaited' = Awaited
  BY <1>2, <1>4 DEF Awaited
<1>6. \A j \in Awaited : calls'[j].ask = calls[j].ask /\ (j # i => calls'[j] = calls[j])
  BY <1>2, <1>4 DEF Awaited
<1>7. /\ DOMAIN cellar' = {"order", "marker", "plan"} /\ DOMAIN cellar'.marker = Areas
      /\ \A z \in Areas : cellar'.marker[z] = IF state = "done" /\ OfAMarker(c) /\ c.zone = z THEN Put(c) ELSE cellar.marker[z]
  BY <1>0, <1>1, CarryPuts DEF PlanShaped
<1>8. PlanShaped'
  BY <1>1, <1>4, <1>5, <1>6, <1>7 DEF PlanShaped
<1>9. \A j \in Awaited : OfAMarker(calls[j].ask) => CardOf(calls[j].ask) = "plan"
  BY DEF OfAMarker, CardOf
<1>10. OneAtATime'
  <2>1. \A j, k \in Awaited : CardOf(calls'[j].ask) = "plan" /\ CardOf(calls'[k].ask) = "plan" => j = k
    BY <1>6 DEF OneAtATime
  <2>2. \A j \in Awaited, z \in Areas : OfAMarker(calls'[j].ask) /\ calls'[j].ask.zone = z =>
          /\ mine[z] = Put(calls'[j].ask)
          /\ calls'[j].state = "done" => mine[z] = cellar'.marker[z]
    <3> SUFFICES ASSUME NEW j \in Awaited, NEW z \in Areas, OfAMarker(calls[j].ask), calls[j].ask.zone = z
                 PROVE  mine[z] = Put(calls[j].ask) /\ (calls'[j].state = "done" => mine[z] = cellar'.marker[z])
      BY <1>6
    <3>1. mine[z] = Put(calls[j].ask)
      BY DEF OneAtATime
    <3>2. CASE j = i
      BY <1>2, <1>4, <1>7, <3>1, <3>2
    <3>3. CASE j # i
      <4>1. ~ OfAMarker(c)
        BY <1>9, <3>3 DEF OneAtATime
      <4> QED
        BY <1>6, <1>7, <3>1, <3>3, <4>1 DEF OneAtATime
    <3> QED
      BY <3>2, <3>3
  <2> QED
    BY <1>1, <1>5, <2>1, <2>2 DEF OneAtATime, OfAMarker, Put, CardOf
<1>11. SettledMarkers'
  <2> SUFFICES ASSUME NEW z \in Areas, \A j \in Awaited : OfAMarker(calls'[j].ask) => calls'[j].ask.zone # z
               PROVE  mine[z] \in {Whatever, cellar'.marker[z]}
    BY <1>1, <1>5 DEF SettledMarkers, OfAMarker
  <2>1. \A j \in Awaited : OfAMarker(calls[j].ask) => calls[j].ask.zone # z
    BY <1>6
  <2>2. cellar'.marker[z] = cellar.marker[z]
    BY <1>7, <2>1
  <2> QED
    BY <2>1, <2>2 DEF SettledMarkers
<1> QED
  BY <1>8, <1>10, <1>11

\* An answer comes, or is lost: what is known of the marker is what the api did, or
\* nothing.
LEMMA HearStep ==
  ASSUME PlanPageInv, NEW i \in Awaited, CallAnswered(i) \/ CallLost(i)
  PROVE  PlanPageInv'
<1> USE DEF PlanPageInv
<1> DEFINE c == calls[i].ask
<1>0. i \in DOMAIN calls
  BY DEF Awaited
<1>1. /\ calls' = [calls EXCEPT ![i] = Heard] /\ cellar' = cellar
      /\ mine' = NotKnown(i) \/ (mine' = mine /\ calls[i].state = "done")
  BY DEF CallAnswered, CallLost
<1>2. DOMAIN Heard = {"state", "ask"} /\ Heard.state = "answered"
  BY DEF Heard
<1>3. /\ \E S : calls' \in Seq(S)
      /\ DOMAIN calls' = DOMAIN calls /\ calls'[i] = Heard
      /\ \A j \in DOMAIN calls : j # i => calls'[j] = calls[j]
      /\ \A j \in DOMAIN calls' : DOMAIN calls'[j] = {"state", "ask"}
  BY <1>0, <1>1, <1>2, CallChanges
<1>4. Awaited' = Awaited \ {i}
  BY <1>2, <1>3 DEF Awaited
<1>5. \A j \in Awaited' : calls'[j] = calls[j] /\ j \in Awaited /\ j # i
  BY <1>3, <1>4 DEF Awaited
<1>6. DOMAIN NotKnown(i) = Areas /\ \A z \in Areas : NotKnown(i)[z] = IF OfAMarker(c) /\ c.zone = z THEN Whatever ELSE mine[z]
  BY DEF NotKnown, OfAMarker, PlanShaped
<1>7. PlanShaped'
  BY <1>1, <1>3, <1>5, <1>6 DEF PlanShaped
<1>8. \A z \in Areas : ~ (OfAMarker(c) /\ c.zone = z) => mine'[z] = mine[z]
  BY <1>1, <1>6
<1>9. \A j \in Awaited : OfAMarker(calls[j].ask) => CardOf(calls[j].ask) = "plan"
  BY DEF OfAMarker, CardOf
<1>10. OneAtATime'
  <2>1. \A j, k \in Awaited' : CardOf(calls'[j].ask) = "plan" /\ CardOf(calls'[k].ask) = "plan" => j = k
    BY <1>5 DEF OneAtATime
  <2>2. \A j \in Awaited', z \in Areas : OfAMarker(calls'[j].ask) /\ calls'[j].ask.zone = z =>
          /\ mine'[z] = Put(calls'[j].ask)
          /\ calls'[j].state = "done" => mine'[z] = cellar.marker[z]
    <3> SUFFICES ASSUME NEW j \in Awaited', NEW z \in Areas, OfAMarker(calls[j].ask), calls[j].ask.zone = z
                 PROVE  mine'[z] = Put(calls[j].ask) /\ (calls[j].state = "done" => mine'[z] = cellar.marker[z])
      BY <1>5
    <3>1. ~ OfAMarker(c)
      BY <1>5, <1>9 DEF OneAtATime
    <3> QED
      BY <1>5, <1>8, <3>1 DEF OneAtATime
  <2> QED
    BY <1>1, <2>1, <2>2 DEF OneAtATime, OfAMarker, Put, CardOf
<1>11. SettledMarkers'
  <2> SUFFICES ASSUME NEW z \in Areas, \A j \in Awaited' : OfAMarker(calls'[j].ask) => calls'[j].ask.zone # z
               PROVE  mine'[z] \in {Whatever, cellar.marker[z]}
    BY <1>1 DEF SettledMarkers, OfAMarker
  <2>1. CASE OfAMarker(c) /\ c.zone = z
    <3>1. calls[i].state = "done" => mine[z] = cellar.marker[z]
      BY <2>1 DEF OneAtATime
    <3> QED
      BY <1>1, <1>6, <2>1, <3>1
  <2>2. CASE ~ (OfAMarker(c) /\ c.zone = z)
    <3>1. \A j \in Awaited : OfAMarker(calls[j].ask) => calls[j].ask.zone # z
      BY <1>4, <1>5, <2>2
    <3> QED
      BY <1>8, <2>2, <3>1 DEF SettledMarkers
  <2> QED
    BY <2>1, <2>2
<1> QED
  BY <1>7, <1>10, <1>11

\* Neither another phone nor what the page shows moves a marker.
LEMMA MarkersStay ==
  ASSUME PlanPageInv, UNCHANGED <<calls, mine>>, DOMAIN cellar' = DOMAIN cellar, cellar'.marker = cellar.marker
  PROVE  PlanPageInv'
  BY DEF PlanPageInv, PlanShaped, OneAtATime, SettledMarkers, Awaited, OfAMarker, Put, CardOf

\* The invariant of the plan's card.
THEOREM PlanInvariance == PlanPageSpec => []PlanPageInv
<1>1. PlanPageInv /\ [PlanPageStep]_planPageVars => PlanPageInv'
  <2> SUFFICES ASSUME PlanPageInv, [PlanPageStep]_planPageVars PROVE PlanPageInv'
    OBVIOUS
  <2> USE DEF PlanPageInv
  <2>1. ASSUME NEW z \in Areas, OtherOpens(z) \/ OtherDeletes(z) PROVE PlanPageInv'
    <3>1. UNCHANGED <<calls, mine>> /\ DOMAIN cellar' = DOMAIN cellar /\ cellar'.marker = cellar.marker
      BY <2>1 DEF OtherOpens, OtherDeletes, Carry, PlanShaped
    <3> QED
      BY <3>1, MarkersStay
  <2>2. ASSUME UNCHANGED <<cellar, calls, mine>> PROVE PlanPageInv'
    BY <2>2, MarkersStay
  <2>3. ASSUME NEW z, NEW at, Act([op |-> "mark", zone |-> z, at |-> at]) PROVE PlanPageInv'
    BY <2>3, ActStep DEF Requests
  <2>4. ASSUME NEW op \in {"unmark", "delete"}, NEW z, Act([op |-> op, zone |-> z]) PROVE PlanPageInv'
    BY <2>4, ActStep DEF Requests
  <2>5. ASSUME NEW ids, Act([op |-> "order", ids |-> ids]) PROVE PlanPageInv'
    BY <2>5, ActStep DEF Requests
  <2>6. ASSUME NEW op \in {"upload", "remove"}, Act([op |-> op]) PROVE PlanPageInv'
    BY <2>6, ActStep DEF Requests
  <2>7. ASSUME NEW at \in Spots, Touch(at) PROVE PlanPageInv'
    BY <2>2, <2>3, <2>7 DEF Touch
  <2>8. ASSUME NEW z \in Areas, Designate(z) \/ TouchMarker(z) \/ DeleteArea(z) PROVE PlanPageInv'
    BY <2>2, <2>3, <2>4, <2>8 DEF Designate, TouchMarker, DeleteArea
  <2>9. ASSUME StartMoving \/ TakeMarkerOff \/ CloseChooser \/ ChangePlan \/ ReadAgain \/ UNCHANGED planPageVars
        PROVE  PlanPageInv'
    BY <2>2, <2>4, <2>6, <2>9 DEF StartMoving, TakeMarkerOff, CloseChooser, ChangePlan, ReadAgain, planPageVars
  <2>10. ASSUME NEW i \in 1..Len(view.order), MoveDown(i) PROVE PlanPageInv'
    BY <2>5, <2>10 DEF MoveDown
  <2> QED
    BY <2>1, <2>7, <2>8, <2>9, <2>10, HandleStep, HearStep DEF PlanPageStep
<1> QED
  BY <1>1, PlanInitInv, PTL DEF PlanPageSpec

\* A marker whose requests are answered is where the last of them put it, whatever the
\* card of the zones and the other phones do (MaCavePage.tsx).
THEOREM MarkersStayWhereTapped == PlanPageSpec => []MarkersWhereTapped
<1>1. PlanPageInv => MarkersWhereTapped
  BY DEF PlanPageInv, SettledMarkers, MarkersWhereTapped, OfAMarker
<1> QED
  BY <1>1, PlanInvariance, PTL

-----------------------------------------------------------------------------
(* The phones together *)

\* What happens on the phones is, for each page, a behaviour of that page.
LEMMA PagesTogether == Spec => InboxSpec /\ FicheSpec
<1>1. Init => InboxInit /\ FicheInit
  BY DEF Init
<1>2. [Next]_vars => [InboxStep]_inboxVars /\ [FicheStep]_ficheVars
  BY DEF Next, vars, SenderSteps, PagesButPhotos, SendersAndExits
<1> QED
  BY <1>1, <1>2, PTL DEF Spec, InboxSpec, FicheSpec

\* What is sent again from a page goes under the key it had the first time
\* (AConfirmerPage.tsx, LocationsBlock.tsx, WinePage.tsx).
THEOREM KeysAreKept == Spec => []KeysKept
  BY PagesTogether, OneKeyForEachPhoto, FormsWriteOneMovement, PTL DEF KeysKept

==============================================================================
