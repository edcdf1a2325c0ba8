--------------------------- MODULE SpendingProofs ---------------------------
(***************************************************************************)
(* What the limits on Gemini's cost keep, for any number of cellars,       *)
(* photos, wines and searches: nothing but the calls under way when a      *)
(* limit is met passes it, and what a search cost is written down, is to   *)
(* be, or is known to be lost; and what calls leave behind: answers where  *)
(* they belong, and a report that is whole.                                *)
(***************************************************************************)
EXTENDS Spending, VisionCalls, Sums

\* Any number of searches, months and stops.
SpendingNext == SpendingStep \/ (\E s \in Searches : StartSearch(s)) \/ NextMonth \/ ApiStops

SpendingSpec == SpendingInit /\ [][SpendingNext]_spendVars

-----------------------------------------------------------------------------
(* Rows and searches *)

\* The dearest end of a search.
SearchMost == Max({SearchCost, Estimate})

PhotoRow == [at : {"absent", "waiting", "reading", "answered", "done", "failed"}, made : Nat, cost : {0, PhotoCost}]
PairingRow == [at : {"waiting", "asking"}, made : Nat, cost : {0, LotCost}]

\* A row is of this month or of one before.
RowsDated ==
  /\ month \in Nat /\ photo \in [Photos -> PhotoRow] /\ pairing \in [Wines -> PairingRow]
  /\ searched \in [Caves -> Nat]
  /\ \A p \in Photos : photo[p].made <= month
  /\ \A w \in Wines : pairing[w].made <= month

\* A search costs something between the answer, or the end of the wait, and its row.
SearchShaped(k) ==
  /\ {"at", "cave", "cost"} \subseteq DOMAIN k /\ k.cave \in Caves /\ k.cost \in 0..SearchCost
  /\ k.at \notin {"record", "estimate"} => k.cost = 0
  /\ k.at = "estimate" => k.cost <= Estimate

SearchesShaped == DOMAIN search = Searches /\ \A s \in Searches : SearchShaped(search[s])

RowsOK == RowsDated /\ SearchesShaped

\* The parameters are numbers, the sets finite, and SearchMost is the greater of two.
LEMMA Constants ==
  /\ IsFiniteSet(Caves) /\ IsFiniteSet(Photos) /\ IsFiniteSet(Wines) /\ IsFiniteSet(Searches)
  /\ {Cap, SharedCap, CaveCap, InvitedCap, LotCost, Estimate, PhotoCost, SearchCost} \subseteq Nat
  /\ SearchMost \in {SearchCost, Estimate} /\ SearchCost <= SearchMost /\ Estimate <= SearchMost
<1>1. SearchCost \in Nat /\ Estimate \in Nat
  BY SpendingAssumption
<1>2. \E x \in {SearchCost, Estimate} : \A y \in {SearchCost, Estimate} : x >= y
  BY <1>1
<1>3. SearchMost \in {SearchCost, Estimate} /\ \A y \in {SearchCost, Estimate} : SearchMost >= y
  BY <1>2 DEF SearchMost, Max
<1> QED
  BY <1>1, <1>3, SpendingAssumption

\* What a step of a search makes of it.
SearchGoes(s, k) ==
  /\ DOMAIN search' = Searches /\ search'[s] = k /\ \A r \in Searches \ {s} : search'[r] = search[r]

\* A search that has ended.
LEMMA IdleFacts == SearchShaped(Idle) /\ Idle.at = "idle" /\ Idle.cost = 0 /\ Idle.cave = Main
<1>1. Main \in Caves /\ 0 \in 0..SearchCost
  BY SpendingAssumption
<1> DEFINE no == FALSE
<1>2. Idle = [at |-> "idle", cave |-> Main, warned |-> no, late |-> no, cost |-> 0]
  BY DEF Idle
<1> HIDE DEF no
<1> QED
  BY <1>1, <1>2 DEF SearchShaped

\* A search that begins.
LEMMA StartFacts ==
  ASSUME NEW c \in Caves, NEW warned, NEW k, k = [Idle EXCEPT !.at = "off", !.cave = c, !.warned = warned]
  PROVE  SearchShaped(k) /\ k.at = "off" /\ k.cost = 0
<1>1. {"at", "cave", "cost"} \subseteq DOMAIN Idle /\ Idle.cost = 0
  BY IdleFacts DEF SearchShaped
<1>2. k.at = "off" /\ k.cost = 0 /\ k.cave = c /\ DOMAIN k = DOMAIN Idle
  BY <1>1
<1>3. 0 \in 0..SearchCost
  BY SpendingAssumption
<1> QED
  BY <1>1, <1>2, <1>3 DEF SearchShaped

\* A search that goes on to another of its steps.
LEMMA GoesFacts ==
  ASSUME RowsOK, NEW s \in Searches, NEW at, Goes(s, at), NEW k, k = [search[s] EXCEPT !.at = at]
  PROVE  /\ SearchGoes(s, k) /\ k.at = at /\ k.cave = search[s].cave /\ k.cost = search[s].cost
         /\ search[s].cost = 0 => SearchShaped(k)
<1>1. SearchShaped(search[s]) /\ DOMAIN search = Searches
  BY DEF RowsOK, SearchesShaped
<1>2. SearchGoes(s, k)
  BY <1>1 DEF Goes, SearchGoes
<1>3. k.at = at /\ k.cave = search[s].cave /\ k.cost = search[s].cost /\ DOMAIN k = DOMAIN search[s]
  BY <1>1 DEF SearchShaped
<1>4. search[s].cost = 0 => SearchShaped(k)
  BY <1>1, <1>3, Constants DEF SearchShaped
<1> QED
  BY <1>2, <1>3, <1>4

\* A search that comes to its end.
LEMMA EndsFacts ==
  ASSUME RowsOK, NEW s \in Searches, Ends(s)
  PROVE  SearchGoes(s, Idle)
  BY DEF RowsOK, SearchesShaped, Ends, SearchGoes

-----------------------------------------------------------------------------
(* The steps of a search *)

\* Between the last limit met and the row written.
Flying == {"call", "sent", "record", "estimate"}

\* A search leaves the calls under way, stays where it is, meets a limit first, or
\* writes the n cents of its row.
Lawful(s, k, n) ==
  \/ n = 0 /\ k.at \notin Flying \union {"share"}
  \/ /\ n = 0 /\ k.cave = search[s].cave
     /\ \/ k.at = search[s].at
        \/ search[s].at \in Flying /\ k.at \in Flying
        \/ search[s].at = "global" /\ k.at = "share" /\ UnderShare(SharedCap)
        \/ search[s].at = "share" /\ k.at = "call" /\ CaveUnderShare(k.cave)
  \/ search[s].at \in {"record", "estimate"} /\ k.at \notin Flying \union {"share"}

\* What is billed is to be written, is written, or is known to be lost.
Moves(s, k, n) ==
  /\ SearchGoes(s, k) /\ SearchShaped(k) /\ n \in 0..SearchMost
  /\ searched' = [searched EXCEPT ![search[s].cave] = @ + n]
  /\ UNCHANGED <<month, photo, pairing>>
  /\ billed' \in Nat /\ unsaid' \in Nat
  /\ k.cost + n + unsaid' + billed >= search[s].cost + unsaid + billed'
  /\ Lawful(s, k, n)

\* What every state keeps: rows, searches and the two counts.
SpendingOK == RowsOK /\ billed \in Nat /\ unsaid \in Nat

\* Every step of a search is such a move.
LEMMA SearchMoves ==
  ASSUME SpendingOK, NEW s \in Searches, SearchGoesOn(s) \/ ThirdParty(s) \/ StartSearch(s)
  PROVE  \E k, n : Moves(s, k, n)
<1> DEFINE old == search[s]
           Quiet == /\ UNCHANGED <<month, photo, pairing, searched>> /\ billed' = billed /\ unsaid' = unsaid
<1>1. /\ RowsOK /\ SearchShaped(old) /\ DOMAIN search = Searches /\ old.cave \in Caves /\ old.cost \in Nat
      /\ billed \in Nat /\ unsaid \in Nat /\ searched \in [Caves -> Nat]
      /\ (old.at \notin {"record", "estimate"} => old.cost = 0) /\ (old.at = "estimate" => old.cost <= Estimate)
  BY Constants DEF SpendingOK, RowsOK, RowsDated, SearchesShaped, SearchShaped
<1>2. [searched EXCEPT ![old.cave] = @ + 0] = searched
  BY <1>1
<1>3. 0 \in 0..SearchMost
  BY Constants
<1>4. ASSUME NEW k, SearchGoes(s, k), SearchShaped(k), Quiet, k.cost = old.cost, Lawful(s, k, 0)
      PROVE  Moves(s, k, 0)
  BY <1>1, <1>2, <1>3, <1>4 DEF Moves, SearchShaped
<1>5. ASSUME Ends(s), Quiet, old.cost = 0 PROVE \E k, n : Moves(s, k, n)
  <2>1. SearchGoes(s, Idle) /\ SearchShaped(Idle) /\ Idle.cost = old.cost /\ Lawful(s, Idle, 0)
    BY <1>1, <1>5, EndsFacts, IdleFacts DEF Lawful, Flying
  <2> QED
    BY <1>4, <1>5, <2>1
<1>6. ASSUME NEW at, Goes(s, at), Quiet, old.cost = 0,
             \A k : k.at = at /\ k.cave = old.cave => Lawful(s, k, 0)
      PROVE  \E k, n : Moves(s, k, n)
  <2> DEFINE k == [old EXCEPT !.at = at]
  <2>1. k = [search[s] EXCEPT !.at = at] /\ RowsOK /\ Goes(s, at) /\ old.cost = 0
    BY <1>1, <1>6
  <2>2. SearchGoes(s, k) /\ k.at = at /\ k.cave = old.cave /\ k.cost = old.cost /\ SearchShaped(k)
    <3> HIDE DEF k
    <3> QED
      BY <2>1, GoesFacts
  <2>3. Lawful(s, k, 0)
    <3> HIDE DEF k
    <3> QED
      BY <1>6, <2>2
  <2> HIDE DEF k
  <2> QED
    BY <1>4, <1>6, <2>2, <2>3
<1>7. CASE StartSearch(s)
  <2>1. PICK c \in Caves : search' = [search EXCEPT ![s] = [Idle EXCEPT !.at = "off", !.cave = c, !.warned = paused]]
    BY <1>7 DEF StartSearch
  <2> DEFINE k == [Idle EXCEPT !.at = "off", !.cave = c, !.warned = paused]
  <2>2. SearchShaped(k) /\ k.at = "off" /\ k.cost = 0
    BY StartFacts
  <2>3. SearchGoes(s, k)
    BY <1>1, <2>1 DEF SearchGoes
  <2>4. Quiet /\ old.cost = 0
    BY <1>1, <1>7 DEF StartSearch
  <2> HIDE DEF k
  <2>5. Lawful(s, k, 0)
    BY <2>2 DEF Lawful, Flying
  <2> QED
    BY <1>4, <2>2, <2>3, <2>4, <2>5
<1>8. CASE Deadline(s)
  <2> DEFINE yes == TRUE
             k == [old EXCEPT !.late = yes]
  <2>1. search' = [search EXCEPT ![s] = k] /\ Quiet
    BY <1>1, <1>8 DEF Deadline
  <2> HIDE DEF yes
  <2>2. k.at = old.at /\ k.cave = old.cave /\ k.cost = old.cost /\ DOMAIN k = DOMAIN old
    BY <1>1 DEF SearchShaped
  <2> HIDE DEF k
  <2>3. SearchShaped(k) /\ Lawful(s, k, 0)
    BY <1>1, <2>2 DEF SearchShaped, Lawful
  <2>4. SearchGoes(s, k)
    BY <1>1, <2>1 DEF SearchGoes
  <2> QED
    BY <1>4, <2>1, <2>2, <2>3, <2>4
<1>9. CASE \/ OffAnswers(s) \/ OffLate(s) \/ CheckGlobal(s) \/ CheckShare(s)
           \/ Call(s) \/ SearchRefused(s) \/ ReadSite(s) \/ SiteLate(s)
  <2>1. Quiet /\ old.cost = 0
    BY <1>1, <1>9 DEF OffAnswers, OffLate, CheckGlobal, CheckShare, Call, SearchRefused, ReadSite, SiteLate
  <2>2. \/ Ends(s)
        \/ Goes(s, "global")
        \/ old.at = "global" /\ UnderShare(SharedCap) /\ Goes(s, "share")
        \/ old.at = "share" /\ CaveUnderShare(old.cave) /\ Goes(s, "call")
        \/ old.at = "call" /\ (Goes(s, "estimate") \/ Goes(s, "sent"))
    BY <1>9 DEF OffAnswers, OffLate, CheckGlobal, CheckShare, Call, SearchRefused, ReadSite, SiteLate
  <2>3. CASE Ends(s)
    BY <1>5, <2>1, <2>3
  <2>4. CASE Goes(s, "global")
    BY <1>6, <2>1, <2>4 DEF Lawful, Flying
  <2>5. CASE old.at = "global" /\ UnderShare(SharedCap) /\ Goes(s, "share")
    BY <1>6, <2>1, <2>5 DEF Lawful, Flying
  <2>6. CASE old.at = "share" /\ CaveUnderShare(old.cave) /\ Goes(s, "call")
    BY <1>6, <2>1, <2>6 DEF Lawful, Flying
  <2>7. CASE old.at = "call" /\ Goes(s, "estimate")
    BY <1>6, <2>1, <2>7 DEF Lawful, Flying
  <2>8. CASE old.at = "call" /\ Goes(s, "sent")
    BY <1>6, <2>1, <2>8 DEF Lawful, Flying
  <2> QED
    BY <2>2, <2>3, <2>4, <2>5, <2>6, <2>7, <2>8
<1>10. ASSUME NEW at \in {"record", "estimate"}, NEW cents \in 0..SearchCost, NEW cost \in Nat,
              old.at = "sent", search' = [search EXCEPT ![s].at = at, ![s].cost = cents],
              at = "estimate" => cents <= Estimate,
              UNCHANGED <<month, photo, pairing, searched>>, billed' = billed + cost,
              unsaid' \in Nat, cents + unsaid' >= unsaid + cost
       PROVE  Moves(s, [old EXCEPT !.at = at, !.cost = cents], 0)
  <2> DEFINE k == [old EXCEPT !.at = at, !.cost = cents]
  <2>1. SearchGoes(s, k)
    BY <1>1, <1>10 DEF SearchGoes
  <2>2. k.at = at /\ k.cave = old.cave /\ k.cost = cents /\ DOMAIN k = DOMAIN old
    BY <1>1 DEF SearchShaped
  <2> HIDE DEF k
  <2>3. SearchShaped(k) /\ Lawful(s, k, 0)
    BY <1>1, <1>10, <2>2 DEF SearchShaped, Lawful, Flying
  <2>4. k.cost + 0 + unsaid' + billed >= old.cost + unsaid + billed'
    BY <1>1, <1>10, <2>2
  <2>5. billed' \in Nat
    BY <1>1, <1>10
  <2> QED
    BY <1>2, <1>3, <1>10, <2>1, <2>3, <2>4, <2>5 DEF Moves, k
<1>11. CASE SearchAnswered(s)
  <2>1. PICK cost \in 1..SearchCost : /\ search' = [search EXCEPT ![s].at = "record", ![s].cost = cost]
                                      /\ billed' = billed + cost
    BY <1>11 DEF SearchAnswered
  <2>2. cost \in 0..SearchCost /\ cost \in Nat
    BY Constants
  <2>3. old.at = "sent" /\ unsaid' = unsaid /\ UNCHANGED <<month, photo, pairing, searched>>
    BY <1>11 DEF SearchAnswered
  <2>4. unsaid' \in Nat /\ cost + unsaid' >= unsaid + cost
    BY <1>1, <2>2, <2>3
  <2>5. Moves(s, [old EXCEPT !.at = "record", !.cost = cost], 0)
    BY <1>10, <2>1, <2>2, <2>3, <2>4
  <2> QED
    BY <2>5
<1>12. CASE Abandon(s)
  <2>1. PICK cost \in 0..SearchCost :
          /\ billed' = billed + cost
          /\ unsaid' = unsaid + (IF cost > Estimate THEN cost - Estimate ELSE 0)
          /\ search' = [search EXCEPT ![s].at = "estimate", ![s].cost = IF cost < Estimate THEN cost ELSE Estimate]
    BY <1>12 DEF Abandon
  <2> DEFINE cents == IF cost < Estimate THEN cost ELSE Estimate
  <2>2. cents \in 0..SearchCost /\ cost \in Nat /\ cents <= Estimate /\ unsaid' \in Nat /\ cents + unsaid' >= unsaid + cost
    BY <1>1, <2>1, Constants
  <2>3. search' = [search EXCEPT ![s].at = "estimate", ![s].cost = cents] /\ billed' = billed + cost
    BY <2>1
  <2>4. old.at = "sent" /\ UNCHANGED <<month, photo, pairing, searched>>
    BY <1>12 DEF Abandon
  <2> HIDE DEF cents
  <2>5. Moves(s, [old EXCEPT !.at = "estimate", !.cost = cents], 0)
    BY <1>10, <2>2, <2>3, <2>4
  <2> QED
    BY <2>5
<1>13. CASE RecordSearch(s)
  <2> DEFINE k == [old EXCEPT !.at = "site", !.cost = 0]
  <2>1. SearchGoes(s, k)
    BY <1>1, <1>13 DEF SearchGoes, RecordSearch
  <2>2. k.at = "site" /\ k.cave = old.cave /\ k.cost = 0 /\ DOMAIN k = DOMAIN old
    BY <1>1 DEF SearchShaped
  <2> HIDE DEF k
  <2>3. /\ old.at = "record" /\ unsaid' = unsaid /\ billed' = billed /\ UNCHANGED <<month, photo, pairing>>
        /\ searched' = [searched EXCEPT ![old.cave] = @ + old.cost]
    BY <1>13 DEF RecordSearch
  <2>4. SearchShaped(k) /\ Lawful(s, k, old.cost) /\ old.cost \in 0..SearchMost
    BY <1>1, <2>2, <2>3, Constants DEF SearchShaped, Lawful, Flying
  <2>5. k.cost + old.cost + unsaid' + billed >= old.cost + unsaid + billed'
    BY <1>1, <2>2, <2>3
  <2>6. Moves(s, k, old.cost)
    BY <1>1, <2>1, <2>3, <2>4, <2>5 DEF Moves
  <2> QED
    BY <2>6
<1>14. CASE RecordEstimate(s)
  <2>1. /\ old.at = "estimate" /\ unsaid' = unsaid /\ billed' = billed /\ UNCHANGED <<month, photo, pairing>>
        /\ searched' = [searched EXCEPT ![old.cave] = @ + Estimate] /\ Ends(s)
    BY <1>14 DEF RecordEstimate
  <2>2. SearchGoes(s, Idle) /\ SearchShaped(Idle) /\ Lawful(s, Idle, Estimate) /\ Estimate \in 0..SearchMost
    BY <1>1, <2>1, EndsFacts, IdleFacts, Constants DEF Lawful, Flying
  <2>3. Idle.cost + Estimate + unsaid' + billed >= old.cost + unsaid + billed'
    BY <1>1, <2>1, IdleFacts, Constants
  <2>4. Moves(s, Idle, Estimate)
    BY <1>1, <2>1, <2>2, <2>3 DEF Moves
  <2> QED
    BY <2>4
<1> QED
  BY <1>7, <1>8, <1>9, <1>11, <1>12, <1>13, <1>14 DEF SearchGoesOn, ThirdParty

-----------------------------------------------------------------------------
(* Rows keep their dates *)

\* What a step of a search leaves well-shaped.
LEMMA MovesKeep ==
  ASSUME SpendingOK, NEW s \in Searches, NEW k, NEW n, Moves(s, k, n)
  PROVE  SpendingOK'
<1>1. SearchesShaped'
  BY DEF SpendingOK, RowsOK, SearchesShaped, Moves, SearchGoes
<1>2. searched' \in [Caves -> Nat]
  <2>1. n \in Nat /\ search[s].cave \in Caves /\ searched \in [Caves -> Nat]
    BY Constants DEF Moves, SpendingOK, RowsOK, RowsDated, SearchesShaped, SearchShaped
  <2> QED
    BY <2>1 DEF Moves
<1>3. RowsDated'
  BY <1>2 DEF SpendingOK, RowsOK, RowsDated, Moves
<1> QED
  BY <1>1, <1>3 DEF SpendingOK, RowsOK, Moves

\* What a step of a reading makes of its photo's row.
LEMMA ReadingMoves ==
  ASSUME SpendingOK, NEW p \in Photos, ReadingStep(p)
  PROVE  \E row \in PhotoRow :
           /\ photo' = [photo EXCEPT ![p] = row] /\ row.made <= month
           /\ UNCHANGED <<month, pairing, searched, search, billed, unsaid>>
           /\ \/ CheckPhoto(p) /\ row.made = photo[p].made /\ row.cost = photo[p].cost
              \/ row.cost = 0 /\ row.at \notin {"reading", "answered"}
              \/ row.cost = photo[p].cost /\ row.made = photo[p].made /\ row.at \notin {"reading", "answered"}
              \/ photo[p].at \in {"reading", "answered"}
<1> DEFINE old == photo[p]
<1>1. old \in PhotoRow /\ old.made <= month /\ photo \in [Photos -> PhotoRow] /\ month \in Nat /\ 0 \in {0, PhotoCost}
  BY DEF SpendingOK, RowsOK, RowsDated
<1>2. UNCHANGED <<month, pairing, searched, search, billed, unsaid>>
  BY DEF ReadingStep, Upload, CheckPhoto, PhotoAnswered, PhotoRefused, RecordPhoto, FailPhoto
<1>3. CASE Upload(p)
  <2> DEFINE row == [at |-> "waiting", made |-> month, cost |-> 0]
  <2>1. photo' = [photo EXCEPT ![p] = row]
    BY <1>3 DEF Upload
  <2>2. row \in PhotoRow /\ row.made = month /\ row.cost = 0 /\ row.at \notin {"reading", "answered"}
    BY <1>1 DEF PhotoRow
  <2> HIDE DEF row
  <2>3. row.made <= month
    BY <2>2, <1>1
  <2> QED
    BY <1>2, <2>1, <2>2, <2>3
<1>4. ASSUME NEW at \in {"waiting", "reading", "answered", "failed"}, photo' = [photo EXCEPT ![p].at = at],
             CheckPhoto(p) \/ old.at \in {"reading", "answered"}
      PROVE  \E row \in PhotoRow :
               /\ photo' = [photo EXCEPT ![p] = row] /\ row.made <= month
               /\ \/ CheckPhoto(p) /\ row.made = photo[p].made /\ row.cost = photo[p].cost
                  \/ photo[p].at \in {"reading", "answered"}
  <2> DEFINE row == [old EXCEPT !.at = at]
  <2>1. photo' = [photo EXCEPT ![p] = row]
    BY <1>1, <1>4
  <2>2. row \in PhotoRow /\ row.made = old.made /\ row.cost = old.cost
    BY <1>1 DEF PhotoRow
  <2> HIDE DEF row
  <2> QED
    BY <1>1, <1>4, <2>1, <2>2
<1>5. CASE CheckPhoto(p)
  BY <1>2, <1>4, <1>5 DEF CheckPhoto
<1>6. CASE PhotoAnswered(p) \/ PhotoRefused(p) \/ FailPhoto(p)
  BY <1>2, <1>4, <1>6 DEF PhotoAnswered, PhotoRefused, FailPhoto
<1>7. CASE RecordPhoto(p)
  <2> DEFINE row == [old EXCEPT !.at = "done", !.cost = PhotoCost]
  <2>1. photo' = [photo EXCEPT ![p] = row] /\ old.at = "answered"
    BY <1>1, <1>7 DEF RecordPhoto
  <2>2. row \in PhotoRow /\ row.made = old.made
    BY <1>1 DEF PhotoRow
  <2> HIDE DEF row
  <2> QED
    BY <1>1, <1>2, <2>1, <2>2
<1> QED
  BY <1>3, <1>5, <1>6, <1>7 DEF ReadingStep

\* What a step of a lot makes of its wine's row.
LEMMA LotMoves ==
  ASSUME SpendingOK, NEW w \in Wines, CheckLot(w) \/ SaveLot(w)
  PROVE  \E row \in PairingRow :
           /\ pairing' = [pairing EXCEPT ![w] = row] /\ row.made <= month
           /\ UNCHANGED <<month, photo, searched, search, billed, unsaid>>
           /\ \/ CheckLot(w) /\ row.made = pairing[w].made /\ row.cost = pairing[w].cost
              \/ pairing[w].at = "asking" /\ row.at = "waiting"
<1> DEFINE old == pairing[w]
<1>1. old \in PairingRow /\ old.made <= month /\ pairing \in [Wines -> PairingRow] /\ month \in Nat
  BY DEF SpendingOK, RowsOK, RowsDated
<1>2. UNCHANGED <<month, photo, searched, search, billed, unsaid>>
  BY DEF CheckLot, SaveLot
<1>3. CASE CheckLot(w)
  <2> DEFINE row == [old EXCEPT !.at = "asking"]
  <2>1. pairing' = [pairing EXCEPT ![w] = row]
    BY <1>1, <1>3 DEF CheckLot
  <2>2. row \in PairingRow /\ row.made = old.made /\ row.cost = old.cost
    BY <1>1 DEF PairingRow
  <2> HIDE DEF row
  <2> QED
    BY <1>1, <1>2, <1>3, <2>1, <2>2
<1>4. CASE SaveLot(w)
  <2>1. PICK cost \in {0, LotCost} : pairing' = [pairing EXCEPT ![w] = [at |-> "waiting", made |-> month, cost |-> cost]]
    BY <1>4 DEF SaveLot
  <2> DEFINE row == [at |-> "waiting", made |-> month, cost |-> cost]
  <2>2. pairing' = [pairing EXCEPT ![w] = row] /\ old.at = "asking"
    BY <1>4, <2>1 DEF SaveLot
  <2>3. row \in PairingRow /\ row.made = month /\ row.at = "waiting"
    BY <1>1 DEF PairingRow
  <2> HIDE DEF row
  <2>4. row.made <= month
    BY <1>1, <2>3
  <2> QED
    BY <1>2, <2>2, <2>3, <2>4
<1> QED
  BY <1>3, <1>4

\* So it is at first.
LEMMA SpendingStarts == SpendingInit => SpendingOK
<1> SUFFICES ASSUME SpendingInit PROVE SpendingOK
  OBVIOUS
<1>1. month = 1 /\ billed = 0 /\ unsaid = 0 /\ searched = [c \in Caves |-> 0] /\ search = [s \in Searches |-> Idle]
  BY DEF SpendingInit
<1>2. photo \in [Photos -> PhotoRow] /\ \A p \in Photos : photo[p].made = 0
  BY DEF SpendingInit, PhotoRow
<1>3. pairing \in [Wines -> PairingRow] /\ \A w \in Wines : pairing[w].made = 0
  BY DEF SpendingInit, PairingRow
<1>4. RowsDated
  BY <1>1, <1>2, <1>3 DEF RowsDated
<1>5. SearchesShaped
  BY <1>1, IdleFacts DEF SearchesShaped
<1> QED
  BY <1>1, <1>4, <1>5 DEF SpendingOK, RowsOK

\* When the api stops, no search is left.
LEMMA StopFacts ==
  ASSUME SpendingOK, ApiStops
  PROVE  /\ SpendingOK' /\ UNCHANGED <<month, photo, pairing, searched, billed>>
         /\ search' = [s \in Searches |-> Idle] /\ unsaid' = unsaid + CostsOf(search, Searches)
<1> DEFINE f == [s \in Searches |-> search[s].cost]
<1>1. \A s \in Searches : f[s] = search[s].cost /\ f[s] \in Nat
  BY Constants DEF SpendingOK, RowsOK, SearchesShaped, SearchShaped
<1> HIDE DEF f
<1>2. CostsOf(search, Searches) = SumOf(f, Searches) /\ SumOf(f, Searches) \in Nat
  BY <1>1, Constants, CostsAreSums, SumNat
<1>3. unsaid' = unsaid + CostsOf(search, Searches)
  BY DEF ApiStops, CostsOf
<1>4. search' = [s \in Searches |-> Idle] /\ UNCHANGED <<month, photo, pairing, searched, billed>>
  BY DEF ApiStops
<1>5. unsaid' \in Nat
  BY <1>2, <1>3 DEF SpendingOK
<1>6. SearchesShaped'
  BY <1>4, IdleFacts DEF SearchesShaped
<1>7. RowsDated'
  BY <1>4 DEF SpendingOK, RowsOK, RowsDated
<1> QED
  BY <1>3, <1>4, <1>5, <1>6, <1>7 DEF SpendingOK, RowsOK

\* Every step keeps the shape of rows and searches.
LEMMA SpendingKeeps == SpendingOK /\ [SpendingNext]_spendVars => SpendingOK'
<1> SUFFICES ASSUME SpendingOK, [SpendingNext]_spendVars PROVE SpendingOK'
  OBVIOUS
<1>1. ASSUME NEW p \in Photos, ReadingStep(p) PROVE SpendingOK'
  <2>1. PICK row \in PhotoRow : /\ photo' = [photo EXCEPT ![p] = row] /\ row.made <= month
                               /\ UNCHANGED <<month, pairing, searched, search, billed, unsaid>>
    BY <1>1, ReadingMoves
  <2>2. RowsDated'
    BY <2>1 DEF SpendingOK, RowsOK, RowsDated
  <2> QED
    BY <2>1, <2>2 DEF SpendingOK, RowsOK, SearchesShaped
<1>2. ASSUME NEW w \in Wines, CheckLot(w) \/ SaveLot(w) PROVE SpendingOK'
  <2>1. PICK row \in PairingRow : /\ pairing' = [pairing EXCEPT ![w] = row] /\ row.made <= month
                                 /\ UNCHANGED <<month, photo, searched, search, billed, unsaid>>
    BY <1>2, LotMoves
  <2>2. RowsDated'
    BY <2>1 DEF SpendingOK, RowsOK, RowsDated
  <2> QED
    BY <2>1, <2>2 DEF SpendingOK, RowsOK, SearchesShaped
<1>3. ASSUME NEW s \in Searches, SearchGoesOn(s) \/ ThirdParty(s) \/ StartSearch(s) PROVE SpendingOK'
  BY <1>3, SearchMoves, MovesKeep
<1>4. CASE NextMonth
  <2>1. /\ month' = month + 1 /\ searched' = [c \in Caves |-> 0] /\ billed' = 0 /\ unsaid' = 0
        /\ UNCHANGED <<photo, pairing, search>>
    BY <1>4 DEF NextMonth
  <2>2. RowsDated'
    <3>1. \A p \in Photos : photo[p].made \in Nat
      BY DEF SpendingOK, RowsOK, RowsDated, PhotoRow
    <3>2. \A w \in Wines : pairing[w].made \in Nat
      BY DEF SpendingOK, RowsOK, RowsDated, PairingRow
    <3> QED
      BY <2>1, <3>1, <3>2 DEF SpendingOK, RowsOK, RowsDated
  <2> QED
    BY <2>1, <2>2 DEF SpendingOK, RowsOK, SearchesShaped
<1>5. CASE ApiStops
  BY <1>5, StopFacts
<1>6. CASE PauseEnds \/ UNCHANGED spendVars
  <2>1. UNCHANGED <<month, photo, pairing, searched, search, billed, unsaid>>
    BY <1>6 DEF PauseEnds, spendVars
  <2> QED
    BY <2>1 DEF SpendingOK, RowsOK, RowsDated, SearchesShaped
<1> QED
  BY <1>1, <1>2, <1>3, <1>4, <1>5, <1>6 DEF SpendingNext, SpendingStep

-----------------------------------------------------------------------------
(* What searches cost is written *)

\* The two sums of the property, now and after a step.
LEMMA TallyIs ==
  /\ Searched(Caves) = SumOf(searched, Caves)
  /\ SearchesCounted <=> SumOf(searched, Caves) + CostsOf(search, Searches) + unsaid >= billed
<1>1. Searched(Caves) = SumOf(searched, Caves)
  BY DEF Searched, SumOf
<1>2. SearchesCounted <=> Searched(Caves) + CostsOf(search, Searches) + unsaid >= billed
  BY DEF SearchesCounted, CostsOf
<1> QED
  BY <1>1, <1>2

\* The same after a step.
LEMMA TallyThen ==
  SearchesCounted' <=> SumOf(searched', Caves) + CostsOf(search', Searches) + unsaid' >= billed'
<1>1. (SearchesCounted <=> SumOf(searched, Caves) + CostsOf(search, Searches) + unsaid >= billed)'
  BY TallyIs, PTL
<1> QED
  BY <1>1

\* The sums of the rows of searches and of what is still to be written.
LEMMA Tally ==
  ASSUME SpendingOK
  PROVE  /\ Searched(Caves) = SumOf(searched, Caves) /\ SumOf(searched, Caves) \in Nat
         /\ CostsOf(search, Searches) \in Nat
         /\ SearchesCounted <=> SumOf(searched, Caves) + CostsOf(search, Searches) + unsaid >= billed
<1>3. SumOf(searched, Caves) \in Nat
  BY Constants, SumNat DEF SpendingOK, RowsOK, RowsDated
<1> DEFINE f == [s \in Searches |-> search[s].cost]
<1>4. \A s \in Searches : f[s] = search[s].cost /\ f[s] \in Nat
  BY Constants DEF SpendingOK, RowsOK, SearchesShaped, SearchShaped
<1> HIDE DEF f
<1>5. CostsOf(search, Searches) = SumOf(f, Searches) /\ SumOf(f, Searches) \in Nat
  BY <1>4, Constants, CostsAreSums, SumNat
<1> QED
  BY <1>3, <1>5, TallyIs

\* A search's step changes two terms.
LEMMA TallyMoves ==
  ASSUME SpendingOK, SpendingOK', NEW s \in Searches, NEW k, NEW n, Moves(s, k, n)
  PROVE  /\ SumOf(searched', Caves) = SumOf(searched, Caves) + n
         /\ CostsOf(search', Searches) = CostsOf(search, Searches) + (k.cost - search[s].cost)
<1>1. /\ n \in Nat /\ search[s].cave \in Caves /\ \A c \in Caves : searched[c] \in Nat /\ searched'[c] \in Nat
      /\ searched'[search[s].cave] = searched[search[s].cave] + n
      /\ \A c \in Caves \ {search[s].cave} : searched'[c] = searched[c]
  BY Constants DEF SpendingOK, RowsOK, RowsDated, SearchesShaped, SearchShaped, Moves
<1>2. SumOf(searched', Caves) = SumOf(searched, Caves) + (searched'[search[s].cave] - searched[search[s].cave])
  BY <1>1, Constants, SumChange
<1>3. SumOf(searched', Caves) = SumOf(searched, Caves) + n
  BY <1>1, <1>2
<1> DEFINE f == [r \in Searches |-> search[r].cost]
           g == [r \in Searches |-> search'[r].cost]
<1>4. \A r \in Searches : f[r] = search[r].cost /\ f[r] \in Int /\ g[r] = search'[r].cost /\ g[r] \in Int
  BY Constants DEF SpendingOK, RowsOK, SearchesShaped, SearchShaped
<1>5. search'[s] = k /\ \A r \in Searches \ {s} : search'[r] = search[r]
  BY DEF Moves, SearchGoes
<1> HIDE DEF f, g
<1>6. CostsOf(search, Searches) = SumOf(f, Searches) /\ CostsOf(search', Searches) = SumOf(g, Searches)
  BY <1>4, Constants, CostsAreSums
<1>7. SumOf(g, Searches) = SumOf(f, Searches) + (g[s] - f[s])
  <2>1. \A r \in Searches \ {s} : f[r] = g[r]
    BY <1>4, <1>5
  <2> QED
    BY <1>4, <2>1, Constants, SumChange
<1> QED
  BY <1>3, <1>4, <1>5, <1>6, <1>7

\* Every step keeps what was billed within what is written, to be written or lost.
LEMMA TallyStep ==
  ASSUME SpendingOK, SpendingOK', SearchesCounted, [SpendingNext]_spendVars
  PROVE  SearchesCounted'
<1> DEFINE a == SumOf(searched, Caves)
           b == CostsOf(search, Searches)
<1>1. a \in Nat /\ b \in Nat /\ a + b + unsaid >= billed /\ unsaid \in Nat /\ billed \in Nat
  BY Tally DEF SpendingOK
<1>2. SearchesCounted' <=> SumOf(searched', Caves) + CostsOf(search', Searches) + unsaid' >= billed'
  BY TallyThen
<1>3. CASE UNCHANGED <<searched, search, billed, unsaid>>
  BY <1>1, <1>2, <1>3
<1>4. ASSUME NEW s \in Searches, SearchGoesOn(s) \/ ThirdParty(s) \/ StartSearch(s) PROVE SearchesCounted'
  <2>1. PICK k, n : Moves(s, k, n)
    BY <1>4, SearchMoves
  <2>2. SumOf(searched', Caves) = a + n /\ CostsOf(search', Searches) = b + (k.cost - search[s].cost)
    BY <2>1, TallyMoves
  <2>3. /\ n \in Nat /\ k.cost \in Nat /\ search[s].cost \in Nat /\ billed' \in Nat /\ unsaid' \in Nat
        /\ k.cost + n + unsaid' + billed >= search[s].cost + unsaid + billed'
    BY <2>1, Constants DEF Moves, SearchShaped, SpendingOK, RowsOK, SearchesShaped
  <2> HIDE DEF a, b
  <2> QED
    BY <1>1, <1>2, <2>2, <2>3
<1>5. CASE NextMonth
  <2>1. billed' = 0 /\ SumOf(searched', Caves) \in Nat /\ CostsOf(search', Searches) \in Nat /\ unsaid' \in Nat
    <3>1. \A c \in Caves : searched'[c] \in Nat
      BY DEF SpendingOK, RowsOK, RowsDated
    <3>2. SumOf(searched', Caves) \in Nat
      BY <3>1, Constants, SumNat
    <3>3. search' = search /\ billed' = 0 /\ unsaid' = 0
      BY <1>5 DEF NextMonth
    <3> QED
      BY <3>2, <3>3, <1>1
  <2> QED
    BY <1>2, <2>1
<1>6. CASE ApiStops
  <2>1. /\ searched' = searched /\ billed' = billed /\ unsaid' = unsaid + b /\ search' = [s \in Searches |-> Idle]
    BY <1>6, StopFacts
  <2> DEFINE g == [s \in Searches |-> search'[s].cost]
  <2>2. \A s \in Searches : g[s] = search'[s].cost /\ g[s] \in Nat
    BY <2>1, IdleFacts
  <2> HIDE DEF g
  <2>3. CostsOf(search', Searches) = SumOf(g, Searches) /\ SumOf(g, Searches) \in Nat
    BY <2>2, Constants, CostsAreSums, SumNat
  <2> HIDE DEF a, b
  <2>4. CostsOf(search', Searches) \in Nat
    BY <2>3
  <2>5. SumOf(searched', Caves) = a
    BY <2>1 DEF a
  <2> QED
    BY <1>1, <1>2, <2>1, <2>4, <2>5
<1>7. CASE \/ \E p \in Photos : ReadingStep(p)
           \/ \E w \in Wines : CheckLot(w) \/ SaveLot(w)
           \/ PauseEnds
           \/ UNCHANGED spendVars
  <2>1. ASSUME NEW p \in Photos, ReadingStep(p) PROVE UNCHANGED <<searched, search, billed, unsaid>>
    BY <2>1 DEF ReadingStep, Upload, CheckPhoto, PhotoAnswered, PhotoRefused, RecordPhoto, FailPhoto
  <2>2. UNCHANGED <<searched, search, billed, unsaid>>
    BY <1>7, <2>1 DEF CheckLot, SaveLot, PauseEnds, spendVars
  <2> QED
    BY <1>3, <2>2
<1> QED
  BY <1>4, <1>5, <1>6, <1>7 DEF SpendingNext, SpendingStep

\* What Gemini billed for searches this month is in the table, but for the answers still to
\* be written and for what nobody is left to write, however many searches run and however
\* often the api stops (image-search.service.ts:248-258).
THEOREM SearchesAreCounted == SpendingSpec => []SearchesCounted
<1>1. SpendingInit => SpendingOK /\ SearchesCounted
  <2> SUFFICES ASSUME SpendingInit PROVE SpendingOK /\ SearchesCounted
    OBVIOUS
  <2>1. SpendingOK /\ billed = 0 /\ unsaid = 0
    BY SpendingStarts DEF SpendingInit
  <2> QED
    BY <2>1, Tally
<1>2. (SpendingOK /\ SearchesCounted) /\ [SpendingNext]_spendVars => (SpendingOK /\ SearchesCounted)'
  BY SpendingKeeps, TallyStep
<1> QED
  BY <1>1, <1>2, PTL DEF SpendingSpec

-----------------------------------------------------------------------------
(* What a limit counts, and what the calls under way may add to it *)

\* The cents of a row that the limits count, and those they may count once the call
\* under way has ended.
PhotoHas(p) == IF photo[p].made = month THEN photo[p].cost ELSE 0
PhotoMay(p) == IF photo[p].at \in {"reading", "answered"} THEN PhotoCost ELSE PhotoHas(p)

LotHas(w) == IF pairing[w].made = month THEN pairing[w].cost ELSE 0
LotMay(w) == IF pairing[w].at = "asking" THEN LotCost ELSE LotHas(w)

SearchMay(s, C, steps) == IF search[s].at \in steps /\ search[s].cave \in C THEN SearchMost ELSE 0

PhotosHave(P) == [p \in P |-> PhotoHas(p)]
PhotosMay(P) == [p \in P |-> PhotoMay(p)]
LotsHave(L) == [w \in L |-> LotHas(w)]
LotsMay(L) == [w \in L |-> LotMay(w)]
SearchesMay(C, steps) == [s \in Searches |-> SearchMay(s, C, steps)]

\* A limit counts the photos of P, the pairings of L and the searches of the cellars of C;
\* a search has met it when it is at one of these steps.
Has(P, L, C) == SumOf(PhotosHave(P), P) + SumOf(LotsHave(L), L) + SumOf(searched, C)

May(P, L, C, steps) ==
  SumOf(PhotosMay(P), P) + SumOf(LotsMay(L), L) + (SumOf(searched, C) + SumOf(SearchesMay(C, steps), Searches))

\* A call for each photo, wine and search.
Room(P, L) == PhotoCost * Cardinality(P) + LotCost * Cardinality(L) + SearchMost * Cardinality(Searches)

Fits(P, L, C, steps, limit) == May(P, L, C, steps) < limit + Room(P, L)

\* The numbers these are.
LEMMA TermsTyped ==
  ASSUME SpendingOK, NEW C, NEW steps
  PROVE  /\ \A p \in Photos : /\ PhotoHas(p) \in Nat /\ PhotoMay(p) \in Nat
                              /\ PhotoHas(p) <= PhotoMay(p) /\ PhotoMay(p) <= PhotoHas(p) + PhotoCost
                              /\ PhotoMay(p) <= PhotoCost
         /\ \A w \in Wines : /\ LotHas(w) \in Nat /\ LotMay(w) \in Nat
                             /\ LotHas(w) <= LotMay(w) /\ LotMay(w) <= LotHas(w) + LotCost
                             /\ LotMay(w) <= LotCost
         /\ \A s \in Searches : SearchMay(s, C, steps) \in Nat /\ SearchMay(s, C, steps) <= SearchMost
         /\ \A c \in Caves : searched[c] \in Nat
<1>1. PhotoCost \in Nat /\ LotCost \in Nat /\ SearchMost \in Nat
  BY Constants
<1>2. ASSUME NEW p \in Photos
      PROVE  /\ PhotoHas(p) \in Nat /\ PhotoMay(p) \in Nat /\ PhotoHas(p) <= PhotoMay(p)
             /\ PhotoMay(p) <= PhotoHas(p) + PhotoCost /\ PhotoMay(p) <= PhotoCost
  <2>1. photo[p].cost \in {0, PhotoCost}
    BY DEF SpendingOK, RowsOK, RowsDated, PhotoRow
  <2> QED
    BY <1>1, <2>1 DEF PhotoHas, PhotoMay
<1>3. ASSUME NEW w \in Wines
      PROVE  /\ LotHas(w) \in Nat /\ LotMay(w) \in Nat /\ LotHas(w) <= LotMay(w)
             /\ LotMay(w) <= LotHas(w) + LotCost /\ LotMay(w) <= LotCost
  <2>1. pairing[w].cost \in {0, LotCost}
    BY DEF SpendingOK, RowsOK, RowsDated, PairingRow
  <2> QED
    BY <1>1, <2>1 DEF LotHas, LotMay
<1>4. \A s \in Searches : SearchMay(s, C, steps) \in Nat /\ SearchMay(s, C, steps) <= SearchMost
  BY <1>1 DEF SearchMay
<1>5. \A c \in Caves : searched[c] \in Nat
  BY DEF SpendingOK, RowsOK, RowsDated
<1> QED
  BY <1>2, <1>3, <1>4, <1>5

\* The functions summed, and what they sum to.
Summed(P, L, C, steps) ==
  /\ \A p \in P : PhotosHave(P)[p] = PhotoHas(p) /\ PhotosMay(P)[p] = PhotoMay(p)
  /\ \A w \in L : LotsHave(L)[w] = LotHas(w) /\ LotsMay(L)[w] = LotMay(w)
  /\ \A s \in Searches : SearchesMay(C, steps)[s] = SearchMay(s, C, steps)
  /\ \A p \in P : PhotosHave(P)[p] \in Nat /\ PhotosMay(P)[p] \in Nat
  /\ \A w \in L : LotsHave(L)[w] \in Nat /\ LotsMay(L)[w] \in Nat
  /\ \A s \in Searches : SearchesMay(C, steps)[s] \in Nat
  /\ \A c \in C : searched[c] \in Nat
  /\ SumOf(PhotosHave(P), P) \in Nat /\ SumOf(PhotosMay(P), P) \in Nat
  /\ SumOf(LotsHave(L), L) \in Nat /\ SumOf(LotsMay(L), L) \in Nat
  /\ SumOf(searched, C) \in Nat /\ SumOf(SearchesMay(C, steps), Searches) \in Nat

\* They are functions to the terms, and their sums are numbers.
LEMMA SumsTyped ==
  ASSUME NEW P \in SUBSET Photos, NEW L \in SUBSET Wines, NEW C \in SUBSET Caves, NEW steps
  PROVE  SpendingOK => Summed(P, L, C, steps)
<1> HAVE SpendingOK
<1>1. IsFiniteSet(P) /\ IsFiniteSet(L) /\ IsFiniteSet(C) /\ IsFiniteSet(Searches)
  BY Constants, FS_Subset
<1>2. /\ \A p \in P : PhotosHave(P)[p] = PhotoHas(p) /\ PhotosMay(P)[p] = PhotoMay(p)
      /\ \A w \in L : LotsHave(L)[w] = LotHas(w) /\ LotsMay(L)[w] = LotMay(w)
      /\ \A s \in Searches : SearchesMay(C, steps)[s] = SearchMay(s, C, steps)
  BY DEF PhotosHave, PhotosMay, LotsHave, LotsMay, SearchesMay
<1>3. /\ \A p \in P : PhotosHave(P)[p] \in Nat /\ PhotosMay(P)[p] \in Nat
      /\ \A w \in L : LotsHave(L)[w] \in Nat /\ LotsMay(L)[w] \in Nat
      /\ \A s \in Searches : SearchesMay(C, steps)[s] \in Nat
      /\ \A c \in C : searched[c] \in Nat
  <2>1. (\A p \in P : PhotoHas(p) \in Nat /\ PhotoMay(p) \in Nat) /\ \A c \in C : searched[c] \in Nat
    BY TermsTyped
  <2>2. \A w \in L : LotHas(w) \in Nat /\ LotMay(w) \in Nat
    BY TermsTyped
  <2>3. \A s \in Searches : SearchMay(s, C, steps) \in Nat
    BY TermsTyped
  <2> QED
    BY <1>2, <2>1, <2>2, <2>3
<1>4. /\ SumOf(PhotosHave(P), P) \in Nat /\ SumOf(PhotosMay(P), P) \in Nat
      /\ SumOf(LotsHave(L), L) \in Nat /\ SumOf(LotsMay(L), L) \in Nat
      /\ SumOf(searched, C) \in Nat /\ SumOf(SearchesMay(C, steps), Searches) \in Nat
  BY <1>1, <1>3, SumNat
<1> QED
  BY <1>2, <1>3, <1>4 DEF Summed

\* And so after a step.
LEMMA SumsTypedThen ==
  ASSUME NEW P \in SUBSET Photos, NEW L \in SUBSET Wines, NEW C \in SUBSET Caves, NEW steps
  PROVE  SpendingOK' => Summed(P, L, C, steps)'
<1>1. (SpendingOK => Summed(P, L, C, steps))'
  BY SumsTyped, PTL
<1> QED
  BY <1>1

\* What a limit may count is what it counts, and a call each more at most.
MayBounded(P, L, C, steps) ==
  /\ Has(P, L, C) <= May(P, L, C, steps)
  /\ May(P, L, C, steps) <= Has(P, L, C) + Room(P, L)
  /\ Has(P, L, C) \in Nat /\ May(P, L, C, steps) \in Nat

\* The room is a number.
LEMMA RoomTyped ==
  ASSUME NEW P \in SUBSET Photos, NEW L \in SUBSET Wines
  PROVE  /\ PhotoCost * Cardinality(P) \in Nat /\ LotCost * Cardinality(L) \in Nat
         /\ SearchMost * Cardinality(Searches) \in Nat /\ Room(P, L) \in Nat
<1>1. Cardinality(P) \in Nat /\ Cardinality(L) \in Nat /\ Cardinality(Searches) \in Nat
  BY Constants, FS_Subset, FS_CardinalityType
<1>2. PhotoCost \in Nat /\ LotCost \in Nat /\ SearchMost \in Nat
  BY Constants
<1> DEFINE x == PhotoCost * Cardinality(P)
           y == LotCost * Cardinality(L)
           z == SearchMost * Cardinality(Searches)
<1>3. x \in Nat /\ y \in Nat /\ z \in Nat
  BY <1>1, <1>2
<1>4. Room(P, L) = x + y + z
  BY DEF Room
<1> QED
  BY <1>3, <1>4

\* Each term is raised by its call at most.
LEMMA MayBound ==
  ASSUME NEW P \in SUBSET Photos, NEW L \in SUBSET Wines, NEW C \in SUBSET Caves, NEW steps
  PROVE  SpendingOK => MayBounded(P, L, C, steps)
<1> HAVE SpendingOK
<1> DEFINE a == SumOf(PhotosHave(P), P)
           b == SumOf(LotsHave(L), L)
           d == SumOf(searched, C)
           A == SumOf(PhotosMay(P), P)
           B == SumOf(LotsMay(L), L)
           E == SumOf(SearchesMay(C, steps), Searches)
           x == PhotoCost * Cardinality(P)
           y == LotCost * Cardinality(L)
           z == SearchMost * Cardinality(Searches)
<1>1. IsFiniteSet(P) /\ IsFiniteSet(L) /\ IsFiniteSet(Searches)
  BY Constants, FS_Subset
<1>2. PhotoCost \in Nat /\ LotCost \in Nat /\ SearchMost \in Nat
  BY Constants
<1>3. x \in Nat /\ y \in Nat /\ z \in Nat
  BY RoomTyped
<1>4. Summed(P, L, C, steps)
  BY SumsTyped
<1>5. a \in Nat /\ b \in Nat /\ d \in Nat /\ A \in Nat /\ B \in Nat /\ E \in Nat
  BY <1>4 DEF Summed
<1>6. A <= a + x
  <2>1. \A p \in P : /\ PhotosHave(P)[p] \in Int /\ PhotosMay(P)[p] \in Int
                     /\ PhotosMay(P)[p] <= PhotosHave(P)[p] + PhotoCost
    BY <1>4, TermsTyped DEF Summed
  <2> QED
    BY <1>1, <1>2, <2>1, SumRaised
<1>7. B <= b + y
  <2>1. \A w \in L : /\ LotsHave(L)[w] \in Int /\ LotsMay(L)[w] \in Int
                     /\ LotsMay(L)[w] <= LotsHave(L)[w] + LotCost
    BY <1>4, TermsTyped DEF Summed
  <2> QED
    BY <1>1, <1>2, <2>1, SumRaised
<1>8. E <= z
  <2>1. \A s \in Searches : /\ SearchesMay(C, steps)[s] \in Int
                            /\ SearchesMay(C, steps)[s] <= IF s \in Searches THEN SearchMost ELSE 0
    BY <1>4, TermsTyped DEF Summed
  <2> QED
    BY <1>1, <1>2, <2>1, SumWithin
<1>9. a <= A
  <2>1. \A p \in P : /\ PhotosHave(P)[p] \in Int /\ PhotosMay(P)[p] \in Int
                     /\ PhotosHave(P)[p] <= PhotosMay(P)[p]
    BY <1>4, TermsTyped DEF Summed
  <2> QED
    BY <1>1, <2>1, SumLeq
<1>10. b <= B
  <2>1. \A w \in L : /\ LotsHave(L)[w] \in Int /\ LotsMay(L)[w] \in Int
                     /\ LotsHave(L)[w] <= LotsMay(L)[w]
    BY <1>4, TermsTyped DEF Summed
  <2> QED
    BY <1>1, <2>1, SumLeq
<1>11. Has(P, L, C) = a + b + d /\ May(P, L, C, steps) = A + B + (d + E) /\ Room(P, L) = x + y + z
  BY DEF Has, May, Room
<1> HIDE DEF a, b, d, A, B, E, x, y, z
<1> QED
  BY <1>3, <1>5, <1>6, <1>7, <1>8, <1>9, <1>10, <1>11 DEF MayBounded

\* And so after a step.
LEMMA MayBoundThen ==
  ASSUME NEW P \in SUBSET Photos, NEW L \in SUBSET Wines, NEW C \in SUBSET Caves, NEW steps
  PROVE  SpendingOK' => MayBounded(P, L, C, steps)'
<1>1. (SpendingOK => MayBounded(P, L, C, steps))'
  BY MayBound, PTL
<1> QED
  BY <1>1

-----------------------------------------------------------------------------
(* What a step does to what a limit counts *)

\* What has been spent does not change.
LEMMA HasSame ==
  ASSUME SpendingOK, SpendingOK', NEW P \in SUBSET Photos, NEW L \in SUBSET Wines, NEW C \in SUBSET Caves,
         \A p \in P : PhotoHas(p)' = PhotoHas(p), \A w \in L : LotHas(w)' = LotHas(w),
         \A c \in C : searched'[c] = searched[c]
  PROVE  Has(P, L, C)' = Has(P, L, C)
<1>1. IsFiniteSet(P) /\ IsFiniteSet(L) /\ IsFiniteSet(C)
  BY Constants, FS_Subset
<1>2. Summed(P, L, C, {}) /\ Summed(P, L, C, {})'
  BY SumsTyped, SumsTypedThen
<1>3. SumOf(PhotosHave(P)', P) = SumOf(PhotosHave(P), P)
  <2>1. \A p \in P : PhotosHave(P)'[p] \in Int /\ PhotosHave(P)'[p] = PhotosHave(P)[p]
    BY <1>2 DEF Summed
  <2> QED
    BY <1>1, <2>1, SumSame
<1>4. SumOf(LotsHave(L)', L) = SumOf(LotsHave(L), L)
  <2>1. \A w \in L : LotsHave(L)'[w] \in Int /\ LotsHave(L)'[w] = LotsHave(L)[w]
    BY <1>2 DEF Summed
  <2> QED
    BY <1>1, <2>1, SumSame
<1>5. SumOf(searched', C) = SumOf(searched, C)
  <2>1. \A c \in C : searched'[c] \in Int /\ searched'[c] = searched[c]
    BY <1>2 DEF Summed
  <2> QED
    BY <1>1, <2>1, SumSame
<1> QED
  BY <1>3, <1>4, <1>5 DEF Has

\* What may be spent does not grow.
LEMMA MayLess ==
  ASSUME SpendingOK, SpendingOK', NEW P \in SUBSET Photos, NEW L \in SUBSET Wines, NEW C \in SUBSET Caves, NEW steps,
         \A p \in P : PhotoMay(p)' <= PhotoMay(p), \A w \in L : LotMay(w)' <= LotMay(w),
         SumOf(searched', C) + SumOf(SearchesMay(C, steps)', Searches)
           <= SumOf(searched, C) + SumOf(SearchesMay(C, steps), Searches)
  PROVE  May(P, L, C, steps)' <= May(P, L, C, steps)
<1>1. IsFiniteSet(P) /\ IsFiniteSet(L) /\ IsFiniteSet(C)
  BY Constants, FS_Subset
<1>2. Summed(P, L, C, steps) /\ Summed(P, L, C, steps)'
  BY SumsTyped, SumsTypedThen
<1> DEFINE A == SumOf(PhotosMay(P), P)
           B == SumOf(LotsMay(L), L)
           E == SumOf(searched, C) + SumOf(SearchesMay(C, steps), Searches)
           Ap == SumOf(PhotosMay(P)', P)
           Bp == SumOf(LotsMay(L)', L)
           Ep == SumOf(searched', C) + SumOf(SearchesMay(C, steps)', Searches)
<1>3. Ap <= A
  <2>1. \A p \in P : PhotosMay(P)'[p] \in Int /\ PhotosMay(P)[p] \in Int /\ PhotosMay(P)'[p] <= PhotosMay(P)[p]
    BY <1>2 DEF Summed
  <2> QED
    BY <1>1, <2>1, SumLeq
<1>4. Bp <= B
  <2>1. \A w \in L : LotsMay(L)'[w] \in Int /\ LotsMay(L)[w] \in Int /\ LotsMay(L)'[w] <= LotsMay(L)[w]
    BY <1>2 DEF Summed
  <2> QED
    BY <1>1, <2>1, SumLeq
<1>5. A \in Nat /\ B \in Nat /\ E \in Nat /\ Ap \in Nat /\ Bp \in Nat /\ Ep \in Nat
  BY <1>2 DEF Summed
<1>6. May(P, L, C, steps) = A + B + E /\ May(P, L, C, steps)' = Ap + Bp + Ep /\ Ep <= E
  BY DEF May
<1> HIDE DEF A, B, E, Ap, Bp, Ep
<1> QED
  BY <1>3, <1>4, <1>5, <1>6

\* Searches that stay what they were, or leave the calls under way, cost no more.
LEMMA SearchesLess ==
  ASSUME SpendingOK, SpendingOK', NEW C \in SUBSET Caves, NEW steps,
         \A c \in C : searched'[c] <= searched[c],
         \A s \in Searches : SearchMay(s, C, steps)' <= SearchMay(s, C, steps)
  PROVE  SumOf(searched', C) + SumOf(SearchesMay(C, steps)', Searches)
           <= SumOf(searched, C) + SumOf(SearchesMay(C, steps), Searches)
<1>1. IsFiniteSet(C) /\ IsFiniteSet(Searches)
  BY Constants, FS_Subset
<1>2. Summed({}, {}, C, steps) /\ Summed({}, {}, C, steps)'
  BY SumsTyped, SumsTypedThen
<1>3. SumOf(searched', C) <= SumOf(searched, C)
  <2>1. \A c \in C : searched'[c] \in Int /\ searched[c] \in Int /\ searched'[c] <= searched[c]
    BY <1>2 DEF Summed
  <2> QED
    BY <1>1, <2>1, SumLeq
<1>4. SumOf(SearchesMay(C, steps)', Searches) <= SumOf(SearchesMay(C, steps), Searches)
  <2>1. \A s \in Searches : /\ SearchesMay(C, steps)'[s] \in Int /\ SearchesMay(C, steps)[s] \in Int
                            /\ SearchesMay(C, steps)'[s] <= SearchesMay(C, steps)[s]
    BY <1>2 DEF Summed
  <2> QED
    BY <1>1, <2>1, SumLeq
<1>5. /\ SumOf(searched', C) \in Nat /\ SumOf(searched, C) \in Nat
      /\ SumOf(SearchesMay(C, steps)', Searches) \in Nat /\ SumOf(SearchesMay(C, steps), Searches) \in Nat
  BY <1>2 DEF Summed
<1> QED
  BY <1>3, <1>4, <1>5

\* Whoever enters the calls under way has met the limit.
Guarded(P, L, C, steps, limit) ==
  /\ \A p \in P : UnderShare(Cap) /\ CaveUnderShare(CaveOf[p]) => Has(P, L, C) < limit
  /\ \A w \in L : UnderShare(SharedCap) => Has(P, L, C) < limit
  /\ "share" \in steps => (UnderShare(SharedCap) => Has(P, L, C) < limit)
  /\ "share" \notin steps => \A c \in C : CaveUnderShare(c) => Has(P, L, C) < limit

\* A call that begins within the limit: all those under way still fit.
LEMMA FitsEntering ==
  ASSUME SpendingOK, SpendingOK', NEW P \in SUBSET Photos, NEW L \in SUBSET Wines, NEW C \in SUBSET Caves, NEW steps,
         NEW limit \in Nat, Has(P, L, C) < limit,
         \A p \in P : PhotoHas(p)' = PhotoHas(p), \A w \in L : LotHas(w)' = LotHas(w),
         \A c \in C : searched'[c] = searched[c]
  PROVE  Fits(P, L, C, steps, limit)'
<1>1. Has(P, L, C)' = Has(P, L, C)
  BY HasSame
<1>2. MayBounded(P, L, C, steps) /\ MayBounded(P, L, C, steps)'
  BY MayBound, MayBoundThen
<1>3. Room(P, L)' = Room(P, L) /\ Room(P, L) \in Nat
  BY RoomTyped DEF Room
<1> DEFINE h == Has(P, L, C)
           m == May(P, L, C, steps)'
           r == Room(P, L)
<1>4. h \in Nat /\ m \in Nat /\ m <= h + r /\ r \in Nat /\ h < limit
  BY <1>1, <1>2, <1>3 DEF MayBounded
<1>5. m < limit + r => Fits(P, L, C, steps, limit)'
  BY <1>3 DEF Fits
<1> HIDE DEF h, m, r
<1> QED
  BY <1>4, <1>5

\* A step that raises none of the terms: what fitted still does.
LEMMA FitsLeaving ==
  ASSUME SpendingOK, SpendingOK', NEW P \in SUBSET Photos, NEW L \in SUBSET Wines, NEW C \in SUBSET Caves, NEW steps,
         NEW limit \in Nat, Fits(P, L, C, steps, limit),
         \A p \in P : PhotoMay(p)' <= PhotoMay(p), \A w \in L : LotMay(w)' <= LotMay(w),
         SumOf(searched', C) + SumOf(SearchesMay(C, steps)', Searches)
           <= SumOf(searched, C) + SumOf(SearchesMay(C, steps), Searches)
  PROVE  Fits(P, L, C, steps, limit)'
<1>1. May(P, L, C, steps)' <= May(P, L, C, steps)
  BY MayLess
<1>2. MayBounded(P, L, C, steps) /\ MayBounded(P, L, C, steps)'
  BY MayBound, MayBoundThen
<1>3. Room(P, L)' = Room(P, L) /\ Room(P, L) \in Nat
  BY RoomTyped DEF Room
<1> DEFINE l == May(P, L, C, steps)
           m == May(P, L, C, steps)'
           r == Room(P, L)
<1>4. l \in Nat /\ m \in Nat /\ m <= l /\ r \in Nat /\ l < limit + r
  BY <1>1, <1>2, <1>3 DEF MayBounded, Fits
<1>5. m < limit + r => Fits(P, L, C, steps, limit)'
  BY <1>3 DEF Fits
<1> HIDE DEF l, m, r
<1> QED
  BY <1>4, <1>5

\* Nothing changes for a photo, a lot or a search whose row and month do not.
LEMMA TermsSame ==
  /\ \A p \in Photos : photo'[p] = photo[p] /\ month' = month => PhotoHas(p)' = PhotoHas(p) /\ PhotoMay(p)' = PhotoMay(p)
  /\ \A w \in Wines : pairing'[w] = pairing[w] /\ month' = month => LotHas(w)' = LotHas(w) /\ LotMay(w)' = LotMay(w)
  /\ \A C, steps : \A s \in Searches : search'[s] = search[s] => SearchMay(s, C, steps)' = SearchMay(s, C, steps)
  BY DEF PhotoHas, PhotoMay, LotHas, LotMay, SearchMay

\* What searches may cost is the same when they and their rows are.
LEMMA SearchesSame ==
  ASSUME SpendingOK, SpendingOK', NEW C \in SUBSET Caves, NEW steps, UNCHANGED <<searched, search>>
  PROVE  SumOf(searched', C) + SumOf(SearchesMay(C, steps)', Searches)
           <= SumOf(searched, C) + SumOf(SearchesMay(C, steps), Searches)
<1>1. \A s \in Searches : SearchMay(s, C, steps)' <= SearchMay(s, C, steps)
  BY TermsSame, TermsTyped
<1>2. \A c \in C : searched'[c] <= searched[c]
  BY TermsTyped
<1> QED
  BY <1>1, <1>2, SearchesLess

\* A step of the reading of a photo.
LEMMA ReadingFits ==
  ASSUME SpendingOK, SpendingOK', NEW P \in SUBSET Photos, NEW L \in SUBSET Wines, NEW C \in SUBSET Caves, NEW steps,
         NEW limit \in Nat, Fits(P, L, C, steps, limit), Guarded(P, L, C, steps, limit),
         NEW p \in Photos, ReadingStep(p)
  PROVE  Fits(P, L, C, steps, limit)'
<1> DEFINE flying == {"reading", "answered"}
           old == photo[p]
<1>1. PICK row \in PhotoRow :
        /\ photo' = [photo EXCEPT ![p] = row]
        /\ UNCHANGED <<month, pairing, searched, search>>
        /\ \/ CheckPhoto(p) /\ row.made = old.made /\ row.cost = old.cost
           \/ row.cost = 0 /\ row.at \notin flying
           \/ row.cost = old.cost /\ row.made = old.made /\ row.at \notin flying
           \/ old.at \in flying
  BY ReadingMoves
<1>2. /\ photo'[p] = row /\ \A q \in P \ {p} : photo'[q] = photo[q]
      /\ old.cost \in {0, PhotoCost} /\ row.cost \in {0, PhotoCost} /\ PhotoCost \in Nat
  BY <1>1, Constants DEF SpendingOK, RowsOK, RowsDated, PhotoRow
<1>3. \A q \in P \ {p} : PhotoHas(q)' = PhotoHas(q) /\ PhotoMay(q)' = PhotoMay(q)
  BY <1>1, <1>2, TermsSame
<1>4. \A w \in L : LotHas(w)' = LotHas(w) /\ LotMay(w)' = LotMay(w) /\ LotMay(w) \in Nat
  BY <1>1, TermsSame, TermsTyped
<1>5. SumOf(searched', C) + SumOf(SearchesMay(C, steps)', Searches)
        <= SumOf(searched, C) + SumOf(SearchesMay(C, steps), Searches)
  BY <1>1, SearchesSame
<1>6. CASE p \in P /\ CheckPhoto(p) /\ row.made = old.made /\ row.cost = old.cost
  <2>1. Has(P, L, C) < limit
    BY <1>6 DEF CheckPhoto, Guarded
  <2>2. PhotoHas(p)' = PhotoHas(p)
    BY <1>1, <1>2, <1>6 DEF PhotoHas
  <2> QED
    BY <1>1, <1>3, <1>4, <2>1, <2>2, FitsEntering
<1>7. CASE \/ p \notin P
           \/ row.cost = 0 /\ row.at \notin flying
           \/ row.cost = old.cost /\ row.made = old.made /\ row.at \notin flying
           \/ old.at \in flying
  <2>1. \A q \in P : PhotoMay(q)' <= PhotoMay(q)
    <3>1. ASSUME p \in P PROVE PhotoMay(p)' <= PhotoMay(p)
      BY <1>1, <1>2, <1>7, <3>1 DEF PhotoMay, PhotoHas
    <3>2. \A q \in P : PhotoMay(q) \in Nat
      BY TermsTyped
    <3> QED
      BY <1>3, <3>1, <3>2
  <2>2. \A w \in L : LotMay(w)' <= LotMay(w)
    BY <1>4
  <2> QED
    BY <1>5, <2>1, <2>2, FitsLeaving
<1> QED
  BY <1>1, <1>6, <1>7

\* A step of a lot.
LEMMA LotFits ==
  ASSUME SpendingOK, SpendingOK', NEW P \in SUBSET Photos, NEW L \in SUBSET Wines, NEW C \in SUBSET Caves, NEW steps,
         NEW limit \in Nat, Fits(P, L, C, steps, limit), Guarded(P, L, C, steps, limit),
         NEW w \in Wines, CheckLot(w) \/ SaveLot(w)
  PROVE  Fits(P, L, C, steps, limit)'
<1> DEFINE old == pairing[w]
<1>1. PICK row \in PairingRow :
        /\ pairing' = [pairing EXCEPT ![w] = row]
        /\ UNCHANGED <<month, photo, searched, search>>
        /\ \/ CheckLot(w) /\ row.made = old.made /\ row.cost = old.cost
           \/ old.at = "asking" /\ row.at = "waiting"
  BY LotMoves
<1>2. /\ pairing'[w] = row /\ \A q \in L \ {w} : pairing'[q] = pairing[q]
      /\ old.cost \in {0, LotCost} /\ row.cost \in {0, LotCost} /\ LotCost \in Nat
  BY <1>1, Constants DEF SpendingOK, RowsOK, RowsDated, PairingRow
<1>3. \A q \in L \ {w} : LotHas(q)' = LotHas(q) /\ LotMay(q)' = LotMay(q)
  BY <1>1, <1>2, TermsSame
<1>4. \A p \in P : PhotoHas(p)' = PhotoHas(p) /\ PhotoMay(p)' = PhotoMay(p) /\ PhotoMay(p) \in Nat
  BY <1>1, TermsSame, TermsTyped
<1>5. SumOf(searched', C) + SumOf(SearchesMay(C, steps)', Searches)
        <= SumOf(searched, C) + SumOf(SearchesMay(C, steps), Searches)
  BY <1>1, SearchesSame
<1>6. CASE w \in L /\ CheckLot(w) /\ row.made = old.made /\ row.cost = old.cost
  <2>1. Has(P, L, C) < limit
    BY <1>6 DEF CheckLot, Guarded
  <2>2. LotHas(w)' = LotHas(w)
    BY <1>1, <1>2, <1>6 DEF LotHas
  <2> QED
    BY <1>1, <1>3, <1>4, <2>1, <2>2, FitsEntering
<1>7. CASE w \notin L \/ (old.at = "asking" /\ row.at = "waiting")
  <2>1. \A q \in L : LotMay(q)' <= LotMay(q)
    <3>1. ASSUME w \in L PROVE LotMay(w)' <= LotMay(w)
      BY <1>1, <1>2, <1>7, <3>1 DEF LotMay, LotHas
    <3>2. \A q \in L : LotMay(q) \in Nat
      BY TermsTyped
    <3> QED
      BY <1>3, <3>1, <3>2
  <2>2. \A p \in P : PhotoMay(p)' <= PhotoMay(p)
    BY <1>4
  <2> QED
    BY <1>5, <2>1, <2>2, FitsLeaving
<1> QED
  BY <1>1, <1>6, <1>7

\* The steps at which a search is counted: those of a call under way, and for the
\* share of lots and searches the look at the cellar's own that comes between.
Counted(steps) == steps \in {Flying, Flying \union {"share"}}

\* A search whose row gets n cents, when that and what it may still cost is no more
\* than what it might have cost.
LEMMA SearchSum ==
  ASSUME SpendingOK, SpendingOK', NEW C \in SUBSET Caves, NEW steps,
         NEW s \in Searches, NEW k, NEW n, Moves(s, k, n),
         search[s].cave \in C => SearchMay(s, C, steps)' + n <= SearchMay(s, C, steps),
         search[s].cave \notin C => SearchMay(s, C, steps)' <= SearchMay(s, C, steps)
  PROVE  SumOf(searched', C) + SumOf(SearchesMay(C, steps)', Searches)
           <= SumOf(searched, C) + SumOf(SearchesMay(C, steps), Searches)
<1> DEFINE cave == search[s].cave
           f == SearchesMay(C, steps)
           g == SearchesMay(C, steps)'
<1>1. IsFiniteSet(C) /\ IsFiniteSet(Searches)
  BY Constants, FS_Subset
<1>2. Summed({}, {}, C, steps) /\ Summed({}, {}, C, steps)'
  BY SumsTyped, SumsTypedThen
<1>3. /\ \A r \in Searches : f[r] \in Nat /\ g[r] \in Nat /\ f[r] = SearchMay(r, C, steps) /\ g[r] = SearchMay(r, C, steps)'
      /\ SumOf(f, Searches) \in Nat /\ SumOf(g, Searches) \in Nat
      /\ SumOf(searched, C) \in Nat /\ SumOf(searched', C) \in Nat
      /\ \A c \in C : searched[c] \in Nat /\ searched'[c] \in Nat
  BY <1>2 DEF Summed
<1>4. \A r \in Searches \ {s} : f[r] = g[r]
  <2>1. \A r \in Searches \ {s} : search'[r] = search[r]
    BY DEF Moves, SearchGoes
  <2> QED
    BY <1>3, <2>1, TermsSame
<1> HIDE DEF f, g
<1>5. SumOf(g, Searches) = SumOf(f, Searches) + (g[s] - f[s])
  BY <1>1, <1>3, <1>4, SumChange
<1>6. /\ n \in Nat /\ cave \in Caves /\ searched'[cave] = searched[cave] + n
      /\ \A c \in Caves \ {cave} : searched'[c] = searched[c]
  BY Constants DEF SpendingOK, RowsOK, RowsDated, SearchesShaped, SearchShaped, Moves
<1>7. CASE cave \in C
  <2>1. SumOf(searched', C) = SumOf(searched, C) + (searched'[cave] - searched[cave])
    BY <1>1, <1>3, <1>6, <1>7, SumChange
  <2>2. SumOf(searched', C) = SumOf(searched, C) + n
    BY <1>3, <1>6, <1>7, <2>1
  <2>3. g[s] + n <= f[s]
    BY <1>3, <1>7
  <2> QED
    BY <1>3, <1>5, <1>6, <2>2, <2>3 DEF f, g
<1>8. CASE cave \notin C
  <2>1. \A c \in C : searched'[c] \in Int /\ searched'[c] = searched[c]
    BY <1>3, <1>6, <1>8
  <2>2. SumOf(searched', C) = SumOf(searched, C)
    BY <1>1, <2>1, SumSame
  <2>3. g[s] <= f[s]
    BY <1>3, <1>8
  <2> QED
    BY <1>3, <1>5, <2>2, <2>3 DEF f, g
<1> QED
  BY <1>7, <1>8

\* A step of a search.
LEMMA SearchFits ==
  ASSUME SpendingOK, SpendingOK', NEW P \in SUBSET Photos, NEW L \in SUBSET Wines, NEW C \in SUBSET Caves,
         NEW steps, Counted(steps), NEW limit \in Nat, Fits(P, L, C, steps, limit), Guarded(P, L, C, steps, limit),
         NEW s \in Searches, NEW k, NEW n, Moves(s, k, n)
  PROVE  Fits(P, L, C, steps, limit)'
<1> DEFINE old == search[s]
<1>1. /\ search'[s] = k /\ n \in 0..SearchMost /\ SearchMost \in Nat /\ Lawful(s, k, n)
      /\ UNCHANGED <<month, photo, pairing>>
      /\ searched \in [Caves -> Nat] /\ searched' = [searched EXCEPT ![old.cave] = @ + n]
  BY Constants DEF Moves, SearchGoes, SpendingOK, RowsOK, RowsDated
<1>2. \A p \in P : PhotoHas(p)' = PhotoHas(p) /\ PhotoMay(p)' = PhotoMay(p) /\ PhotoMay(p) \in Nat
  BY <1>1, TermsSame, TermsTyped
<1>3. \A w \in L : LotHas(w)' = LotHas(w) /\ LotMay(w)' = LotMay(w) /\ LotMay(w) \in Nat
  BY <1>1, TermsSame, TermsTyped
<1> DEFINE may == IF old.at \in steps /\ old.cave \in C THEN SearchMost ELSE 0
           then == IF k.at \in steps /\ k.cave \in C THEN SearchMost ELSE 0
<1>4. SearchMay(s, C, steps) = may /\ SearchMay(s, C, steps)' = then
  BY <1>1 DEF SearchMay
<1>5. CASE (old.cave \in C => then + n <= may) /\ (old.cave \notin C => then <= may)
  <2>1. SumOf(searched', C) + SumOf(SearchesMay(C, steps)', Searches)
          <= SumOf(searched, C) + SumOf(SearchesMay(C, steps), Searches)
    <3> HIDE DEF may, then
    <3> QED
      BY <1>4, <1>5, SearchSum
  <2>2. (\A p \in P : PhotoMay(p)' <= PhotoMay(p)) /\ \A w \in L : LotMay(w)' <= LotMay(w)
    BY <1>2, <1>3
  <2> QED
    BY <2>1, <2>2, FitsLeaving
<1>6. ASSUME n = 0, Has(P, L, C) < limit PROVE Fits(P, L, C, steps, limit)'
  <2>1. \A c \in C : searched'[c] = searched[c]
    BY <1>1, <1>6
  <2> QED
    BY <1>2, <1>3, <1>6, <2>1, FitsEntering
<1>7. CASE n = 0 /\ k.at \notin Flying \union {"share"}
  BY <1>1, <1>5, <1>7 DEF Counted
<1>8. CASE n = 0 /\ k.cave = old.cave /\ k.at = old.at
  BY <1>1, <1>5, <1>8
<1>9. CASE n = 0 /\ k.cave = old.cave /\ old.at \in Flying /\ k.at \in Flying
  BY <1>1, <1>5, <1>9 DEF Counted
<1>10. CASE n = 0 /\ k.cave = old.cave /\ old.at = "global" /\ k.at = "share" /\ UnderShare(SharedCap)
  <2>1. CASE "share" \in steps
    BY <1>6, <1>10, <2>1 DEF Guarded
  <2>2. CASE "share" \notin steps
    BY <1>1, <1>5, <1>10, <2>2
  <2> QED
    BY <2>1, <2>2
<1>11. CASE n = 0 /\ k.cave = old.cave /\ old.at = "share" /\ k.at = "call" /\ CaveUnderShare(k.cave)
  <2>1. CASE "share" \in steps \/ old.cave \notin C
    BY <1>1, <1>5, <1>11, <2>1
  <2>2. CASE "share" \notin steps /\ old.cave \in C
    BY <1>6, <1>11, <2>2 DEF Guarded
  <2> QED
    BY <2>1, <2>2
<1>12. CASE old.at \in {"record", "estimate"} /\ k.at \notin Flying \union {"share"}
  BY <1>1, <1>5, <1>12 DEF Counted, Flying
<1> QED
  BY <1>1, <1>7, <1>8, <1>9, <1>10, <1>11, <1>12 DEF Lawful

\* Every step keeps what a limit may count within it and the calls under way.
LEMMA FitsStep ==
  ASSUME SpendingOK, SpendingOK', [SpendingNext]_spendVars,
         NEW P \in SUBSET Photos, NEW L \in SUBSET Wines, NEW C \in SUBSET Caves,
         NEW steps, Counted(steps), NEW limit \in Nat, Fits(P, L, C, steps, limit), Guarded(P, L, C, steps, limit)
  PROVE  Fits(P, L, C, steps, limit)'
<1>1. ASSUME NEW p \in Photos, ReadingStep(p) PROVE Fits(P, L, C, steps, limit)'
  BY <1>1, ReadingFits
<1>2. ASSUME NEW w \in Wines, CheckLot(w) \/ SaveLot(w) PROVE Fits(P, L, C, steps, limit)'
  BY <1>2, LotFits
<1>3. ASSUME NEW s \in Searches, SearchGoesOn(s) \/ ThirdParty(s) \/ StartSearch(s) PROVE Fits(P, L, C, steps, limit)'
  <2>1. PICK k, n : Moves(s, k, n)
    BY <1>3, SearchMoves
  <2> QED
    BY <2>1, SearchFits
<1>4. ASSUME \A p \in P : PhotoMay(p)' <= PhotoMay(p), \A w \in L : LotMay(w)' <= LotMay(w),
             \A s \in Searches : SearchMay(s, C, steps)' <= SearchMay(s, C, steps),
             \A c \in C : searched'[c] <= searched[c]
      PROVE  Fits(P, L, C, steps, limit)'
  BY <1>4, SearchesLess, FitsLeaving
<1>5. /\ \A p \in P : PhotoMay(p) \in Nat /\ photo[p].made \in Nat /\ photo[p].made <= month
      /\ \A w \in L : LotMay(w) \in Nat /\ pairing[w].made \in Nat /\ pairing[w].made <= month
      /\ \A s \in Searches : SearchMay(s, C, steps) \in Nat
      /\ \A c \in C : searched[c] \in Nat
      /\ month \in Nat
  BY TermsTyped DEF SpendingOK, RowsOK, RowsDated, PhotoRow, PairingRow
<1>6. CASE NextMonth
  <2>1. /\ month' = month + 1 /\ searched' = [c \in Caves |-> 0] /\ UNCHANGED <<photo, pairing, search>>
    BY <1>6 DEF NextMonth
  <2>2. \A p \in P : PhotoMay(p)' <= PhotoMay(p)
    BY <1>5, <2>1 DEF PhotoMay, PhotoHas
  <2>3. \A w \in L : LotMay(w)' <= LotMay(w)
    BY <1>5, <2>1 DEF LotMay, LotHas
  <2>4. \A s \in Searches : SearchMay(s, C, steps)' <= SearchMay(s, C, steps)
    BY <1>5, <2>1, TermsSame
  <2>5. \A c \in C : searched'[c] <= searched[c]
    BY <1>5, <2>1
  <2> QED
    BY <1>4, <2>2, <2>3, <2>4, <2>5
<1>7. CASE ApiStops
  <2>1. /\ UNCHANGED <<month, photo, pairing, searched>> /\ search' = [s \in Searches |-> Idle]
    BY <1>7, StopFacts
  <2>2. \A s \in Searches : SearchMay(s, C, steps)' <= SearchMay(s, C, steps)
    BY <1>5, <2>1, IdleFacts DEF SearchMay, Counted, Flying
  <2>3. (\A p \in P : PhotoMay(p)' <= PhotoMay(p)) /\ \A w \in L : LotMay(w)' <= LotMay(w)
    BY <1>5, <2>1, TermsSame
  <2> QED
    BY <1>4, <1>5, <2>1, <2>2, <2>3
<1>8. CASE PauseEnds \/ UNCHANGED spendVars
  <2>1. UNCHANGED <<month, photo, pairing, searched, search>>
    BY <1>8 DEF PauseEnds, spendVars
  <2>2. /\ \A p \in P : PhotoMay(p)' <= PhotoMay(p)
        /\ \A w \in L : LotMay(w)' <= LotMay(w)
        /\ \A s \in Searches : SearchMay(s, C, steps)' <= SearchMay(s, C, steps)
    BY <1>5, <2>1, TermsSame
  <2> QED
    BY <1>4, <1>5, <2>1, <2>2
<1> QED
  BY <1>1, <1>2, <1>3, <1>6, <1>7, <1>8 DEF SpendingNext, SpendingStep

-----------------------------------------------------------------------------
(* The four limits *)

\* The photos of some cellars, and the cellars that were invited.
PhotosOf(C) == {p \in Photos : CaveOf[p] \in C}
Invited == Caves \ {Main}

\* What a cellar's limit, or that of all of them, compares is what it counts here.
LEMMA SpentIs ==
  ASSUME SpendingOK, NEW C \in SUBSET Caves
  PROVE  /\ PhotosOf(C) \in SUBSET Photos
         /\ SpentOn(C) = Has(PhotosOf(C), {}, C)
         /\ SpentOn(C) \in Nat /\ Spent(C) \in Nat /\ SpentOn(C) <= Spent(C)
<1> DEFINE P == PhotosOf(C)
           made == PhotosMade(C)
           lots == PairingsMade(C)
           f == [p \in made |-> photo[p].cost]
           g == [w \in lots |-> pairing[w].cost]
<1>1. made \subseteq P /\ P \subseteq Photos /\ lots \subseteq Wines
  BY DEF PhotosMade, PairingsMade, PhotosOf
<1>2. IsFiniteSet(P) /\ IsFiniteSet(C) /\ IsFiniteSet(lots) /\ IsFiniteSet(made)
  BY <1>1, Constants, FS_Subset
<1>3. P \in SUBSET Photos /\ {} \in SUBSET Wines
  BY <1>1
<1>4. Summed(P, {}, C, {})
  <2> HIDE DEF P
  <2> QED
    BY <1>3, SumsTyped
<1>5. SumOf(PhotosHave(P), P) = SumOf(f, made)
  <2>1. \A p \in P : PhotosHave(P)[p] \in Int /\ PhotosHave(P)[p] = PhotoHas(p)
    BY <1>4 DEF Summed
  <2>2. \A p \in made : f[p] = PhotosHave(P)[p]
    BY <1>1, <2>1 DEF PhotosMade, PhotoHas
  <2>3. \A p \in P \ made : PhotosHave(P)[p] = 0
    BY <2>1 DEF PhotosMade, PhotoHas, PhotosOf
  <2> HIDE DEF f, made, P
  <2> QED
    BY <1>1, <1>2, <2>1, <2>2, <2>3, SumRestrict
<1>6. Total(photo, made) = SumOf(f, made)
  <2>1. \A p \in made : f[p] = photo[p].cost
    OBVIOUS
  <2> HIDE DEF f
  <2>2. CostsOf(photo, made) = SumOf(f, made)
    <3> HIDE DEF made
    <3> QED
      BY <1>2, <2>1, CostsAreSums
  <2> QED
    BY <2>2 DEF Total, CostsOf
<1>7. Total(pairing, lots) \in Nat
  <2>1. \A w \in lots : g[w] = pairing[w].cost /\ g[w] \in Nat
    BY <1>1, Constants DEF SpendingOK, RowsOK, RowsDated, PairingRow
  <2> HIDE DEF g, lots
  <2>2. CostsOf(pairing, lots) = SumOf(g, lots)
    BY <1>2, <2>1, CostsAreSums
  <2>3. SumOf(g, lots) \in Nat
    BY <1>2, <2>1, SumNat
  <2> QED
    BY <2>2, <2>3 DEF Total, CostsOf
<1>8. Searched(C) = SumOf(searched, C)
  BY DEF Searched, SumOf
<1>9. SumOf(LotsHave({}), {}) = 0
  BY SumEmpty
<1>10. SumOf(PhotosHave(P), P) \in Nat /\ SumOf(searched, C) \in Nat
  BY <1>4 DEF Summed
<1>11. /\ SpentOn(C) = Total(photo, made) + Searched(C) /\ Spent(C) = SpentOn(C) + Total(pairing, lots)
       /\ Has(P, {}, C) = SumOf(PhotosHave(P), P) + SumOf(LotsHave({}), {}) + SumOf(searched, C)
  BY DEF SpentOn, Spent, Has
<1> HIDE DEF f, made, lots, P
<1> QED
  BY <1>3, <1>5, <1>6, <1>7, <1>8, <1>9, <1>10, <1>11 DEF P

\* What is spent in all, and what lots and searches spent of it.
LEMMA AllSpent ==
  ASSUME SpendingOK
  PROVE  /\ Spent(Caves) = Has(Photos, Wines, Caves)
         /\ SpentOn(Caves) + Total(pairing, PairingsMade(Caves)) = Has(Photos, Wines, Caves)
         /\ Total(pairing, PairingsMade(Caves)) + Searched(Caves) = Has({}, Wines, Caves)
         /\ Has({}, Wines, Caves) \in Nat /\ Has(Photos, Wines, Caves) \in Nat
         /\ Has({}, Wines, Caves) <= Has(Photos, Wines, Caves)
<1> DEFINE made == PairingsMade(Caves)
           g == [w \in made |-> pairing[w].cost]
           a == SumOf(PhotosHave(Photos), Photos)
           b == SumOf(LotsHave(Wines), Wines)
           d == SumOf(searched, Caves)
<1>1. IsFiniteSet(Wines) /\ made \subseteq Wines /\ IsFiniteSet(made) /\ \A w \in Wines : CaveOf[w] \in Caves
  <2>1. made \subseteq Wines
    BY DEF PairingsMade
  <2> QED
    BY <2>1, Constants, FS_Subset, SpendingAssumption
<1>2. Summed(Photos, Wines, Caves, {})
  BY SumsTyped
<1>3. a \in Nat /\ b \in Nat /\ d \in Nat
  BY <1>2 DEF Summed
<1>4. Total(pairing, made) = b
  <2>1. \A w \in Wines : LotsHave(Wines)[w] \in Int /\ LotsHave(Wines)[w] = LotHas(w)
    BY <1>2 DEF Summed
  <2>2. \A w \in made : g[w] = LotsHave(Wines)[w] /\ g[w] = pairing[w].cost
    BY <1>1, <2>1 DEF PairingsMade, LotHas
  <2>3. \A w \in Wines \ made : LotsHave(Wines)[w] = 0
    BY <1>1, <2>1 DEF PairingsMade, LotHas
  <2> HIDE DEF g, made
  <2>4. b = SumOf(g, made)
    BY <1>1, <2>1, <2>2, <2>3, SumRestrict
  <2>5. CostsOf(pairing, made) = SumOf(g, made)
    BY <1>1, <2>2, CostsAreSums
  <2> QED
    BY <2>4, <2>5 DEF Total, CostsOf
<1>5. SpentOn(Caves) = a + d
  <2>1. PhotosOf(Caves) = Photos
    BY SpendingAssumption DEF PhotosOf
  <2>2. SpentOn(Caves) = a + SumOf(LotsHave({}), {}) + d
    BY <2>1, SpentIs DEF Has
  <2> QED
    BY <1>3, <2>2, SumEmpty
<1>6. SumOf(PhotosHave({}), {}) = 0
  BY SumEmpty
<1>7. Searched(Caves) = d
  BY TallyIs
<1>8. /\ Has(Photos, Wines, Caves) = a + b + d /\ Has({}, Wines, Caves) = SumOf(PhotosHave({}), {}) + b + d
      /\ Spent(Caves) = SpentOn(Caves) + Total(pairing, made)
  BY DEF Has, Spent
<1> HIDE DEF a, b, d
<1> QED
  BY <1>3, <1>4, <1>5, <1>6, <1>7, <1>8

\* What each limit may count fits within it and the calls under way.
CapsInv ==
  /\ Fits(Photos, Wines, Caves, Flying \union {"share"}, Cap)
  /\ Fits({}, Wines, Caves, Flying \union {"share"}, SharedCap)
  /\ \A c \in Invited : Fits(PhotosOf({c}), {}, {c}, Flying, CaveCap)
  /\ Fits(PhotosOf(Invited), {}, Invited, Flying, InvitedCap)

\* A call that begins has met every limit that counts it.
LEMMA CapsGuarded ==
  ASSUME SpendingOK
  PROVE  /\ Guarded(Photos, Wines, Caves, Flying \union {"share"}, Cap)
         /\ Guarded({}, Wines, Caves, Flying \union {"share"}, SharedCap)
         /\ \A c \in Invited : Guarded(PhotosOf({c}), {}, {c}, Flying, CaveCap)
         /\ Guarded(PhotosOf(Invited), {}, Invited, Flying, InvitedCap)
<1>1. /\ {Cap, SharedCap, CaveCap, InvitedCap} \subseteq Nat /\ SharedCap <= Cap /\ "share" \notin Flying
  BY SpendingAssumption DEF Flying
<1>2. UnderShare(Cap) => Has(Photos, Wines, Caves) < Cap
  BY AllSpent DEF UnderShare
<1>3. UnderShare(SharedCap) => Has(Photos, Wines, Caves) < Cap /\ Has({}, Wines, Caves) < SharedCap
  BY <1>1, AllSpent DEF UnderShare
<1>4. ASSUME NEW c \in Invited, CaveUnderShare(c)
      PROVE  Has(PhotosOf({c}), {}, {c}) < CaveCap /\ Has(PhotosOf(Invited), {}, Invited) < InvitedCap
  <2>1. Spent({c}) < CaveCap /\ Spent(Invited) < InvitedCap
    BY <1>4 DEF CaveUnderShare, Invited
  <2>2. {c} \in SUBSET Caves /\ Invited \in SUBSET Caves
    BY DEF Invited
  <2>3. /\ SpentOn({c}) = Has(PhotosOf({c}), {}, {c}) /\ SpentOn({c}) \in Nat /\ Spent({c}) \in Nat /\ SpentOn({c}) <= Spent({c})
    BY <2>2, SpentIs
  <2>4. /\ SpentOn(Invited) = Has(PhotosOf(Invited), {}, Invited) /\ SpentOn(Invited) \in Nat /\ Spent(Invited) \in Nat
        /\ SpentOn(Invited) <= Spent(Invited)
    BY <2>2, SpentIs
  <2> QED
    BY <1>1, <2>1, <2>3, <2>4
<1>5. Guarded(Photos, Wines, Caves, Flying \union {"share"}, Cap)
  BY <1>2, <1>3 DEF Guarded
<1>6. Guarded({}, Wines, Caves, Flying \union {"share"}, SharedCap)
  BY <1>3 DEF Guarded
<1>7. ASSUME NEW c \in Invited PROVE Guarded(PhotosOf({c}), {}, {c}, Flying, CaveCap)
  BY <1>1, <1>4 DEF Guarded, PhotosOf
<1>8. Guarded(PhotosOf(Invited), {}, Invited, Flying, InvitedCap)
  BY <1>1, <1>4 DEF Guarded, PhotosOf
<1> QED
  BY <1>5, <1>6, <1>7, <1>8

\* Nothing is spent, and nothing under way, when the month begins.
LEMMA FitsFirst ==
  ASSUME SpendingInit, NEW P \in SUBSET Photos, NEW L \in SUBSET Wines, NEW C \in SUBSET Caves,
         NEW steps, Counted(steps), NEW limit \in Nat
  PROVE  Fits(P, L, C, steps, limit)
<1>1. SpendingOK
  BY SpendingStarts
<1>2. /\ \A p \in P : photo[p].at = "absent" /\ photo[p].cost = 0
      /\ \A w \in L : pairing[w].at = "waiting" /\ pairing[w].cost = 0
      /\ \A s \in Searches : search[s] = Idle
      /\ \A c \in C : searched[c] = 0
  BY DEF SpendingInit
<1>3. Summed(P, L, C, steps)
  BY <1>1, SumsTyped
<1>4. IsFiniteSet(P) /\ IsFiniteSet(L) /\ IsFiniteSet(C) /\ IsFiniteSet(Searches)
  BY Constants, FS_Subset
<1>5. ASSUME NEW f, NEW S, IsFiniteSet(S), \A x \in S : f[x] = 0 PROVE SumOf(f, S) = 0
  <2>1. \A x \in S : \A a \in {0} : f[x] + a \in {0}
    BY <1>5
  <2>2. SumOf(f, S) \in {0}
    BY <1>5, <2>1, SumIn
  <2> QED
    BY <2>2
<1>6. SumOf(PhotosMay(P), P) = 0
  <2>1. \A p \in P : PhotosMay(P)[p] = 0
    BY <1>2, <1>3 DEF Summed, PhotoMay, PhotoHas
  <2> QED
    BY <1>4, <1>5, <2>1
<1>7. SumOf(LotsMay(L), L) = 0
  <2>1. \A w \in L : LotsMay(L)[w] = 0
    BY <1>2, <1>3 DEF Summed, LotMay, LotHas
  <2> QED
    BY <1>4, <1>5, <2>1
<1>8. SumOf(searched, C) = 0
  BY <1>2, <1>4, <1>5
<1>9. SumOf(SearchesMay(C, steps), Searches) = 0
  <2>1. \A s \in Searches : SearchesMay(C, steps)[s] = 0
    BY <1>2, <1>3, IdleFacts DEF Summed, SearchMay, Counted, Flying
  <2> QED
    BY <1>4, <1>5, <2>1
<1> DEFINE x == PhotoCost * Cardinality(P)
           y == LotCost * Cardinality(L)
           z == SearchMost * Cardinality(Searches)
<1>10. x \in Nat /\ y \in Nat /\ z \in Nat
  BY RoomTyped
<1>11. z > 0
  <2>1. SearchMost \in Nat /\ SearchMost > 0
    BY Constants, SpendingAssumption
  <2>2. Cardinality(Searches) \in Nat /\ Cardinality(Searches) # 0
    BY <1>4, FS_CardinalityType, FS_EmptySet, SpendingAssumption
  <2> QED
    BY <2>1, <2>2
<1>12. May(P, L, C, steps) = 0 /\ Room(P, L) = x + y + z
  BY <1>6, <1>7, <1>8, <1>9 DEF May, Room
<1> HIDE DEF x, y, z
<1> QED
  BY <1>10, <1>11, <1>12 DEF Fits

\* What fits leaves what was spent under the limit and its room.
LEMMA FitsBounds ==
  ASSUME SpendingOK, NEW P \in SUBSET Photos, NEW L \in SUBSET Wines, NEW C \in SUBSET Caves,
         NEW steps, NEW limit \in Nat, Fits(P, L, C, steps, limit)
  PROVE  Has(P, L, C) < limit + PhotoCost * Cardinality(P) + LotCost * Cardinality(L) + SearchMost * Cardinality(Searches)
<1> DEFINE h == Has(P, L, C)
           m == May(P, L, C, steps)
           x == PhotoCost * Cardinality(P)
           y == LotCost * Cardinality(L)
           z == SearchMost * Cardinality(Searches)
<1>1. x \in Nat /\ y \in Nat /\ z \in Nat
  BY RoomTyped
<1>2. h \in Nat /\ m \in Nat /\ h <= m
  BY MayBound DEF MayBounded
<1>3. m < limit + (x + y + z)
  BY DEF Fits, Room
<1> HIDE DEF h, m, x, y, z
<1>4. h < limit + x + y + z
  BY <1>1, <1>2, <1>3
<1> QED
  BY <1>4 DEF h, x, y, z

\* What may be counted stays within the limits: so does what is.
LEMMA CapsHold == SpendingOK /\ CapsInv => CapsPassedByCallsInFlight
<1> SUFFICES ASSUME SpendingOK, CapsInv PROVE CapsPassedByCallsInFlight
  OBVIOUS
<1> DEFINE lots == Total(pairing, PairingsMade(Caves))
           flight(C) == Most.search + PhotoCost * Cardinality({p \in Photos : CaveOf[p] \in C})
<1>1. /\ Most.photo = PhotoCost * Cardinality(Photos) /\ Most.lot = LotCost * Cardinality(Wines)
      /\ Most.search = SearchMost * Cardinality(Searches)
  BY DEF Most, SearchMost
<1>2. {Cap, SharedCap, CaveCap, InvitedCap} \subseteq Nat
  BY SpendingAssumption
<1>3. Cardinality({}) = 0 /\ PhotoCost * 0 = 0 /\ LotCost * 0 = 0
  BY FS_EmptySet, Constants
<1>4. Most.photo \in Nat /\ Most.lot \in Nat /\ Most.search \in Nat
  BY <1>1, RoomTyped
<1>5. SpentOn(Caves) + lots < Cap + Most.photo + Most.lot + Most.search
  <2>1. Has(Photos, Wines, Caves) < Cap + Most.photo + Most.lot + Most.search
    BY <1>1, <1>2, FitsBounds DEF CapsInv
  <2> QED
    BY <2>1, AllSpent
<1>6. lots + Searched(Caves) < SharedCap + Most.lot + Most.search
  <2>1. Has({}, Wines, Caves) < SharedCap + PhotoCost * Cardinality({}) + Most.lot + Most.search
    BY <1>1, <1>2, FitsBounds DEF CapsInv
  <2>2. Has({}, Wines, Caves) < SharedCap + Most.lot + Most.search
    BY <1>2, <1>3, <1>4, <2>1
  <2> QED
    BY <2>2, AllSpent
<1>7. ASSUME NEW C \in SUBSET Caves, NEW limit \in Nat, Fits(PhotosOf(C), {}, C, Flying, limit)
      PROVE  SpentOn(C) < limit + flight(C)
  <2> DEFINE x == PhotoCost * Cardinality(PhotosOf(C))
  <2>1. PhotosOf(C) \in SUBSET Photos /\ SpentOn(C) = Has(PhotosOf(C), {}, C) /\ SpentOn(C) \in Nat
    BY SpentIs
  <2>2. Has(PhotosOf(C), {}, C) < limit + x + LotCost * Cardinality({}) + Most.search
    BY <1>1, <1>7, <2>1, FitsBounds
  <2>3. x \in Nat
    BY <2>1, RoomTyped
  <2>4. flight(C) = Most.search + x
    BY DEF PhotosOf
  <2> HIDE DEF x, flight
  <2>5. SpentOn(C) < limit + x + 0 + Most.search
    BY <1>3, <2>1, <2>2
  <2> QED
    BY <1>4, <2>1, <2>3, <2>4, <2>5
<1>8. \A c \in Invited : SpentOn({c}) < CaveCap + flight({c})
  <2>1. \A c \in Invited : {c} \in SUBSET Caves
    BY DEF Invited
  <2> HIDE DEF flight
  <2> QED
    BY <1>2, <1>7, <2>1 DEF CapsInv
<1>9. SpentOn(Invited) < InvitedCap + flight(Invited)
  <2>1. Invited \in SUBSET Caves
    BY DEF Invited
  <2> HIDE DEF flight
  <2> QED
    BY <1>2, <1>7, <2>1 DEF CapsInv
<1> QED
  BY <1>5, <1>6, <1>8, <1>9 DEF CapsPassedByCallsInFlight, Invited

\* No limit is passed but by the calls that were under way together when it was met, one
\* for each photo, wine and search: the month's cap, the share of lots and searches, that
\* of each invited cellar and that of all of them
\* (vision-budget.service.ts:76-93, 130-148).
THEOREM LimitsPassedByCallsInFlight == SpendingSpec => []CapsPassedByCallsInFlight
<1>1. ASSUME NEW c \in Invited
      PROVE  PhotosOf({c}) \in SUBSET Photos /\ {c} \in SUBSET Caves
  BY DEF Invited, PhotosOf
<1>2. /\ Photos \in SUBSET Photos /\ {} \in SUBSET Photos /\ PhotosOf(Invited) \in SUBSET Photos
      /\ Wines \in SUBSET Wines /\ {} \in SUBSET Wines /\ Caves \in SUBSET Caves /\ Invited \in SUBSET Caves
      /\ Counted(Flying) /\ Counted(Flying \union {"share"})
      /\ Cap \in Nat /\ SharedCap \in Nat /\ CaveCap \in Nat /\ InvitedCap \in Nat
  BY SpendingAssumption DEF Invited, PhotosOf, Counted
<1>3. SpendingInit => SpendingOK /\ CapsInv
  <2> SUFFICES ASSUME SpendingInit PROVE SpendingOK /\ CapsInv
    OBVIOUS
  <2>1. \A c \in Invited : Fits(PhotosOf({c}), {}, {c}, Flying, CaveCap)
    BY <1>1, <1>2, FitsFirst
  <2> QED
    BY <1>2, <2>1, FitsFirst, SpendingStarts DEF CapsInv
<1>4. (SpendingOK /\ CapsInv) /\ [SpendingNext]_spendVars => (SpendingOK /\ CapsInv)'
  <2> SUFFICES ASSUME SpendingOK, CapsInv, [SpendingNext]_spendVars PROVE SpendingOK' /\ CapsInv'
    OBVIOUS
  <2>1. SpendingOK'
    BY SpendingKeeps
  <2>2. Fits(Photos, Wines, Caves, Flying \union {"share"}, Cap)'
    BY <1>2, <2>1, CapsGuarded, FitsStep DEF CapsInv
  <2>3. Fits({}, Wines, Caves, Flying \union {"share"}, SharedCap)'
    BY <1>2, <2>1, CapsGuarded, FitsStep DEF CapsInv
  <2>4. ASSUME NEW c \in Invited PROVE Fits(PhotosOf({c}), {}, {c}, Flying, CaveCap)'
    BY <1>1, <1>2, <2>1, CapsGuarded, FitsStep DEF CapsInv
  <2>5. Fits(PhotosOf(Invited), {}, Invited, Flying, InvitedCap)'
    BY <1>2, <2>1, CapsGuarded, FitsStep DEF CapsInv
  <2> QED
    BY <2>1, <2>2, <2>3, <2>4, <2>5 DEF CapsInv
<1> QED
  BY <1>3, <1>4, CapsHold, PTL DEF SpendingSpec

-----------------------------------------------------------------------------
(* The calls and their report *)

\* What Google may answer to a call of some use.
Answerable(usage, answer) ==
  (usage \in Lots /\ answer \in Answered) \/ (usage \in GEMINI_USAGES /\ answer \in Others \union Refusals)

CallsStep ==
  \/ \E usage \in GEMINI_USAGES, answer \in Answered \union Others \union Refusals :
       Answerable(usage, answer) /\ CallGemini(usage, answer)
  \/ CallEnds
  \/ \E n \in Nat : TimeGoesBy(n)

CallsSpec == CallsInit /\ [][CallsStep]_callVars

CallRow == [at : Nat, usage : GEMINI_USAGES, outcome : {"OK", "REFUSE", "ERREUR"}, cost : Nat]

\* Nothing is written of the future, and whoever waits for an answer gets what it says.
CallsInv ==
  /\ clock \in Nat /\ calls \in Seq(CallRow)
  /\ \A i \in DOMAIN calls : calls[i].at <= clock
  /\ last # NoCall => last.got = Result(last.usage, last.answer) /\ Answerable(last.usage, last.answer)

\* A call costs a whole number of cents.
LEMMA CostTyped ==
  ASSUME NEW usage \in GEMINI_USAGES, NEW answer, answer.tokens \in Nat, answer.queries \in Nat
  PROVE  CostOf(usage, answer) \in Nat
<1>1. RoundedUp(answer.tokens) \in Nat /\ RoundedUp(1400 * answer.queries) \in Nat /\ (answer.tokens + 500) \div 1000 \in Nat
  BY DEF RoundedUp
<1> DEFINE a == RoundedUp(answer.tokens)
           b == RoundedUp(1400 * answer.queries)
<1>2. Max({1, a, b}) \in Nat
  <2> HIDE DEF a, b
  <2>1. a \in Nat /\ b \in Nat
    BY <1>1 DEF a, b
  <2>2. \E x \in {1, a, b} : \A y \in {1, a, b} : x >= y
    BY <2>1
  <2>3. Max({1, a, b}) \in {1, a, b}
    BY <2>2 DEF Max
  <2> QED
    BY <2>1, <2>3
<1> QED
  BY <1>1, <1>2 DEF CostOf, GEMINI_USAGES

\* What its caller is told of it: the cents are those billed but for a blocked answer,
\* which is no definitive failure, as the others that are billed are; and an answer to a
\* lot is one where each number is in place.
LEMMA ResultSays ==
  ASSUME NEW usage, NEW answer, Answerable(usage, answer)
  PROVE  /\ usage \in GEMINI_USAGES
         /\ Result(usage, answer).cost \in Nat
         /\ \/ /\ Result(usage, answer).type \in {"OK", "mismatch", "invalid"}
               /\ Result(usage, answer).cost = Billed(usage, answer)
               /\ Result(usage, answer).type = "OK" \/ answer.kind # "blocked"
            \/ /\ Result(usage, answer).type = "blocked" /\ answer.kind = "blocked"
               /\ Result(usage, answer).cost = 0
            \/ /\ Result(usage, answer).type \notin {"OK", "blocked"} /\ answer.kind # "blocked"
               /\ Result(usage, answer).cost = 0 /\ Billed(usage, answer) = 0
         /\ usage \in Lots /\ Result(usage, answer).type = "OK" =>
              /\ answer \in Answered /\ InPlace(answer.array.numbers)
              /\ Result(usage, answer).items = Itemised(answer.array)
<1>1. usage \in GEMINI_USAGES
  BY DEF Answerable, Lots, GEMINI_USAGES
<1>2. answer.tokens \in Nat /\ answer.queries \in Nat
  <2>1. Tokens \subseteq Nat
    BY VisionCallsAssumption
  <2>2. CASE answer \in Answered
    <3>1. answer.tokens \in Tokens /\ answer.queries \in {0}
      BY <2>2 DEF Answered
    <3>2. answer.tokens \in Nat
      BY <2>1, <3>1
    <3>3. answer.queries \in Nat
      BY <3>1
    <3> QED
      BY <3>2, <3>3
  <2>3. CASE answer \in Others
    <3>1. answer.tokens \in Tokens /\ answer.queries \in {0, 2}
      BY <2>3 DEF Others
    <3>2. answer.tokens \in Nat
      BY <2>1, <3>1
    <3>3. answer.queries \in Nat
      BY <3>1
    <3> QED
      BY <3>2, <3>3
  <2>4. CASE answer \in Refusals
    BY <2>4 DEF Refusals
  <2> QED
    BY <2>2, <2>3, <2>4 DEF Answerable
<1> DEFINE cost == CostOf(usage, answer)
           got == Result(usage, answer)
<1>3. cost \in Nat
  BY <1>1, <1>2, CostTyped
<1> HIDE DEF cost
<1>9. answer \notin Refusals => Billed(usage, answer) = cost
  BY DEF Billed, cost
<1>4. CASE answer \in Refusals
  <2>1. got = Failed(answer.kind, 0)
    BY <1>4 DEF Result
  <2>2. answer.kind \notin {"OK", "blocked"} /\ Billed(usage, answer) = 0
    BY <1>4 DEF Refusals, Billed
  <2> HIDE DEF got
  <2>3. got.cost = 0 /\ got.type \notin {"OK", "blocked"}
    BY <2>1, <2>2 DEF Failed
  <2> QED
    BY <1>1, <2>2, <2>3 DEF got
<1>5. CASE answer \notin Refusals /\ usage \in Lots
  <2>1. got = OfLot(answer, cost)
    BY <1>5 DEF Result, cost, Lots
  <2> HIDE DEF got
  <2>2. CASE answer.kind \in {"array", "wrapped"} /\ InPlace(answer.array.numbers)
    <3>1. got = [type |-> "OK", items |-> Itemised(answer.array), cost |-> cost]
      BY <2>1, <2>2 DEF OfLot
    <3>2. answer \in Answered
      <4>1. answer \notin Others
        BY <2>2 DEF Others
      <4> QED
        BY <1>5, <4>1 DEF Answerable
    <3>3. got.type = "OK" /\ got.items = Itemised(answer.array) /\ got.cost = cost
      BY <3>1
    <3> QED
      BY <1>1, <1>3, <1>5, <1>9, <2>2, <3>2, <3>3 DEF got
  <2>3. CASE ~(answer.kind \in {"array", "wrapped"} /\ InPlace(answer.array.numbers))
    <3>1. \/ got = Failed("blocked", 0) /\ answer.kind = "blocked"
          \/ got = Failed("mismatch", cost) /\ answer.kind # "blocked"
      BY <2>1, <2>3 DEF OfLot
    <3>2. \/ got.type = "blocked" /\ got.cost = 0 /\ answer.kind = "blocked"
          \/ got.type = "mismatch" /\ got.cost = cost /\ answer.kind # "blocked"
      BY <3>1 DEF Failed
    <3> QED
      BY <1>1, <1>3, <1>5, <1>9, <3>2 DEF got
  <2> QED
    BY <2>2, <2>3
<1>6. CASE answer \notin Refusals /\ usage = "LECTURE_SORTIE"
  <2>1. got = OfPhoto(answer, cost)
    BY <1>6 DEF Result, cost, Lots
  <2> HIDE DEF got
  <2>2. \/ got = [type |-> "OK", items |-> << >>, cost |-> cost]
        \/ got = Failed("blocked", 0) /\ answer.kind = "blocked"
        \/ got = Failed("invalid", cost) /\ answer.kind # "blocked"
    BY <2>1 DEF OfPhoto
  <2>3. \/ got.type = "OK" /\ got.cost = cost
        \/ got.type = "blocked" /\ got.cost = 0 /\ answer.kind = "blocked"
        \/ got.type = "invalid" /\ got.cost = cost /\ answer.kind # "blocked"
    BY <2>2 DEF Failed
  <2>4. usage \notin Lots
    BY <1>6 DEF Lots
  <2> QED
    BY <1>1, <1>3, <1>6, <1>9, <2>3, <2>4 DEF got
<1>7. CASE answer \notin Refusals /\ usage = "RECHERCHE_IMAGE"
  <2>1. got = OfSearch(answer, cost)
    BY <1>7 DEF Result, cost, Lots
  <2> HIDE DEF got
  <2>2. got.type = "OK" /\ got.cost = cost
    BY <2>1 DEF OfSearch
  <2>3. usage \notin Lots
    BY <1>7 DEF Lots
  <2> QED
    BY <1>1, <1>3, <1>7, <1>9, <2>2, <2>3 DEF got
<1> QED
  BY <1>1, <1>4, <1>5, <1>6, <1>7 DEF GEMINI_USAGES, Lots

\* What is called a failure is one of the three outcomes.
LEMMA OutcomeTyped == \A type : Outcome(type) \in {"OK", "REFUSE", "ERREUR"}
  BY DEF Outcome

-----------------------------------------------------------------------------
(* The invariant *)

\* Each request leaves a row of its own, of the time it was sent at.
LEMMA CallsInvHolds == CallsSpec => []CallsInv
<1>1. CallsInit => CallsInv
  BY DEF CallsInit, CallsInv
<1>2. CallsInv /\ [CallsStep]_callVars => CallsInv'
  <2> SUFFICES ASSUME CallsInv, [CallsStep]_callVars PROVE CallsInv'
    OBVIOUS
  <2> USE DEF CallsInv
  <2>1. ASSUME NEW usage \in GEMINI_USAGES, NEW answer, Answerable(usage, answer), CallGemini(usage, answer)
        PROVE  CallsInv'
    <3> DEFINE got == Result(usage, answer)
               row == [at |-> clock, usage |-> usage, outcome |-> Outcome(got.type), cost |-> got.cost]
    <3>1. row \in CallRow
      <4>1. got.cost \in Nat /\ Outcome(got.type) \in {"OK", "REFUSE", "ERREUR"}
        BY <2>1, ResultSays, OutcomeTyped
      <4> HIDE DEF got
      <4> QED
        BY <4>1 DEF CallRow
    <3>2. calls' = Append(calls, row) /\ clock' = clock /\ last' = [usage |-> usage, answer |-> answer, got |-> got]
      BY <2>1 DEF CallGemini
    <3>3. row.at = clock
      OBVIOUS
    <3> HIDE DEF row, got
    <3>4. calls' \in Seq(CallRow) /\ clock' \in Nat
      BY <3>1, <3>2
    <3>5. ASSUME NEW i \in DOMAIN calls' PROVE calls'[i].at <= clock'
      <4>1. CASE i \in DOMAIN calls
        <5>1. calls'[i] = calls[i]
          BY <3>1, <3>2, <4>1
        <5> QED
          BY <3>2, <4>1, <5>1
      <4>2. CASE i \notin DOMAIN calls
        <5>1. calls'[i] = row
          BY <3>1, <3>2, <3>5, <4>2
        <5> QED
          BY <3>2, <3>3, <5>1
      <4> QED
        BY <4>1, <4>2
    <3>6. last'.got = Result(last'.usage, last'.answer) /\ Answerable(last'.usage, last'.answer)
      BY <2>1, <3>2 DEF got
    <3> QED
      BY <3>4, <3>5, <3>6
  <2>2. CASE CallEnds
    BY <2>2 DEF CallEnds
  <2>3. ASSUME NEW n \in Nat, TimeGoesBy(n) PROVE CallsInv'
    <3>1. clock' = clock + n /\ calls' = calls /\ last' = last
      BY <2>3 DEF TimeGoesBy
    <3>2. \A i \in DOMAIN calls : calls[i].at \in Nat
      <4>1. \A i \in DOMAIN calls : calls[i] \in CallRow
        OBVIOUS
      <4> QED
        BY <4>1 DEF CallRow
    <3> QED
      BY <3>1, <3>2
  <2>4. CASE UNCHANGED callVars
    BY <2>4 DEF callVars
  <2> QED
    BY <2>1, <2>2, <2>3, <2>4 DEF CallsStep
<1> QED
  BY <1>1, <1>2, PTL DEF CallsSpec

-----------------------------------------------------------------------------
(* Who gets what, and what is bought again *)

\* As many elements as the lot has, whose numbers are those of the lot: no number twice.
LEMMA NumbersOnce ==
  ASSUME NEW numbers, numbers \in UNION {[1..k -> 0..Lot + 1] : k \in (Lot - 1)..(Lot + 1)}, InPlace(numbers)
  PROVE  /\ DOMAIN numbers = 1..Lot
         /\ \A k \in DOMAIN numbers : \A l \in DOMAIN numbers : numbers[k] = numbers[l] => k = l
<1>1. Lot \in Nat
  BY VisionCallsAssumption
<1>2. PICK k \in (Lot - 1)..(Lot + 1) : numbers \in [1..k -> 0..Lot + 1]
  OBVIOUS
<1>3. numbers \in Seq(0..Lot + 1) /\ Len(numbers) = Lot /\ {numbers[l] : l \in 1..Len(numbers)} = 1..Lot
  <2>1. k \in Nat
    BY <1>1, VisionCallsAssumption
  <2> QED
    BY <1>2, <2>1 DEF InPlace
<1>4. DOMAIN numbers = 1..Lot /\ {numbers[l] : l \in 1..Lot} = 1..Lot
  BY <1>3
<1>5. numbers \in Surjection(1..Lot, 1..Lot)
  <2>1. numbers \in [1..Lot -> 1..Lot]
    BY <1>3, <1>4
  <2>2. \A t \in 1..Lot : \E s \in 1..Lot : numbers[s] = t
    BY <1>4
  <2> QED
    BY <2>1, <2>2 DEF Surjection
<1>6. IsFiniteSet(1..Lot)
  BY <1>1, FS_Interval
<1>7. numbers \in Injection(1..Lot, 1..Lot)
  BY <1>5, <1>6, FS_SurjSameCardinalityImpliesInj
<1> QED
  BY <1>4, <1>7 DEF Injection, IsInjective

\* An answer goes to the element whose number it carries.
LEMMA AnswersInPlace == CallsInv /\ last # NoCall => NobodyGetsAnothers
<1> SUFFICES ASSUME CallsInv, last # NoCall, last.usage \in Lots, last.got.type = "OK"
             PROVE  LET numbers == last.answer.array.numbers IN
                      /\ \A i \in DOMAIN last.got.items : numbers[last.got.items[i]] = i
                      /\ \A k \in DOMAIN numbers : \A l \in DOMAIN numbers : numbers[k] = numbers[l] => k = l
  BY DEF NobodyGetsAnothers
<1> DEFINE array == last.answer.array
           numbers == array.numbers
<1>1. last.got = Result(last.usage, last.answer) /\ Answerable(last.usage, last.answer)
  BY DEF CallsInv
<1>2. last.answer \in Answered /\ InPlace(numbers) /\ last.got.items = Itemised(array)
  BY <1>1, ResultSays
<1>3. numbers \in UNION {[1..k -> 0..Lot + 1] : k \in (Lot - 1)..(Lot + 1)}
  <2>1. array \in Arrays
    BY <1>2 DEF Answered
  <2> HIDE DEF array
  <2> QED
    BY <2>1 DEF Arrays
<1>4. \A k \in DOMAIN numbers : \A l \in DOMAIN numbers : numbers[k] = numbers[l] => k = l
  <2> HIDE DEF numbers
  <2> QED
    BY <1>2, <1>3, NumbersOnce
<1> HIDE DEF array
<1>5. ASSUME NEW i \in DOMAIN last.got.items PROVE numbers[last.got.items[i]] = i
  <2>1. /\ i \in {numbers[k] : k \in DOMAIN numbers \ {array.broken}}
        /\ last.got.items[i] = (CHOOSE k \in DOMAIN numbers : numbers[k] = i)
    BY <1>2, <1>5 DEF Itemised
  <2>2. \E k \in DOMAIN numbers : numbers[k] = i
    BY <2>1
  <2> QED
    BY <2>1, <2>2
<1> QED
  BY <1>4, <1>5 DEF array

\* What was billed is counted and is no passing failure, unless the answer was blocked;
\* what was refused is one.
LEMMA RetriesAreRight == CallsInv /\ last # NoCall => BilledIsCounted
<1> SUFFICES ASSUME CallsInv, last # NoCall PROVE BilledIsCounted
  OBVIOUS
<1> DEFINE type == last.got.type
           charge == Billed(last.usage, last.answer)
           blocked == last.answer.kind = "blocked" /\ type # "OK"
<1>1. \/ /\ type \in {"OK", "mismatch", "invalid"} /\ last.got.cost = charge
         /\ type = "OK" \/ last.answer.kind # "blocked"
      \/ type = "blocked" /\ last.answer.kind = "blocked" /\ last.got.cost = 0
      \/ type \notin {"OK", "blocked"} /\ last.answer.kind # "blocked" /\ last.got.cost = 0 /\ charge = 0
  BY ResultSays DEF CallsInv
<1> HIDE DEF charge
<1>2. last.got.cost = IF blocked THEN 0 ELSE charge
  BY <1>1
<1>3. ASSUME type # "OK", charge > 0 PROVE Transient(type) <=> blocked
  <2>1. CASE type \in {"mismatch", "invalid"} /\ last.answer.kind # "blocked"
    BY <2>1 DEF Transient
  <2>2. CASE type = "blocked" /\ last.answer.kind = "blocked"
    BY <2>2 DEF Transient, Misconfigured
  <2> QED
    BY <1>1, <1>3, <2>1, <2>2
<1>4. ASSUME Outcome(type) = "REFUSE" PROVE Transient(type)
  <2>1. type \in {"429", "503"}
    BY <1>4 DEF Outcome
  <2> QED
    BY <2>1 DEF Transient, Misconfigured
<1> QED
  BY <1>2, <1>3, <1>4 DEF BilledIsCounted, charge

-----------------------------------------------------------------------------
(* The report *)

\* The days of Paris go by in order, though its clocks change, and two moments some days apart
\* are not further apart than one day more: what is read of the journal is enough.
LEMMA DaysInOrder ==
  ASSUME NEW t \in Nat, NEW u \in Nat, t <= u
  PROVE  /\ ParisDay(t) \in Int /\ ParisDay(u) \in Int /\ ParisDay(t) <= ParisDay(u)
         /\ \A days \in Nat : ParisDay(t) > ParisDay(u) - days => t >= u - (days + 1) * 48
<1> DEFINE a == t + (IF t >= WinterTime THEN 2 ELSE 4)
           b == u + (IF u >= WinterTime THEN 2 ELSE 4)
           p == a \div 48
           q == b \div 48
<1>1. WinterTime \in Nat /\ WinterTime % 48 = 2
  BY VisionCallsAssumption
<1>2. /\ a \in Nat /\ b \in Nat
      /\ t <= a - 2 /\ a <= t + 4 /\ u <= b - 2 /\ b <= u + 4
  BY <1>1
<1>3. p \in Int /\ q \in Int /\ 48 * p <= a /\ a < 48 * p + 48 /\ 48 * q <= b /\ b < 48 * q + 48
  <2> HIDE DEF a, b
  <2> QED
    BY <1>2
<1>4. p <= q
  <2>1. CASE ~(t < WinterTime /\ u >= WinterTime)
    <3>1. a <= b
      BY <1>1, <2>1
    <3> HIDE DEF a, b, p, q
    <3> QED
      BY <1>2, <1>3, <3>1
  <2>2. CASE t < WinterTime /\ u >= WinterTime
    <3> DEFINE w == WinterTime \div 48
    <3>1. w \in Int /\ WinterTime = 48 * w + 2
      BY <1>1
    <3>2. a < WinterTime + 4 /\ b >= WinterTime + 2
      BY <1>1, <2>2
    <3> HIDE DEF a, b, p, q, w
    <3>3. p <= w /\ q >= w
      BY <1>2, <1>3, <3>1, <3>2
    <3> QED
      BY <1>3, <3>1, <3>3
  <2> QED
    BY <2>1, <2>2
<1>5. ASSUME NEW days \in Nat, p > q - days PROVE t >= u - (days + 1) * 48
  <2> HIDE DEF a, b, p, q
  <2> QED
    BY <1>2, <1>3, <1>5
<1>6. ParisDay(t) = p /\ ParisDay(u) = q
  BY DEF ParisDay
<1> HIDE DEF a, b, p, q
<1> QED
  BY <1>3, <1>4, <1>5, <1>6

\* The calls written down, one by one.
LEMMA RowFacts ==
  ASSUME CallsInv, NEW i \in DOMAIN calls
  PROVE  calls[i].at \in Nat /\ calls[i].at <= clock /\ calls[i].cost \in Nat /\ calls[i].outcome \in {"OK", "REFUSE", "ERREUR"}
<1>1. calls[i] \in CallRow
  BY DEF CallsInv
<1> QED
  BY <1>1 DEF CallsInv, CallRow

\* The calls of the days of Paris asked for.
Wanted(days) == {i \in DOMAIN calls : ParisDay(calls[i].at) > ParisDay(clock) - days}

\* They are all read, and no other is kept.
LEMMA KeptAreWanted ==
  ASSUME CallsInv, NEW days \in Nat
  PROVE  Kept(days) = Wanted(days) /\ IsFiniteSet(Kept(days)) /\ Kept(days) \subseteq DOMAIN calls
<1>1. clock \in Nat
  BY DEF CallsInv
<1>2. ASSUME NEW i \in DOMAIN calls PROVE i \in Kept(days) <=> i \in Wanted(days)
  <2> DEFINE t == calls[i].at
             p == ParisDay(t)
             q == ParisDay(clock)
  <2>1. t \in Nat /\ t <= clock
    BY RowFacts
  <2>2. /\ p \in Int /\ q \in Int /\ p <= q
        /\ p > q - days => t >= clock - (days + 1) * 48
    <3> HIDE DEF t
    <3> QED
      BY <1>1, <2>1, DaysInOrder
  <2>3. i \in Kept(days) <=> t >= clock - (days + 1) * 48 /\ t <= clock /\ p \in (q - (days - 1))..q
    BY DEF Kept, Read, UsageSince
  <2>4. i \in Wanted(days) <=> p > q - days
    BY DEF Wanted
  <2> HIDE DEF t, p, q
  <2>5. p \in (q - (days - 1))..q <=> p > q - days
    BY <2>2
  <2> QED
    BY <2>1, <2>2, <2>3, <2>4, <2>5
<1>3. Kept(days) \subseteq DOMAIN calls /\ Wanted(days) \subseteq DOMAIN calls
  BY DEF Kept, Read, Wanted
<1>4. IsFiniteSet(DOMAIN calls)
  <2>1. DOMAIN calls = 1..Len(calls) /\ Len(calls) \in Nat
    BY DEF CallsInv
  <2> QED
    BY <2>1, FS_Interval
<1> QED
  BY <1>2, <1>3, <1>4, FS_Subset

\* Each call has one outcome.
LEMMA OutcomesAreParts ==
  ASSUME CallsInv, NEW rows, rows \subseteq DOMAIN calls, IsFiniteSet(rows)
  PROVE  Cardinality(With("OK", rows)) + Cardinality(With("REFUSE", rows)) + Cardinality(With("ERREUR", rows))
           = Cardinality(rows)
<1> DEFINE a == With("OK", rows)
           b == With("REFUSE", rows)
           c == With("ERREUR", rows)
<1>1. \A i \in rows : calls[i].outcome \in {"OK", "REFUSE", "ERREUR"}
  BY RowFacts
<1>2. /\ rows = (a \union b) \union c /\ a \intersect b = {} /\ (a \union b) \intersect c = {}
      /\ a \subseteq rows /\ b \subseteq rows /\ c \subseteq rows
  BY <1>1 DEF With
<1> HIDE DEF a, b, c
<1>3. IsFiniteSet(a) /\ IsFiniteSet(b) /\ IsFiniteSet(c)
  BY <1>2, FS_Subset
<1>4. IsFiniteSet(a \union b) /\ Cardinality(a \union b) = Cardinality(a) + Cardinality(b) - Cardinality({})
  BY <1>2, <1>3, FS_Union
<1>5. Cardinality(rows) = Cardinality(a \union b) + Cardinality(c) - Cardinality({})
  BY <1>2, <1>3, <1>4, FS_Union
<1>6. Cardinality({}) = 0 /\ Cardinality(a) \in Nat /\ Cardinality(b) \in Nat /\ Cardinality(c) \in Nat
  BY <1>3, FS_EmptySet, FS_CardinalityType
<1> QED
  BY <1>4, <1>5, <1>6 DEF a, b, c

\* The whole of a column is a sum.
LEMMA WholeIsSum == ASSUME NEW column PROVE Whole(column) = SumOf(column, DOMAIN column)
  BY DEF Whole, SumOf

\* The report holds each call of the days asked for once, with its cents.
LEMMA ReportIsWhole == ASSUME CallsInv, NEW days \in Nat PROVE EachCallOnce(days)
<1> DEFINE S == Kept(days)
           K == {Line(i) : i \in S}
           g == [i \in S |-> Line(i)]
           ones == [i \in S |-> 1]
           costs == [i \in S |-> calls[i].cost]
           report == Report(days)
           h == [line \in DOMAIN report |-> report[line].ok + report[line].refused + report[line].errors]
           c == [line \in DOMAIN report |-> report[line].cents]
<1>1. S = Wanted(days) /\ IsFiniteSet(S) /\ S \subseteq DOMAIN calls
  BY KeptAreWanted
<1>2. IsFiniteSet(K) /\ \A i \in S : g[i] \in K
  <2> HIDE DEF S
  <2>1. g \in Surjection(S, K)
    BY DEF Surjection
  <2>2. \A i \in S : g[i] \in K
    OBVIOUS
  <2> HIDE DEF g, K
  <2> QED
    BY <1>1, <2>1, <2>2, FS_Surjection
<1>3. DOMAIN report = K
  BY DEF Report
<1>4. ASSUME NEW k \in K
      PROVE  h[k] = SumOf(ones, Group(S, g, k)) /\ c[k] = SumOf(costs, Group(S, g, k))
  <2> DEFINE rows == Under(days, k)
             some == [i \in rows |-> calls[i].cost]
  <2>1. rows = Group(S, g, k) /\ rows \subseteq S
    BY DEF Under, Group
  <2>2. /\ report[k].ok = Cardinality(With("OK", rows)) /\ report[k].refused = Cardinality(With("REFUSE", rows))
        /\ report[k].errors = Cardinality(With("ERREUR", rows)) /\ report[k].cents = Whole(some)
    BY <1>4 DEF Report
  <2>3. h[k] = report[k].ok + report[k].refused + report[k].errors /\ c[k] = report[k].cents
    <3> HIDE DEF report
    <3> QED
      BY <1>3, <1>4
  <2>4. IsFiniteSet(rows) /\ rows \subseteq DOMAIN calls
    <3> HIDE DEF rows, S
    <3> QED
      BY <1>1, <2>1, FS_Subset
  <2>5. (\A x \in rows : ones[x] = 1) /\ (\A x \in rows : costs[x] = some[x] /\ costs[x] \in Int)
    <3>1. \A x \in rows : calls[x].cost \in Nat
      BY <2>4, RowFacts
    <3> QED
      BY <2>1, <3>1
  <2>6. DOMAIN some = rows
    OBVIOUS
  <2> HIDE DEF rows, some, ones, costs, h, c, report
  <2>7. h[k] = Cardinality(rows)
    BY <2>2, <2>3, <2>4, OutcomesAreParts
  <2>8. SumOf(ones, rows) = Cardinality(rows)
    BY <2>4, <2>5, SumOnes
  <2>9. c[k] = SumOf(some, rows)
    BY <2>2, <2>3, <2>6, WholeIsSum
  <2>10. SumOf(some, rows) = SumOf(costs, rows)
    BY <2>4, <2>5, SumSame
  <2> QED
    BY <2>1, <2>7, <2>8, <2>9, <2>10
<1>5. (\A x \in S : ones[x] = 1 /\ ones[x] \in Int) /\ (\A x \in S : costs[x] \in Int)
  <2>1. \A x \in S : calls[x].cost \in Nat
    BY <1>1, RowFacts
  <2> QED
    BY <2>1
<1>6. DOMAIN h = K /\ DOMAIN c = K
  BY <1>3
<1>7. costs = [i \in Wanted(days) |-> calls[i].cost] /\ DOMAIN costs = S
  BY <1>1
<1>8. EachCallOnce(days) <=> Whole(h) = Cardinality(Wanted(days)) /\ Whole(c) = Whole([i \in Wanted(days) |-> calls[i].cost])
  BY DEF EachCallOnce, Wanted
<1> HIDE DEF h, c, ones, costs, g, K, S, report
<1>9. SumOf(h, K) = SumOf(ones, S)
  <2>1. (\A x \in S : ones[x] \in Int) /\ \A k \in K : h[k] = SumOf(ones, Group(S, g, k))
    BY <1>4, <1>5
  <2> QED
    BY <1>1, <1>2, <2>1, SumGroups
<1>10. SumOf(ones, S) = Cardinality(S)
  BY <1>1, <1>5, SumOnes
<1>11. SumOf(c, K) = SumOf(costs, S)
  <2>1. \A k \in K : c[k] = SumOf(costs, Group(S, g, k))
    BY <1>4
  <2> QED
    BY <1>1, <1>2, <1>5, <2>1, SumGroups
<1> QED
  BY <1>1, <1>6, <1>7, <1>8, <1>9, <1>10, <1>11, WholeIsSum

\* Whatever Google answers, for lots of any size and any clocks: an answer goes to the
\* element whose number it carries; what is billed is counted, and not asked again when it
\* cannot be used, but for a blocked answer, which is counted for nothing and asked again;
\* and the report of any days of Paris holds each of their calls once, with what was counted.
THEOREM CallsAreAccountedFor == CallsSpec => []CallsAccountedFor
<1>1. CallsInv => CallsAccountedFor
  <2> SUFFICES ASSUME CallsInv PROVE CallsAccountedFor
    OBVIOUS
  <2>1. \A days \in 1..2 : EachCallOnce(days)
    BY ReportIsWhole
  <2>2. last # NoCall => NobodyGetsAnothers /\ BilledIsCounted
    BY AnswersInPlace, RetriesAreRight
  <2> QED
    BY <2>1, <2>2 DEF CallsAccountedFor
<1> QED
  BY <1>1, CallsInvHolds, PTL

=============================================================================
