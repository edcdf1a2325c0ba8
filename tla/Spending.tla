------------------------------ MODULE Spending ------------------------------
(***************************************************************************)
(* The monthly cap on what Gemini costs and those it holds back: readings  *)
(* of exit photos by the workers, lots of pairings, and image searches of  *)
(* the api, which Open Food Facts, a Google search and a deadline share.   *)
(* Each looks at what the tables say was spent, calls, and writes its cost *)
(* afterwards: others do the same in between.                              *)
(***************************************************************************)
EXTENDS Naturals, FiniteSets, FiniteSetsExt

CONSTANTS
  Caves,      \* cellars
  Main,       \* the one the shares spare: the main administrator's
  Photos,     \* exit photos
  Wines,      \* wines whose pairings are asked for
  CaveOf,     \* cellar of each photo and wine
  Searches,   \* image searches at the same time
  Cap,        \* VISION_MONTHLY_CAP_CENTS
  SharedCap,  \* cap times PAIRING_BUDGET_SHARE
  CaveCap,    \* cap times the share of a cellar
  InvitedCap, \* cap times the share of the invited cellars
  PhotoCost,  \* what the reading of a photo costs
  LotCost,    \* what a wine's pairings cost, when that is not rounded to nothing
  SearchCost, \* the most a search costs
  Estimate    \* ABORTED_CALL_COST_CENTS

ASSUME SpendingAssumption ==
  /\ \A S \in {Caves, Photos, Wines, Searches} : IsFiniteSet(S)
  /\ Searches # {} /\ Main \in Caves /\ CaveOf \in [Photos \union Wines -> Caves]
  /\ {Cap, SharedCap, CaveCap, InvitedCap, LotCost, Estimate} \subseteq Nat
  /\ {PhotoCost, SearchCost} \subseteq Nat \ {0} /\ SharedCap <= Cap

VARIABLES
  month,    \* the current month
  paused,   \* Gemini's common pause
  photo,    \* each photo: how far its reading is, month of its row, cost written
  pairing,  \* each wine's pairings: how far they are, month and cost of the row
  searched, \* cents of the rows the searches of this month wrote, by cellar
  search,   \* each image search
  billed,   \* cents of the searches Gemini billed this month
  unsaid    \* history: those of them nobody is left to write down

spendVars == <<month, paused, photo, pairing, searched, search, billed, unsaid>>

Idle == [at |-> "idle", cave |-> Main, warned |-> FALSE, late |-> FALSE, cost |-> 0]

SpendingTypeOK ==
  /\ month \in Nat /\ paused \in BOOLEAN
  /\ photo \in [Photos -> [at : {"absent", "waiting", "reading", "answered", "done", "failed"},
                           made : Nat, cost : {0, PhotoCost}]]
  /\ pairing \in [Wines -> [at : {"waiting", "asking"}, made : Nat, cost : {0, LotCost}]]
  /\ searched \in [Caves -> Nat]
  /\ search \in [Searches -> [at : {"idle", "off", "global", "share", "call", "sent", "record", "estimate", "site"},
                              cave : Caves, warned : BOOLEAN, late : BOOLEAN, cost : 0..SearchCost]]
  /\ billed \in Nat /\ unsaid \in Nat

-----------------------------------------------------------------------------
(* What the tables say *)

PhotosMade(caves)   == {p \in Photos : photo[p].made = month /\ CaveOf[p] \in caves}
PairingsMade(caves) == {w \in Wines : pairing[w].made = month /\ CaveOf[w] \in caves}

Total(rows, set) == MapThenSumSet(LAMBDA x : rows[x].cost, set)

Searched(caves) == MapThenSumSet(LAMBDA c : searched[c], caves)

\* What the caps are compared with, but for the pairings.
SpentOn(caves) == Total(photo, PhotosMade(caves)) + Searched(caves)

\* Mutant: the searches are left out of the sum.
SpentButSearches(caves) == Total(photo, PhotosMade(caves)) + Total(pairing, PairingsMade(caves))

\* spentThisMonthCents, spentInCaves.
Spent(caves) == SpentOn(caves) + Total(pairing, PairingsMade(caves))

UnderShare(limit) == Spent(Caves) < limit

CaveUnderShare(c) == c = Main \/ (Spent({c}) < CaveCap /\ Spent(Caves \ {Main}) < InvitedCap)

-----------------------------------------------------------------------------
(* Exit photos *)

Upload(p) ==
  /\ photo[p].at = "absent"
  /\ photo' = [photo EXCEPT ![p] = [at |-> "waiting", made |-> month, cost |-> 0]]
  /\ UNCHANGED <<month, paused, pairing, searched, search, billed, unsaid>>

\* Both limits are looked at before the photo is sent; a photo refused waits.
CheckPhoto(p) ==
  /\ photo[p].at = "waiting" /\ ~ paused
  /\ UnderShare(Cap) /\ CaveUnderShare(CaveOf[p])
  /\ photo' = [photo EXCEPT ![p].at = "reading"]
  /\ UNCHANGED <<month, paused, pairing, searched, search, billed, unsaid>>

PhotoAnswered(p) ==
  /\ photo[p].at = "reading"
  /\ photo' = [photo EXCEPT ![p].at = "answered"]
  /\ UNCHANGED <<month, paused, pairing, searched, search, billed, unsaid>>

\* Gemini refuses, or the network fails: nothing is owed, the photo waits again.
PhotoRefused(p) ==
  /\ photo[p].at = "reading"
  /\ photo' = [photo EXCEPT ![p].at = "waiting"]
  /\ paused' \in {paused, TRUE}
  /\ UNCHANGED <<month, pairing, searched, search, billed, unsaid>>

RecordPhoto(p) ==
  /\ photo[p].at = "answered"
  /\ photo' = [photo EXCEPT ![p] = [@ EXCEPT !.at = "done", !.cost = PhotoCost]]
  /\ UNCHANGED <<month, paused, pairing, searched, search, billed, unsaid>>

\* The answer cannot be read: the failure keeps no cost, though the error has it.
FailPhoto(p) ==
  /\ photo[p].at = "answered"
  /\ photo' = [photo EXCEPT ![p].at = "failed"]
  /\ UNCHANGED <<month, paused, pairing, searched, search, billed, unsaid>>

-----------------------------------------------------------------------------
(* Lots of pairings *)

\* The share of the lots, once a lot; a cellar's own share is not looked at.
CheckLot(w) ==
  /\ pairing[w].at = "waiting" /\ ~ paused
  /\ UnderShare(SharedCap)
  /\ pairing' = [pairing EXCEPT ![w].at = "asking"]
  /\ UNCHANGED <<month, paused, photo, searched, search, billed, unsaid>>

\* A new generation of the same pairings takes the place of the cost before.
SaveLot(w) ==
  /\ pairing[w].at = "asking"
  /\ \E cost \in {0, LotCost} :
       pairing' = [pairing EXCEPT ![w] = [at |-> "waiting", made |-> month, cost |-> cost]]
  /\ UNCHANGED <<month, paused, photo, searched, search, billed, unsaid>>

-----------------------------------------------------------------------------
(* Image searches *)

Goes(s, at) == search' = [search EXCEPT ![s].at = at]
Ends(s)     == search' = [search EXCEPT ![s] = Idle]

\* The pause is read before the clock starts.
StartSearch(s) ==
  /\ search[s].at = "idle"
  /\ \E c \in Caves : search' = [search EXCEPT ![s] = [Idle EXCEPT !.at = "off", !.cave = c, !.warned = paused]]
  /\ UNCHANGED <<month, paused, photo, pairing, searched, billed, unsaid>>

Running(s) == search[s].at # "idle"

Deadline(s) ==
  /\ Running(s) /\ ~ search[s].late
  /\ search' = [search EXCEPT ![s].late = TRUE]
  /\ UNCHANGED <<month, paused, photo, pairing, searched, billed, unsaid>>

\* Open Food Facts has answered, in time: with images that could be kept, or not.
OffAnswers(s) ==
  /\ search[s].at = "off" /\ ~ search[s].late
  /\ \E kept \in BOOLEAN :
       IF kept \/ search[s].warned THEN Ends(s) ELSE Goes(s, "global")
  /\ UNCHANGED <<month, paused, photo, pairing, searched, billed, unsaid>>

\* Mutant: the search waits for Open Food Facts however long it takes.
OffWaits(s) == FALSE

\* Too late: the images kept so far, or 503.
OffLate(s) ==
  /\ search[s].at = "off" /\ search[s].late
  /\ Ends(s)
  /\ UNCHANGED <<month, paused, photo, pairing, searched, billed, unsaid>>

CheckGlobal(s) ==
  /\ search[s].at = "global"
  /\ IF UnderShare(SharedCap) THEN Goes(s, "share") ELSE Ends(s)
  /\ UNCHANGED <<month, paused, photo, pairing, searched, billed, unsaid>>

CheckShare(s) ==
  /\ search[s].at = "share"
  /\ IF CaveUnderShare(search[s].cave) THEN Goes(s, "call") ELSE Ends(s)
  /\ UNCHANGED <<month, paused, photo, pairing, searched, billed, unsaid>>

\* The provider looks at the pause again.  Once the clock has run out, the call
\* is given up even when it had not left yet, and counted as if it had.
Call(s) ==
  /\ search[s].at = "call"
  /\ IF search[s].late THEN Goes(s, "estimate") ELSE IF paused THEN Ends(s) ELSE Goes(s, "sent")
  /\ UNCHANGED <<month, paused, photo, pairing, searched, billed, unsaid>>

SearchAnswered(s) ==
  /\ search[s].at = "sent" /\ ~ search[s].late
  /\ \E cost \in 1..SearchCost :
       /\ search' = [search EXCEPT ![s].at = "record", ![s].cost = cost]
       /\ billed' = billed + cost
  /\ UNCHANGED <<month, paused, photo, pairing, searched, unsaid>>

SearchRefused(s) ==
  /\ search[s].at = "sent" /\ ~ search[s].late
  /\ paused' \in {paused, TRUE}
  /\ Ends(s)
  /\ UNCHANGED <<month, photo, pairing, searched, billed, unsaid>>

\* Mutant: a call given up is not counted.
AbandonFreely(s) ==
  /\ search[s].at = "sent" /\ search[s].late
  /\ \E cost \in 0..SearchCost : billed' = billed + cost
  /\ Ends(s)
  /\ UNCHANGED <<month, paused, photo, pairing, searched, unsaid>>

\* Given up at the deadline: Gemini may bill it all the same, for as much as it
\* likes, of which the estimate is what will be written.
Abandon(s) ==
  /\ search[s].at = "sent" /\ search[s].late
  /\ \E cost \in 0..SearchCost :
       /\ billed' = billed + cost
       /\ unsaid' = unsaid + (IF cost > Estimate THEN cost - Estimate ELSE 0)
       /\ search' = [search EXCEPT ![s].at = "estimate", ![s].cost = IF cost < Estimate THEN cost ELSE Estimate]
  /\ UNCHANGED <<month, paused, photo, pairing, searched>>

RecordSearch(s) ==
  /\ search[s].at = "record"
  /\ searched' = [searched EXCEPT ![search[s].cave] = @ + search[s].cost]
  /\ search' = [search EXCEPT ![s].at = "site", ![s].cost = 0]
  /\ UNCHANGED <<month, paused, photo, pairing, billed, unsaid>>

RecordEstimate(s) ==
  /\ search[s].at = "estimate"
  /\ searched' = [searched EXCEPT ![search[s].cave] = @ + Estimate]
  /\ Ends(s)
  /\ UNCHANGED <<month, paused, photo, pairing, billed, unsaid>>

\* The domain's page and its images, or the deadline.
ReadSite(s) ==
  /\ search[s].at = "site" /\ ~ search[s].late
  /\ Ends(s)
  /\ UNCHANGED <<month, paused, photo, pairing, searched, billed, unsaid>>

SiteLate(s) ==
  /\ search[s].at = "site" /\ search[s].late
  /\ Ends(s)
  /\ UNCHANGED <<month, paused, photo, pairing, searched, billed, unsaid>>

-----------------------------------------------------------------------------
(* The rest of the world *)

PauseEnds ==
  /\ paused /\ paused' = FALSE
  /\ UNCHANGED <<month, photo, pairing, searched, search, billed, unsaid>>

\* A search's rows are dated when they are written, an answer when it comes.
NextMonth ==
  /\ month' = month + 1
  /\ searched' = [c \in Caves |-> 0]
  /\ billed' = 0 /\ unsaid' = 0
  /\ UNCHANGED <<paused, photo, pairing, search>>

\* The api stops in the middle of a search, and with it what it was to write.
ApiStops ==
  /\ search' = [s \in Searches |-> Idle]
  /\ unsaid' = unsaid + MapThenSumSet(LAMBDA s : search[s].cost, Searches)
  /\ \E s \in Searches : Running(s)
  /\ UNCHANGED <<month, paused, photo, pairing, searched, billed>>

SpendingInit ==
  /\ month = 1 /\ paused = FALSE
  /\ photo = [p \in Photos |-> [at |-> "absent", made |-> 0, cost |-> 0]]
  /\ pairing = [w \in Wines |-> [at |-> "waiting", made |-> 0, cost |-> 0]]
  /\ searched = [c \in Caves |-> 0]
  /\ search = [s \in Searches |-> Idle]
  /\ billed = 0 /\ unsaid = 0

\* What the api does by itself once a search is asked for, the clock included.
SearchGoesOn(s) ==
  \/ Deadline(s) \/ OffLate(s) \/ CheckGlobal(s) \/ CheckShare(s) \/ Call(s) \/ Abandon(s)
  \/ RecordSearch(s) \/ RecordEstimate(s) \/ SiteLate(s)

\* What somebody else decides: Open Food Facts, Gemini, the domain's site.
ThirdParty(s) == OffAnswers(s) \/ SearchAnswered(s) \/ SearchRefused(s) \/ ReadSite(s)

ReadingStep(p) ==
  \/ Upload(p) \/ CheckPhoto(p) \/ PhotoAnswered(p) \/ PhotoRefused(p) \/ RecordPhoto(p) \/ FailPhoto(p)

SpendingStep ==
  \/ \E p \in Photos : ReadingStep(p)
  \/ \E w \in Wines : CheckLot(w) \/ SaveLot(w)
  \/ \E s \in Searches : SearchGoesOn(s) \/ ThirdParty(s)
  \/ PauseEnds

-----------------------------------------------------------------------------
(* Properties *)

Most == [photo |-> PhotoCost * Cardinality(Photos),
         lot |-> LotCost * Cardinality(Wines),
         search |-> Max({SearchCost, Estimate}) * Cardinality(Searches)]

\* Whoever calls looked first: those who looked together may pass what they looked at
\* by what they cost, a call each, and nothing more -- the month's cap, of all of them;
\* the share of lots and searches, which leaves the rest to photos; the share of each
\* cellar that was invited and that of all of them, of photos and searches, for lots of
\* pairings do not ask (vision-budget.service.ts:7, 76-93, 130-148).
CapsPassedByCallsInFlight ==
  LET invited == Caves \ {Main}
      lots == Total(pairing, PairingsMade(Caves))
      flight(caves) == Most.search + PhotoCost * Cardinality({p \in Photos : CaveOf[p] \in caves})
  IN
  /\ SpentOn(Caves) + lots < Cap + Most.photo + Most.lot + Most.search
  /\ lots + Searched(Caves) < SharedCap + Most.lot + Most.search
  /\ \A c \in invited : SpentOn({c}) < CaveCap + flight({c})
  /\ SpentOn(invited) < InvitedCap + flight(invited)

\* What Gemini billed for searches is in the table, but for the calls whose answer
\* is still to be written and those nobody is left to write: given up for more
\* than the estimate, or lost when the api stopped
\* (image-search.service.ts:248-258).
SearchesCounted ==
  Searched(Caves) + MapThenSumSet(LAMBDA s : search[s].cost, Searches) + unsaid >= billed

\* A search ends, whatever the third parties it asks do: the deadline sees to it
\* (image-search.service.ts:41-44, 94-96).
SearchEnds == \A s \in Searches : Running(s) ~> ~ Running(s)
=============================================================================
