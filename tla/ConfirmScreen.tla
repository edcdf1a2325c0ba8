--------------------------- MODULE ConfirmScreen ---------------------------
(***************************************************************************)
(* The page that follows an entry photo (EntreeConfirmationPage): it asks  *)
(* for the photo, listens to its events, fills the draft with the reading  *)
(* or lets the user type, and confirms the entry.  The worker reads the    *)
(* photo meanwhile, answers may be late or lost, and a confirmation sent   *)
(* again may meet the first one.  The row keeps the draft and whether the  *)
(* photo was read, from which the share of corrected fields is measured.   *)
(***************************************************************************)
EXTENDS Naturals, FiniteSets

CONSTANTS
  LabelReadings, \* field -> value read, Null when it could not be
  TypedValues,   \* field -> values a user types
  Null,
  MaxOpened,     \* bound: times the page is opened
  MaxTaps        \* bound: confirmations sent by one page

READ_FIELDS == {"producer", "color"}

ASSUME ConfirmScreenAssumption ==
  /\ \A r \in LabelReadings : DOMAIN r = READ_FIELDS
  /\ DOMAIN TypedValues = READ_FIELDS
  /\ MaxOpened \in Nat /\ MaxTaps \in Nat

VARIABLES
  capture,   \* the photo's row: its status, whether it has a reason, its reading
  card,    \* the page
  answers, \* of the photo and of the events, on their way
  sends,   \* confirmations on their way or being handled
  entries  \* movements, by opening of the page: its idempotency key

confirmVars == <<capture, card, answers, sends, entries>>

NoReading == [f \in READ_FIELDS |-> Null]
Defaults == [f \in READ_FIELDS |-> IF f = "color" THEN "ROUGE" ELSE ""]
NotMade == [made |-> FALSE, draft |-> Defaults, shown |-> FALSE, proposed |-> {}]

ConfirmTypeOK ==
  /\ capture.status \in {"PENDING", "PROCESSING", "DONE", "FAILED"} /\ capture.reading \in LabelReadings \union {NoReading}
  /\ card.opened \in 0..MaxOpened /\ card.taps \in 0..MaxTaps
  /\ \A s \in sends : s.key \in 1..MaxOpened
  /\ \A k \in 1..MaxOpened : Cardinality(entries[k].proposed) <= 1

\* A page just opened; stream: "none", "asked", "open" or "closed".
Fresh(n) ==
  [opened |-> n, status |-> "PENDING", reason |-> FALSE, draft |-> Defaults, proposed |-> {},
   manual |-> FALSE, late |-> FALSE, stream |-> "none", taps |-> 0, submitting |-> FALSE, result |-> FALSE]

ConfirmInit ==
  /\ capture = [status |-> "PENDING", reason |-> FALSE, reading |-> NoReading]
  /\ card = Fresh(0) /\ answers = {} /\ sends = {}
  /\ entries = [k \in 1..MaxOpened |-> NotMade]

-----------------------------------------------------------------------------
(* The worker *)

TakeUpLabel ==
  /\ capture.status = "PENDING" /\ capture' = [capture EXCEPT !.status = "PROCESSING"]
  /\ UNCHANGED <<card, answers, sends, entries>>

ReadLabelOnce ==
  /\ capture.status = "PROCESSING"
  /\ \/ \E r \in LabelReadings : capture' = [status |-> "DONE", reason |-> FALSE, reading |-> r]
     \/ \E s \in {"PENDING", "FAILED"} : capture' = [capture EXCEPT !.status = s, !.reason = TRUE]
  /\ UNCHANGED <<card, answers, sends, entries>>

-----------------------------------------------------------------------------
(* The page *)

\* extractionToDraft
ExtractionToDraft(reading) == [f \in READ_FIELDS |-> IF reading[f] = Null THEN Defaults[f] ELSE reading[f]]

OpenCard ==
  /\ card.opened < MaxOpened
  /\ card' = Fresh(card.opened + 1)
  /\ answers' = {[kind |-> "photo", row |-> {}]}
  /\ UNCHANGED <<capture, sends, entries>>

\* The photo as it is, for getPhoto or for the first event of the stream; an entry photo
\* has no job of its own, no event follows.
AnswerPhoto ==
  \E a \in answers :
    /\ a.row = {} /\ answers' = (answers \ {a}) \union {[a EXCEPT !.row = {capture}]}
    /\ UNCHANGED <<capture, card, sends, entries>>

\* What the page shows once told the row: a reading fills the draft, over what was typed.
Told(row) ==
  LET told == [card EXCEPT !.status = row.status, !.reason = row.reason]
  IN IF row.status = "DONE"
     THEN [told EXCEPT !.draft = ExtractionToDraft(row.reading), !.proposed = {ExtractionToDraft(row.reading)}] ELSE told

\* useEffect of the photo: then the events are listened to, unless the reading failed.
PhotoTold ==
  \E a \in answers : \E row \in a.row :
    /\ a.kind = "photo"
    /\ card' = [Told(row) EXCEPT !.stream = IF row.status = "FAILED" THEN "none" ELSE "asked"]
    /\ answers' = (answers \ {a}) \union (IF row.status = "FAILED" THEN {} ELSE {[kind |-> "event", row |-> {}]})
    /\ UNCHANGED <<capture, sends, entries>>

PhotoUntold ==
  \E a \in answers :
    /\ a.kind = "photo" /\ answers' = answers \ {a}
    /\ card' = [card EXCEPT !.status = "FAILED", !.reason = TRUE]
    /\ UNCHANGED <<capture, sends, entries>>

\* subscribePhotoEvents: closed by the last event.
EventTold ==
  \E a \in answers : \E row \in a.row :
    /\ a.kind = "event" /\ answers' = answers \ {a}
    /\ card' = [Told(row) EXCEPT !.stream = IF row.status \in {"DONE", "FAILED"} THEN "closed" ELSE "open"]
    /\ UNCHANGED <<capture, sends, entries>>

StreamCut ==
  /\ card.stream \in {"asked", "open"}
  /\ card' = [card EXCEPT !.stream = "closed", !.late = TRUE, !.reason = TRUE]
  /\ answers' = {a \in answers : a.kind = "photo"}
  /\ UNCHANGED <<capture, sends, entries>>

\* DEFER_NOTICE_MS
GetLate ==
  /\ card.opened > 0 /\ ~ card.late /\ card' = [card EXCEPT !.late = TRUE]
  /\ UNCHANGED <<capture, answers, sends, entries>>

Waited == card.status \in {"PENDING", "PROCESSING"}
Deferred == ~ card.manual /\ Waited /\ (card.late \/ card.reason)

TypeByHand ==
  /\ card.opened > 0 /\ (Deferred \/ (~ card.manual /\ card.status = "FAILED"))
  /\ card' = [card EXCEPT !.manual = TRUE]
  /\ UNCHANGED <<capture, answers, sends, entries>>

Form == card.opened > 0 /\ ~ card.result /\ (card.status = "DONE" \/ card.manual)

EditField ==
  \E f \in READ_FIELDS : \E v \in TypedValues[f] :
    /\ Form /\ card.draft[f] # v /\ card' = [card EXCEPT !.draft[f] = v]
    /\ UNCHANGED <<capture, answers, sends, entries>>

\* confirm: one key for the page, the draft of the moment.
ConfirmTap ==
  /\ Form /\ ~ card.submitting /\ card.taps < MaxTaps /\ card.draft["producer"] # ""
  /\ card' = [card EXCEPT !.submitting = TRUE, !.taps = @ + 1]
  /\ sends' = sends \union {[key |-> card.opened, tap |-> card.taps + 1, draft |-> card.draft,
                             proposed |-> card.proposed, read |-> "none"]}
  /\ UNCHANGED <<capture, answers, entries>>

\* The phone gives up; the request goes on.
ConfirmLost ==
  /\ card.submitting /\ card' = [card EXCEPT !.submitting = FALSE]
  /\ UNCHANGED <<capture, answers, sends, entries>>

-----------------------------------------------------------------------------
(* createIn *)

\* The answer shows the movement there is, if the page still waits for it.
ShowResult(s) ==
  IF s.key = card.opened /\ s.tap = card.taps /\ card.submitting
  THEN [card EXCEPT !.submitting = FALSE, !.result = TRUE] ELSE card

\* readingShown
ReadingShown(status) == IF status = "DONE" THEN "shown" ELSE "unseen"

\* The key is looked for, then the photo is read.
CheckEntry ==
  \E s \in sends :
    /\ s.read = "none"
    /\ IF entries[s.key].made
       THEN sends' = sends \ {s} /\ card' = ShowResult(s)
       ELSE sends' = (sends \ {s}) \union {[s EXCEPT !.read = ReadingShown(capture.status)]} /\ UNCHANGED card
    /\ UNCHANGED <<capture, answers, entries>>

\* The movement is inserted, or the key was taken meanwhile.
WriteEntry ==
  \E s \in sends :
    /\ s.read # "none" /\ sends' = sends \ {s} /\ card' = ShowResult(s)
    /\ entries' = IF entries[s.key].made THEN entries
                  ELSE [entries EXCEPT ![s.key] = [made |-> TRUE, draft |-> s.draft, shown |-> s.read = "shown",
                                                   proposed |-> s.proposed]]
    /\ UNCHANGED <<capture, answers>>

ConfirmStep ==
  \/ TakeUpLabel \/ ReadLabelOnce
  \/ OpenCard \/ AnswerPhoto \/ PhotoTold \/ PhotoUntold \/ EventTold \/ StreamCut \/ GetLate
  \/ TypeByHand \/ EditField \/ ConfirmTap \/ ConfirmLost
  \/ CheckEntry \/ WriteEntry

-----------------------------------------------------------------------------
(* Reading quality *)

\* Mutant: the measure proposes no colour of its own.
PrefillBare(reading) == [f \in READ_FIELDS |-> IF reading[f] = Null THEN "" ELSE reading[f]]

\* prefill: what the screen is held to have proposed.
Prefill(reading) == [f \in READ_FIELDS |-> IF reading[f] = Null THEN Defaults[f] ELSE reading[f]]

\* correctedFields, of a row: the reading counts only if it was shown.
Corrected(entry) ==
  LET proposed == Prefill(IF entry.shown THEN capture.reading ELSE NoReading)
  IN {f \in READ_FIELDS : proposed[f] # entry.draft[f]}

\* When the page filled the draft with the reading, the fields counted as corrected are
\* those the user changed, whatever was read, sent again or answered in between
\* (EntreeConfirmationPage.tsx:61-140, movements.service.ts:128-148, reading-quality.ts:38-41).
CorrectionsAreTheUsers ==
  \A k \in 1..MaxOpened : entries[k].made => \A proposed \in entries[k].proposed :
    Corrected(entries[k]) = {f \in READ_FIELDS : entries[k].draft[f] # proposed[f]}
=============================================================================
