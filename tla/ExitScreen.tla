----------------------------- MODULE ExitScreen -----------------------------
(***************************************************************************)
(* Taking a bottle out from a screen of the web application: the page that *)
(* follows an exit photo (SortieResolutionPage) or a wine's own page, and  *)
(* the confirmation they show (SortieConfirmation).  The api's answers may *)
(* be lost, a confirmation may be left for another wine, and the same      *)
(* photo may be open on two phones.  The api's handlers are one step here: *)
(* their interleavings are those of Movements.                             *)
(***************************************************************************)
EXTENDS Naturals, FiniteSets, Functions

CONSTANTS
  Screens,   \* the phones
  Bottles,   \* the wines the label may be, with the bottles there are at first
  MaxKeys,   \* bound: confirmations shown
  NoWine

ASSUME ExitScreenAssumption ==
  DOMAIN Bottles # {} /\ NoWine \notin DOMAIN Bottles /\ MaxKeys \in Nat

VARIABLES
  exits,     \* the withdrawals of the journal, by key
  screen,    \* what each phone shows
  asked,     \* the withdrawal each phone waits for
  drawn      \* keys drawn so far

exitScreenVars == <<exits, screen, asked, drawn>>

Wine == DOMAIN Bottles

Closed == [from |-> "none", data |-> {}, settled |-> FALSE, pinned |-> {}, chosen |-> NoWine,
           key |-> 0, sending |-> FALSE, result |-> 0, exited |-> FALSE]

NoRequest == [key |-> 0, wine |-> NoWine, answer |-> 0]

ExitScreenTypeOK ==
  /\ exits \in [1..MaxKeys -> [wine : Wine \union {NoWine}, qty : 0..2, photo : BOOLEAN,
                               from : {"none", "photo", "page"}, back : BOOLEAN]]
  /\ screen \in [Screens -> [from : {"none", "photo", "page"}, data : SUBSET Wine, settled : BOOLEAN,
       pinned : SUBSET Wine, chosen : Wine \union {NoWine}, key : 0..MaxKeys, sending : BOOLEAN,
       result : 0..MaxKeys, exited : BOOLEAN]]
  /\ asked \in [Screens -> [key : 0..MaxKeys, wine : Wine \union {NoWine}, answer : 0..MaxKeys]]
  /\ drawn \in 0..MaxKeys

Written(k) == exits[k].wine # NoWine

Out(w) == {k \in 1..MaxKeys : exits[k].wine = w /\ ~ exits[k].back}

Left(w) == Bottles[w] - FoldFunctionOnSet(+, 0, [k \in 1..MaxKeys |-> exits[k].qty], Out(w))

-----------------------------------------------------------------------------
(* The api *)

\* The withdrawals that carry the photo.
ByPhoto == {k \in 1..MaxKeys : Written(k) /\ exits[k].photo}

\* Mutant: the photo that already took a bottle out is not looked for.
PlanByKey(k, w, photo) == IF Written(k) THEN IF exits[k].wine = w THEN "replay" ELSE "refuse" ELSE "write"

\* planOut: what becomes of a withdrawal of w under key k.
Plan(k, w, photo) ==
  IF Written(k) THEN IF exits[k].wine = w THEN "replay" ELSE "refuse"
  ELSE IF ~ photo \/ ByPhoto = {} THEN "write"
  ELSE IF \A o \in ByPhoto : exits[o].back THEN "write alone"
  ELSE IF \A o \in ByPhoto : exits[o].wine = w THEN "replay photo" ELSE "refuse"

Replayed(plan, k) == IF plan = "replay" THEN k ELSE CHOOSE o \in ByPhoto : TRUE

\* createOut: the withdrawal answered with, 0 for a refusal, and the journal.
Withdraw(s, k, w, qty) ==
  LET plan == Plan(k, w, screen[s].from = "photo") IN
  \/ /\ plan \in {"replay", "replay photo"}
     /\ asked' = [asked EXCEPT ![s] = [key |-> k, wine |-> w, answer |-> Replayed(plan, k)]]
     /\ UNCHANGED exits
  \/ /\ plan \in {"write", "write alone"} /\ qty <= Left(w)
     /\ exits' = [exits EXCEPT ![k] =
          [wine |-> w, qty |-> qty, photo |-> plan = "write" /\ screen[s].from = "photo",
           from |-> screen[s].from, back |-> FALSE]]
     /\ asked' = [asked EXCEPT ![s] = [key |-> k, wine |-> w, answer |-> k]]
  \/ /\ plan = "refuse" \/ (plan \in {"write", "write alone"} /\ qty > Left(w))
     /\ asked' = [asked EXCEPT ![s] = [key |-> k, wine |-> w, answer |-> 0]]
     /\ UNCHANGED exits

-----------------------------------------------------------------------------
(* The page of an exit photo *)

\* The wines still in the cellar the label may be.
Candidates == {w \in Wine : Left(w) > 0}

\* Mutant: the page shows the last answer it got.
ShownLast(s) == screen[s].data

\* data: the first definitive answer, for as long as the page stays open.
Shown(s) == IF screen[s].settled THEN screen[s].pinned ELSE screen[s].data

Open(s, from) ==
  /\ screen[s].from = "none"
  /\ screen' = [screen EXCEPT ![s].from = from]
  /\ UNCHANGED <<exits, asked, drawn>>

\* The answer DONE of the poll, and the pinning of the first one.
Settle(s) ==
  /\ screen[s].from = "photo" /\ ~ screen[s].settled
  /\ screen' = [screen EXCEPT ![s].data = Candidates, ![s].settled = TRUE, ![s].pinned = Candidates]
  /\ UNCHANGED <<exits, asked, drawn>>

\* The network comes back: the query asks again, its answer is the query's, not the page's.
Reconnect(s) ==
  /\ screen[s].settled /\ screen[s].data # Candidates
  /\ screen' = [screen EXCEPT ![s].data = Candidates]
  /\ UNCHANGED <<exits, asked, drawn>>

\* The wine whose confirmation is on the screen.
OnScreen(s) ==
  IF screen[s].from = "photo" /\ Shown(s) = {} THEN NoWine
  ELSE screen[s].chosen

\* A wine is touched in the list, or is the only candidate, or has its page open:
\* its confirmation is shown, with a key of its own.
Choose(s, w) ==
  /\ screen[s].from = "page" \/ (screen[s].settled /\ w \in Shown(s))
  /\ screen[s].chosen = NoWine /\ drawn < MaxKeys
  /\ drawn' = drawn + 1
  /\ screen' = [screen EXCEPT ![s].chosen = w, ![s].key = drawn + 1, ![s].sending = FALSE, ![s].result = 0]
  /\ UNCHANGED <<exits, asked>>

\* "Choisir un autre millésime": until the exit is made.
ChooseAnother(s) ==
  /\ screen[s].from = "photo" /\ screen[s].chosen # NoWine
  /\ ~ screen[s].exited /\ Cardinality(Shown(s)) > 1
  /\ screen' = [screen EXCEPT ![s].chosen = NoWine, ![s].key = 0]
  /\ UNCHANGED <<exits, asked, drawn>>

\* The page is left, in the middle of anything; another may be opened.
Leave(s) ==
  /\ screen[s].from # "none"
  /\ screen' = [screen EXCEPT ![s] = Closed]
  /\ asked' = [asked EXCEPT ![s] = NoRequest]
  /\ UNCHANGED <<exits, drawn>>

-----------------------------------------------------------------------------
(* The confirmation *)

\* One key per confirmation shown.
KeyOf(s) == screen[s].key

\* The button "Sortir": no result is shown in its place, and no withdrawal awaited.
Tappable(s) == OnScreen(s) # NoWine /\ screen[s].result = 0 /\ ~ screen[s].sending

\* sortir (bound: a phone waits for one answer at a time).
Tap(s, qty) ==
  /\ Tappable(s)
  /\ asked[s].key = 0
  /\ Withdraw(s, KeyOf(s), screen[s].chosen, qty)
  /\ screen' = [screen EXCEPT ![s].sending = TRUE]
  /\ UNCHANGED drawn

\* The request never arrived: the lock is freed, the key stays.
TapLost(s) ==
  /\ screen[s].sending /\ asked[s].key # 0 /\ screen[s].key = asked[s].key
  /\ asked' = [asked EXCEPT ![s] = NoRequest]
  /\ screen' = [screen EXCEPT ![s].sending = FALSE]
  /\ UNCHANGED <<exits, drawn>>

\* The answer: a result, or an error that frees the lock.  A confirmation left
\* meanwhile shows nothing, the page is told of the exit all the same.
ExitAnswered(s) ==
  /\ asked[s].key # 0
  /\ asked' = [asked EXCEPT ![s] = NoRequest]
  /\ screen' = [screen EXCEPT ![s] =
       LET shown == screen[s] IN
       [shown EXCEPT !.exited = shown.exited \/ asked[s].answer # 0,
                     !.result = IF shown.key = asked[s].key THEN asked[s].answer ELSE shown.result,
                     !.sending = IF shown.key = asked[s].key THEN asked[s].answer # 0 ELSE shown.sending]]
  /\ UNCHANGED <<exits, drawn>>

\* annuler: the withdrawal shown goes back once, whoever asks; the answer may be lost.
Cancel(s) ==
  /\ screen[s].result # 0 /\ OnScreen(s) # NoWine
  /\ ~ exits[screen[s].result].back
  /\ exits' = [exits EXCEPT ![screen[s].result].back = TRUE]
  /\ UNCHANGED <<screen, asked, drawn>>

ExitScreenInit ==
  /\ exits = [k \in 1..MaxKeys |-> [wine |-> NoWine, qty |-> 0, photo |-> FALSE,
                              from |-> "none", back |-> FALSE]]
  /\ screen = [s \in Screens |-> Closed]
  /\ asked = [s \in Screens |-> NoRequest]
  /\ drawn = 0

ExitScreenStep ==
  \E s \in Screens :
    \/ \E from \in {"photo", "page"} : Open(s, from)
    \/ Settle(s) \/ Reconnect(s) \/ ChooseAnother(s) \/ Leave(s)
    \/ \E w \in Wine : Choose(s, w)
    \/ \E qty \in 1..2 : Tap(s, qty)
    \/ TapLost(s) \/ ExitAnswered(s) \/ Cancel(s)

-----------------------------------------------------------------------------
(* Properties *)

\* A photo takes one bottle out, on however many phones, however often it is tapped,
\* chosen again and left, as long as no exit is cancelled: its answers may be lost
\* (SortieConfirmation.tsx:12-14, movements.service.ts:336-345).
PhotoDebitsOnce ==
  (\A k \in 1..MaxKeys : ~ exits[k].back) => Cardinality({k \in 1..MaxKeys : exits[k].from = "photo"}) <= 1

\* A confirmation that shows an exit goes on showing it, with what cancels it, and it
\* is an exit of its own wine, although the last bottle of that wine may have left the
\* list meanwhile (SortieResolutionPage.tsx:31-36, movements.service.ts:367-372).
ResultStaysTruthful ==
  \A s \in Screens : screen[s].result # 0 => exits[screen[s].result].wine = OnScreen(s)
=============================================================================
