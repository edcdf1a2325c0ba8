----------------------------- MODULE InboxScreen -----------------------------
(***************************************************************************)
(* "A confirmer": the entry photos that wait for a decision, as            *)
(* AConfirmerPage shows them on each phone.  The list is asked for again   *)
(* every 10 s and after every decision; an answer may be older than a      *)
(* decision, and the answer to a decision may be lost.                     *)
(***************************************************************************)
EXTENDS Naturals, FiniteSets

CONSTANTS
  Pages,    \* visits of the page, on any phone
  Snaps,    \* the entry photos
  MaxVisit  \* bound: keys a visit draws for a photo

ASSUME InboxScreenAssumption == MaxVisit \in Nat

VARIABLES
  label,     \* what the reading of each photo gave
  entered,   \* the key of the movement of each photo, NoEntry without one
  dismissed, \* photos put aside for good
  page,      \* what each visit shows and has done
  decision   \* the decision each visit waits to hear of

inboxVars == <<label, entered, dismissed, page, decision>>

NoEntry == [by |-> {}, n |-> 0]
Undecided == [of |-> {}, done |-> {}]
Unopened == [fetching |-> FALSE, answer |-> {}, drawn |-> [p \in Snaps |-> 0], rows |-> {}, failed |-> {}, handled |-> {}]

InboxTypeOK ==
  /\ label \in [Snaps -> {"waiting", "read", "unreadable"}]
  /\ entered \in [Snaps -> [by : SUBSET Pages, n : 0..MaxVisit]]
  /\ dismissed \subseteq Snaps
  /\ page \in [Pages -> [fetching : BOOLEAN, answer : SUBSET Snaps, drawn : [Snaps -> 0..MaxVisit],
                         rows : SUBSET Snaps, failed : SUBSET Snaps, handled : SUBSET Snaps]]
  /\ decision \in [Pages -> [of : SUBSET Snaps, done : SUBSET Snaps]]

-----------------------------------------------------------------------------
(* The api *)

\* entryInbox, toConfirm: read, in no movement, not put aside.
ToConfirm == {p \in Snaps : label[p] # "waiting" /\ entered[p] = NoEntry /\ p \notin dismissed}

\* A worker reads a label.
ReadLabel(p) ==
  /\ label[p] = "waiting"
  /\ \E l \in {"read", "unreadable"} : label' = [label EXCEPT ![p] = l]
  /\ UNCHANGED <<entered, dismissed, page, decision>>

-----------------------------------------------------------------------------
(* The page *)

\* getEntryInbox leaves, and is answered as the cellar is then.
Fetch(v) ==
  /\ ~ page[v].fetching
  /\ page' = [page EXCEPT ![v].fetching = TRUE, ![v].answer = ToConfirm]
  /\ UNCHANGED <<label, entered, dismissed, decision>>

\* The photos of an answer that get a row: read, and not decided in this visit.
Listed(v) == {p \in page[v].answer \ page[v].handled : label[p] = "read"}

\* The answer arrives: rows are merged by photo, and a new one draws its key.
Arrive(v) ==
  /\ page[v].fetching
  /\ \A p \in Listed(v) \ page[v].rows : page[v].drawn[p] < MaxVisit
  /\ page' = [page EXCEPT ![v] = [@ EXCEPT
       !.fetching = FALSE, !.answer = {}, !.rows = Listed(v), !.failed = {p \in page[v].answer : label[p] = "unreadable"},
       !.drawn = [p \in Snaps |-> page[v].drawn[p] + (IF p \in Listed(v) \ page[v].rows THEN 1 ELSE 0)]]]
  /\ UNCHANGED <<label, entered, dismissed, decision>>

\* rowProblem, and what is set aside: the owner corrects a row, or sets it aside, as
\* they like, so any of the rows may be ready.
Ready(v) == SUBSET page[v].rows

\* The buttons: "Valider" on a row that is ready, "Tout valider" for all that are.
Offered(v) == Ready(v) \ {{}}

\* "Lecture impossible", and every row: what may be put aside for good.
Dismissable(v) == page[v].rows \union (page[v].failed \ page[v].handled)

\* validate: each row is entered under its key, or refused; a photo already entered
\* is answered with its movement.
Validate(v, sel, refusals) ==
  /\ decision[v] = Undecided
  /\ sel \in Offered(v)
  /\ refusals \subseteq {p \in sel : entered[p] = NoEntry}
  /\ entered' = [p \in Snaps |->
       IF p \in sel \ refusals /\ entered[p] = NoEntry THEN [by |-> {v}, n |-> page[v].drawn[p]] ELSE entered[p]]
  /\ decision' = [decision EXCEPT ![v] = [of |-> sel, done |-> sel \ refusals]]
  /\ UNCHANGED <<label, dismissed, page>>

\* dismiss, of a row or of an unreadable photo: refused once it is entered.
Dismiss(v, p) ==
  /\ decision[v] = Undecided
  /\ p \in Dismissable(v)
  /\ dismissed' = IF entered[p] = NoEntry THEN dismissed \union {p} ELSE dismissed
  /\ decision' = [decision EXCEPT ![v] = [of |-> {p}, done |-> IF entered[p] = NoEntry THEN {p} ELSE {}]]
  /\ UNCHANGED <<label, entered, page>>

\* The answer: what is done leaves the page, what is refused stays as it is.
Decided(v) ==
  /\ decision[v] # Undecided
  /\ page' = [page EXCEPT ![v].handled = @ \union decision[v].done, ![v].rows = @ \ decision[v].done]
  /\ decision' = [decision EXCEPT ![v] = Undecided]
  /\ UNCHANGED <<label, entered, dismissed>>

\* It is lost: the page says so, the rows keep their keys.
DecisionLost(v) ==
  /\ decision[v] # Undecided
  /\ decision' = [decision EXCEPT ![v] = Undecided]
  /\ UNCHANGED <<label, entered, dismissed, page>>

InboxInit ==
  /\ label = [p \in Snaps |-> "waiting"]
  /\ entered = [p \in Snaps |-> NoEntry]
  /\ dismissed = {}
  /\ page = [v \in Pages |-> Unopened]
  /\ decision = [v \in Pages |-> Undecided]

InboxStep ==
  \/ \E p \in Snaps : ReadLabel(p)
  \/ \E v \in Pages :
       \/ Fetch(v) \/ Arrive(v) \/ Decided(v) \/ DecisionLost(v)
       \/ \E sel \in SUBSET Snaps : \E refusals \in SUBSET sel : Validate(v, sel, refusals)
       \/ \E p \in Snaps : Dismiss(v, p)

-----------------------------------------------------------------------------
(* Properties *)

\* In a visit a photo has one key, whatever answers were under way when it was
\* decided, lost or decided from another phone: what is sent again is replayed, and
\* what is decided does not come back (AConfirmerPage.tsx:66-69).
OneKeyPerVisit ==
  \A v \in Pages, p \in Snaps : page[v].drawn[p] <= 1 /\ ~ (p \in page[v].rows /\ p \in page[v].handled)
=============================================================================
