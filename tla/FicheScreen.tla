---------------------------- MODULE FicheScreen ----------------------------
(***************************************************************************)
(* The page of a wine, where its bottles are counted and moved, each in a  *)
(* section of its own that opens a form.  The page shows what it read      *)
(* last; bottles come and go meanwhile; the answer to a form may be lost   *)
(* and the form sent again, or put away and another one opened.            *)
(* Each of the api's handlers is one step (their own interleavings are in  *)
(* Movements).                                                             *)
(***************************************************************************)
EXTENDS Naturals, Sequences, FiniteSetsExt

CONSTANTS
  Racks,    \* locations
  NoRack,   \* "Sans emplacement"
  AtFirst,  \* bottles of the wine there are at first, by place
  MaxCount, \* bound: bottles counted, or there
  MaxForms, \* bound: forms opened
  MaxSends  \* bound: times forms are sent, in all

Spaces == Racks \union {NoRack}

ASSUME FicheScreenAssumption ==
  /\ NoRack \notin Racks /\ AtFirst \in [Spaces -> Nat]
  /\ {MaxCount, MaxForms, MaxSends} \subseteq Nat

VARIABLES
  bottles, \* in the cellar, by place
  written, \* movements the forms wrote: key, form, what was asked
  fiche,   \* what the page read last
  paper,   \* the form each section has open
  tickets, \* the requests on their way
  forms    \* history: each form opened, what it was last sent for, what it heard

ficheVars == <<bottles, written, fiche, paper, tickets, forms>>

Ops == {"count", "move"}
NoForm == 0
Nothing == [op |-> "none", from |-> NoRack, to |-> NoRack, n |-> 0]

Sum(place)     == MapThenSumSet(LAMBDA p : place[p], Spaces)
Stocked(place) == {p \in Spaces : place[p] > 0}

FicheInit ==
  /\ bottles = AtFirst /\ fiche = AtFirst
  /\ written = {} /\ forms = << >>
  /\ paper = [op \in Ops |-> NoForm] /\ tickets = {}

-----------------------------------------------------------------------------
(* The page *)

\* A wine without bottles has no section that moves them: its form goes, and the answer
\* to it will find none (orphan).
ReadFiche ==
  /\ fiche # bottles /\ fiche' = bottles
  /\ IF Sum(bottles) > 0 THEN UNCHANGED <<paper, tickets>>
     ELSE /\ paper' = [paper EXCEPT !["move"] = NoForm]
          /\ tickets' = {[t EXCEPT !.orphan = @ \/ t.asks.op = "move"] : t \in tickets}
  /\ UNCHANGED <<bottles, written, forms>>

\* A form draws its key when it opens.
OpenForm(op) ==
  /\ paper[op] = NoForm /\ Len(forms) < MaxForms
  /\ op = "move" => Sum(fiche) > 0
  /\ paper' = [paper EXCEPT ![op] = Len(forms) + 1]
  /\ forms' = Append(forms, [asks |-> Nothing, sends |-> 0, lost |-> FALSE, done |-> FALSE])
  /\ UNCHANGED <<bottles, written, fiche, tickets>>

\* A form put away leaves its request on its way.
PutAway(op) ==
  /\ paper[op] # NoForm
  /\ paper' = [paper EXCEPT ![op] = NoForm]
  /\ UNCHANGED <<bottles, written, fiche, tickets, forms>>

\* Mutant: a key each time the form is sent.
KeyOfSend(f) == f + MaxForms * forms[f].sends

KeyOfForm(f) == f

\* The page counts in one request at a time (saving), each form that moves bottles
\* waits for its own (busy).
Busy(op) == \E t \in tickets : t.asks.op = op /\ (op = "count" \/ t.form = paper[op])

\* Bound.
SentSoFar == MapThenSumSet(LAMBDA f : forms[f].sends, DOMAIN forms)

Send(asks) ==
  LET f == paper[asks.op] IN
  /\ f # NoForm /\ ~ Busy(asks.op) /\ SentSoFar < MaxSends
  /\ tickets' = tickets \union {[key |-> KeyOfForm(f), form |-> f, asks |-> asks, answer |-> "none", orphan |-> FALSE]}
  /\ forms' = [forms EXCEPT ![f].asks = asks, ![f].sends = @ + 1]
  /\ UNCHANGED <<bottles, written, fiche, paper>>

\* The button of the inventory, and the places it offers: whether bottles are missing,
\* and from where, is said from what the page shows.
Savable(counted, place) ==
  /\ counted # Sum(fiche)
  /\ counted < Sum(fiche) => place \in Stocked(fiche)

\* saveInventory
SaveInventory(counted, place) ==
  /\ Savable(counted, place)
  /\ Send([op |-> "count", from |-> place, to |-> place, n |-> counted])

\* The form that moves bottles: no more than the page shows at the place they leave, and
\* one from a place chosen when the page still showed some.
Movable(from, quantity) == quantity \in 1..(IF from \in Stocked(fiche) THEN fiche[from] ELSE 1)

\* submit
SubmitMove(from, to, quantity) ==
  /\ Movable(from, quantity)
  /\ Send([op |-> "move", from |-> from, to |-> to, n |-> quantity])

\* A success closes the form its section has open, be it another one; an error leaves it
\* as it is, with its key.
TicketAnswered(t) ==
  /\ t.answer # "none"
  /\ tickets' = tickets \ {t}
  /\ paper' = IF t.answer = "ok" /\ ~ t.orphan THEN [paper EXCEPT ![t.asks.op] = NoForm] ELSE paper
  /\ forms' = [forms EXCEPT ![t.form].done = t.answer = "ok"]
  /\ UNCHANGED <<bottles, written, fiche>>

\* The request or its answer is lost.
TicketLost(t) ==
  /\ tickets' = tickets \ {t}
  /\ forms' = [forms EXCEPT ![t.form].lost = TRUE]
  /\ UNCHANGED <<bottles, written, fiche, paper>>

-----------------------------------------------------------------------------
(* The api *)

Answer(t, answer) ==
  /\ tickets' = (tickets \ {t}) \union {[t EXCEPT !.answer = answer]}
  /\ UNCHANGED <<fiche, paper, forms>>

Write(t, places) ==
  /\ bottles' = places
  /\ written' = written \union {[key |-> t.key, form |-> t.form, asks |-> t.asks]}
  /\ Answer(t, "ok")

Known(key) == \E m \in written : m.key = key

\* adjustTo: the difference is that of the moment.
AdjustTo(t) ==
  LET place == t.asks.from
      counted == t.asks.n
      total == Sum(bottles)
  IN
  /\ t.answer = "none" /\ t.asks.op = "count"
  /\ \/ /\ Known(t.key) \/ counted = total
        /\ Answer(t, "ok") /\ UNCHANGED <<bottles, written>>
     \/ ~ Known(t.key) /\ counted > total
        /\ Write(t, [bottles EXCEPT ![place] = @ + (counted - total)])
     \/ ~ Known(t.key) /\ counted < total /\ bottles[place] >= total - counted
        /\ Write(t, [bottles EXCEPT ![place] = @ - (total - counted)])
     \/ ~ Known(t.key) /\ counted < total /\ bottles[place] < total - counted
        /\ Answer(t, "refused") /\ UNCHANGED <<bottles, written>>

MoveBottles(t) ==
  LET a == t.asks
      possible == a.from # a.to /\ bottles[a.from] >= a.n
  IN
  /\ t.answer = "none" /\ a.op = "move"
  /\ \/ Known(t.key) /\ Answer(t, "ok") /\ UNCHANGED <<bottles, written>>
     \/ ~ Known(t.key) /\ possible /\ Write(t, [bottles EXCEPT ![a.from] = @ - a.n, ![a.to] = @ + a.n])
     \/ ~ Known(t.key) /\ ~ possible /\ Answer(t, "refused") /\ UNCHANGED <<bottles, written>>

\* Another phone takes a bottle out, or brings one in.
OthersMove(p) ==
  /\ \/ bottles[p] > 0 /\ bottles' = [bottles EXCEPT ![p] = @ - 1]
     \/ Sum(bottles) < MaxCount /\ bottles' = [bottles EXCEPT ![p] = @ + 1]
  /\ UNCHANGED <<written, fiche, paper, tickets, forms>>

FicheStep ==
  \/ ReadFiche
  \/ \E op \in Ops : OpenForm(op) \/ PutAway(op)
  \/ \E n \in 0..MaxCount, p \in Spaces : SaveInventory(n, p)
  \/ \E p \in Spaces, r \in Racks, n \in 1..MaxCount : SubmitMove(p, r, n)
  \/ \E t \in tickets : TicketAnswered(t) \/ TicketLost(t) \/ AdjustTo(t) \/ MoveBottles(t)
  \/ \E p \in Spaces : OthersMove(p)

-----------------------------------------------------------------------------
(* Properties *)

\* However often a form is sent, with what was changed in it in between, it writes one
\* movement at most: what others took since a count was written is not put back by the
\* count sent again.  A form that closed and lost no answer did what it was last sent
\* for (LocationsBlock.tsx:107-108, WinePage.tsx:58-59).
FormsWriteOnce ==
  \A f \in DOMAIN forms :
    LET mine == {m \in written : m.form = f} IN
      /\ Cardinality(mine) <= 1
      /\ forms[f].done /\ ~ forms[f].lost => \A m \in mine : m.asks = forms[f].asks
=============================================================================
