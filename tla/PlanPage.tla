------------------------------ MODULE PlanPage ------------------------------
(***************************************************************************)
(* "Ma cave": the card of the plan, which places the markers of the zones, *)
(* and the card of the zones, which orders and deletes them.  Each card    *)
(* waits for one request at a time and not for the other's; what they show *)
(* is asked for again afterwards, and may be old; another phone creates    *)
(* and deletes zones.  The api's handlers are one step here.               *)
(***************************************************************************)
EXTENDS Naturals, SequencesExt

CONSTANTS
  Areas,    \* zones
  Drawn,    \* those there are at first, in their order
  Marked,   \* and where their markers are
  Spots,    \* places of the plan
  Unmarked, \* no marker
  MaxSent   \* bound: requests of the page

ASSUME PlanPageAssumption ==
  /\ Unmarked \notin Spots /\ Drawn \in Seq(Areas)
  /\ Marked \in [Areas -> Spots \union {Unmarked}] /\ MaxSent \in Nat

VARIABLES
  cellar, \* the api's: zones in their order, the marker of each, whether there is a plan
  view,   \* what the page last read of it
  mode,   \* what the plan shows besides the image
  calls,  \* requests of the page on their way, by number
  mine    \* history: what the page last asked of each zone's marker

planPageVars == <<cellar, view, mode, calls, mine>>

Idling == [kind |-> "idle", zone |-> {}, at |-> Unmarked]
Heard == [state |-> "answered", ask |-> [op |-> "none"]]
Whatever == "whatever"  \* not known any more: refused or lost

PlanPageInit ==
  /\ cellar = [order |-> Drawn, marker |-> Marked, plan |-> TRUE]
  /\ view = cellar
  /\ mode = Idling
  /\ calls = << >>
  /\ mine = [z \in Areas |-> Whatever]

Active(z) == z \in ToSet(cellar.order)

-----------------------------------------------------------------------------
(* The api *)

Without(z, order) == SelectSeq(order, LAMBDA y : y # z)

\* reorder: the zones given, in that order, then those they leave out in theirs.
Reordered(ids, order) == ids \o SelectSeq(order, LAMBDA z : z \notin ToSet(ids))

Accepts(c) ==
  CASE c.op = "mark" -> Active(c.zone) /\ cellar.plan
    [] c.op \in {"unmark", "delete"} -> Active(c.zone)
    [] c.op = "order" -> ToSet(c.ids) \subseteq ToSet(cellar.order)
    [] OTHER -> TRUE

Carry(c) ==
  CASE c.op = "mark"   -> [cellar EXCEPT !.marker[c.zone] = c.at]
    [] c.op = "unmark" -> [cellar EXCEPT !.marker[c.zone] = Unmarked]
    [] c.op = "order"  -> [cellar EXCEPT !.order = Reordered(c.ids, @)]
    [] c.op = "delete" -> [cellar EXCEPT !.order = Without(c.zone, @)]
    [] c.op = "upload" -> [cellar EXCEPT !.plan = TRUE]
    [] c.op = "remove" -> [cellar EXCEPT !.plan = FALSE]

Handle(i) ==
  /\ calls[i].state = "sent"
  /\ \/ /\ Accepts(calls[i].ask)
        /\ cellar' = Carry(calls[i].ask) /\ calls' = [calls EXCEPT ![i].state = "done"]
     \/ /\ ~ Accepts(calls[i].ask) \/ calls[i].ask.op = "delete"  \* it may hold bottles
        /\ calls' = [calls EXCEPT ![i].state = "refused"] /\ UNCHANGED cellar
  /\ UNCHANGED <<view, mode, mine>>

\* Another phone, which the page does not hear of, creates a zone; an entry there opens
\* again one that was archived, with the marker it had.
OtherOpens(z) ==
  /\ ~ Active(z)
  /\ cellar' = [cellar EXCEPT !.order = Append(@, z)]
  /\ UNCHANGED <<view, mode, calls, mine>>

OtherDeletes(z) ==
  /\ Active(z)
  /\ cellar' = Carry([op |-> "delete", zone |-> z])
  /\ UNCHANGED <<view, mode, calls, mine>>

-----------------------------------------------------------------------------
(* The page *)

CardOf(c) == IF c.op \in {"order", "delete"} THEN "zones" ELSE "plan"

Awaited == {i \in DOMAIN calls : calls[i].state # "answered"}

\* Mutant: nothing is disabled while the card waits.
FreeAlways(carte) == TRUE

\* Not busy: the card waits for nothing.
Free(carte) == \A i \in Awaited : CardOf(calls[i].ask) # carte

\* act
Act(c) ==
  /\ Len(calls) < MaxSent
  /\ Free(CardOf(c))
  /\ calls' = Append(calls, [state |-> "sent", ask |-> c])
  /\ mine' = CASE c.op = "mark" -> [mine EXCEPT ![c.zone] = c.at]
               [] c.op = "unmark" -> [mine EXCEPT ![c.zone] = Unmarked]
               [] OTHER -> mine
  /\ UNCHANGED <<cellar, view>>

\* The image is touched: a marker to give to a zone, or the new place of one.
Touch(at) ==
  /\ view.plan /\ Free("plan")
  /\ IF mode.kind = "moving"
     THEN Act([op |-> "mark", zone |-> mode.zone, at |-> at]) /\ UNCHANGED mode
     ELSE /\ view.order # << >>
          /\ mode' = [kind |-> "pending", zone |-> {}, at |-> at]
          /\ UNCHANGED <<cellar, view, calls, mine>>

\* Which zone is here?  One of those listed.
Designate(z) ==
  /\ mode.kind = "pending" /\ z \in ToSet(view.order)
  /\ Act([op |-> "mark", zone |-> z, at |-> mode.at])
  /\ UNCHANGED mode

\* A marker is touched, when none is being moved.
TouchMarker(z) ==
  /\ view.plan /\ mode.kind # "moving" /\ z \in ToSet(view.order) /\ view.marker[z] # Unmarked
  /\ mode' = [kind |-> "selected", zone |-> z, at |-> Unmarked]
  /\ UNCHANGED <<cellar, view, calls, mine>>

\* What is chosen is shown as long as the list has it, with its buttons.
Selected == mode.kind \in {"selected", "moving"} /\ mode.zone \in ToSet(view.order)

StartMoving ==
  /\ mode.kind = "selected" /\ Selected /\ Free("plan")
  /\ mode' = [mode EXCEPT !.kind = "moving"]
  /\ UNCHANGED <<cellar, view, calls, mine>>

TakeMarkerOff ==
  /\ mode.kind = "selected" /\ Selected
  /\ Act([op |-> "unmark", zone |-> mode.zone])
  /\ UNCHANGED mode

CloseChooser ==
  /\ mode.kind = "pending" \/ Selected
  /\ mode' = Idling
  /\ UNCHANGED <<cellar, view, calls, mine>>

ChangePlan == Act([op |-> IF view.plan THEN "remove" ELSE "upload"]) /\ UNCHANGED mode

Swapped(seq, i) == [seq EXCEPT ![i] = seq[i + 1], ![i + 1] = seq[i]]

\* The arrow beside the i-th zone, in the list as the page shows it.
MoveDown(i) ==
  /\ i \in 1..(Len(view.order) - 1)
  /\ Act([op |-> "order", ids |-> Swapped(view.order, i)])
  /\ UNCHANGED mode

DeleteArea(z) == z \in ToSet(view.order) /\ Act([op |-> "delete", zone |-> z]) /\ UNCHANGED mode

\* A request that is refused or lost: its marker is not known any more.
NotKnown(i) ==
  IF calls[i].ask.op \in {"mark", "unmark"} THEN [mine EXCEPT ![calls[i].ask.zone] = Whatever] ELSE mine

\* The answer: only a success of the plan's card leaves the mode it was in.
CallAnswered(i) ==
  /\ calls[i].state \in {"done", "refused"}
  /\ calls' = [calls EXCEPT ![i] = Heard]
  /\ mode' = IF calls[i].state = "done" /\ CardOf(calls[i].ask) = "plan" THEN Idling ELSE mode
  /\ mine' = IF calls[i].state = "refused" THEN NotKnown(i) ELSE mine
  /\ UNCHANGED <<cellar, view>>

\* The request or its answer is lost: an error, whatever the api did; a request that
\* is lost does not arrive later.
CallLost(i) ==
  /\ calls' = [calls EXCEPT ![i] = Heard]
  /\ mine' = NotKnown(i)
  /\ UNCHANGED <<cellar, view, mode>>

\* The queries ask again: after an answer, or by themselves.
ReadAgain == view # cellar /\ view' = cellar /\ UNCHANGED <<cellar, mode, calls, mine>>

PlanPageStep ==
  \/ \E at \in Spots : Touch(at)
  \/ \E z \in Areas :
       \/ Designate(z) \/ TouchMarker(z) \/ DeleteArea(z)
       \/ OtherOpens(z) \/ OtherDeletes(z)
  \/ StartMoving \/ TakeMarkerOff \/ CloseChooser \/ ChangePlan \/ ReadAgain
  \/ \E i \in 1..Len(view.order) : MoveDown(i)
  \/ \E i \in Awaited : Handle(i) \/ CallAnswered(i) \/ CallLost(i)

-----------------------------------------------------------------------------
(* Properties *)

\* Once everything the page said of a zone's marker is answered, the marker is where
\* the last of it put it: two placings never arrive in the wrong order, whatever
\* the other card asks and however old the list is (MaCavePage.tsx:243-274).
MarkersWhereTapped ==
  \A z \in Areas :
    (\A i \in Awaited : calls[i].ask.op \in {"mark", "unmark"} => calls[i].ask.zone # z)
      => \/ ~ Active(z)
         \/ mine[z] \in {Whatever, cellar.marker[z]}
=============================================================================
