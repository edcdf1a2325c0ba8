----------------------------- MODULE Movements -----------------------------
(***************************************************************************)
(* MovementsService: entries, withdrawals, cancellations, inventories and  *)
(* moves, served by concurrent handlers over one journal.                  *)
(*                                                                         *)
(* A handler works in three steps other handlers may come between: it      *)
(* reads what decides the request (Check), it runs one transaction         *)
(* (Commit), and when the transaction lost a race on a unique index it     *)
(* reads again (Reread).  The transaction holds the wine's row lock, and   *)
(* the zone's, until it commits: it is one step.                           *)
(***************************************************************************)
EXTENDS Journal

CONSTANTS
  Handlers,   \* requests in progress at once
  Requests,   \* what clients may send, as often as they like
  PhotoCave,  \* the cellar each photo was uploaded in
  WebImages,  \* photos of purpose REFERENCE
  NoRequest,  \* no request in progress
  Unset       \* locationId left out by an old client

InRequest == [op : {"in"}, cave : Caves, key : Keys, wine : Wines, qty : Nat \ {0},
              photo : Photos \union {NoPhoto}, to : LocationInput \union {NoPlace}]
OutRequest == [op : {"out"}, cave : Caves, key : Keys, wine : Wines, qty : Nat \ {0},
               photo : Photos \union {NoPhoto}, at : Places \union {Unset}]
CancelRequest == [op : {"cancel"}, cave : Caves, key : Keys, target : MovementKey]
InventoryRequest == [op : {"inventory"}, cave : Caves, key : Keys, wine : Wines, counted : Nat,
                     to : LocationInput \union {NoPlace}, at : Places \union {Unset}]
MoveRequest == [op : {"move"}, cave : Caves, key : Keys, wine : Wines, qty : Nat \ {0},
                from : Places, to : LocationInput]

\* matchOrCreate gives an entry a wine of its own cellar; a typed location of
\* an inventory excludes an id (inventorySchema).
ASSUME MovementsAssumption ==
  /\ Requests \subseteq InRequest \union OutRequest \union CancelRequest
                          \union InventoryRequest \union MoveRequest
  /\ \A r \in Requests : r.op = "in" => WineCave[r.wine] = r.cave
  /\ \A r \in Requests : r.op = "inventory" /\ r.to # NoPlace => r.at = Unset
  /\ PhotoCave \in [Photos -> Caves]
  /\ WebImages \subseteq Photos
  /\ NoRequest \notin Requests
  /\ Unset \notin Places

VARIABLE call \* what each handler is doing

database == <<journal, stock, total, zoneState, zoneName, rows>>
vars == <<database, call>>

Phases == {"idle", "checked", "raced", "answered"}
Kinds  == {"none", "created", "replayed", "unmoved", "refused"}

Call == [phase : Phases, req : Requests \union {NoRequest}, photo : Photos \union {NoPhoto},
         kind : Kinds, movement : MovementKey \union {NoKey}]

Idle == [phase |-> "idle", req |-> NoRequest, photo |-> NoPhoto, kind |-> "none", movement |-> NoKey]

TypeOK ==
  /\ ZonesTypeOK
  /\ JournalTypeOK
  /\ call \in [Handlers -> Call]

Init ==
  /\ ZonesInit
  /\ JournalInit
  /\ call = [h \in Handlers |-> Idle]

-----------------------------------------------------------------------------
(* Answers and plans *)

Created(key)  == [kind |-> "created", movement |-> key]
Replayed(key) == [kind |-> "replayed", movement |-> key]
Unmoved       == [kind |-> "unmoved", movement |-> NoKey]
Refused       == [kind |-> "refused", movement |-> NoKey]

\* A plan: go on to the transaction, with the photo it will record.
Go(photo) == [kind |-> "none", photo |-> photo]

\* Mutant: any movement under the key is shown.
OwnReplayAnyCave(c, key) == Replayed(key)

\* A replay never shows a movement of another cellar (ownReplay).
OwnReplay(c, key) == IF WineCave[At(key).wine] = c THEN Replayed(key) ELSE Refused

PhotoUsable(r) == r.photo # NoPhoto => PhotoCave[r.photo] = r.cave /\ r.photo \notin WebImages

Begin(h, r, plan) ==
  /\ call[h].phase = "idle"
  /\ call' = [call EXCEPT ![h] =
       IF plan.kind = "none"
       THEN [phase |-> "checked", req |-> r, photo |-> plan.photo, kind |-> "none", movement |-> NoKey]
       ELSE [phase |-> "answered", req |-> r, photo |-> NoPhoto, kind |-> plan.kind, movement |-> plan.movement]]
  /\ UNCHANGED database

Answer(h, a) == call' = [call EXCEPT ![h].phase = "answered", ![h].kind = a.kind, ![h].movement = a.movement]

Refuse(h) == Answer(h, Refused) /\ UNCHANGED database
Race(h)   == call' = [call EXCEPT ![h].phase = "raced"] /\ UNCHANGED database

Ready(h, op)  == call[h].phase = "checked" /\ call[h].req.op = op
Raced(h, op)  == call[h].phase = "raced" /\ call[h].req.op = op

\* A typed location, or none, as places; none leaves the zones alone.
TypedPlaces(c, to) == IF to = NoPlace THEN {NoPlace} ELSE Destinations(c, to)
TypedUnknown(c, to) == to # NoPlace /\ UnknownZone(c, to)
Settle(to, l) == IF to = NoPlace THEN UNCHANGED zoneVars ELSE Resolve(to, l)

\* Mutant: only the wine's total is looked at.
LacksInTotal(w, p, delta) == total[w] + delta < 0

\* assertEnoughAt, once delta is written at p.
Lacks(w, p, delta) == stock[w][p] + delta < 0

-----------------------------------------------------------------------------
(* Entry *)

PlanIn(r) ==
  IF Recorded(Whole(r.key)) THEN OwnReplay(r.cave, Whole(r.key))
  ELSE IF ~ PhotoUsable(r) \/ TypedUnknown(r.cave, r.to) \/ Recorded(From(r.key)) THEN Refused
  ELSE Go(r.photo)

CheckIn(h, r) == r.op = "in" /\ Begin(h, r, PlanIn(r))

Entry(r, photo, l) ==
  [key |-> Whole(r.key), wine |-> r.wine, delta |-> r.qty, type |-> "IN",
   photo |-> photo, reverses |-> NoKey, place |-> l]

CommitIn(h) ==
  LET r == call[h].req IN
  /\ Ready(h, "in")
  /\ \/ TypedUnknown(r.cave, r.to) /\ Refuse(h)
     \/ \E l \in TypedPlaces(r.cave, r.to) :
          LET m == Entry(r, call[h].photo, l) IN
          \/ UniqueViolation(m) /\ Race(h)
          \/ /\ ~ UniqueViolation(m)
             /\ Insert(m)
             /\ Settle(r.to, l)
             /\ Answer(h, Created(m.key))

\* The key's movement first, else the entry the photo already made.
RereadIn(h) ==
  LET r == call[h].req IN
  /\ Raced(h, "in")
  /\ Answer(h, IF Recorded(Whole(r.key)) THEN OwnReplay(r.cave, Whole(r.key))
               ELSE Replayed(SpentBy(r.photo, "IN").key))
  /\ UNCHANGED database

-----------------------------------------------------------------------------
(* Withdrawal *)

PlanOut(r) ==
  IF WineCave[r.wine] # r.cave THEN Refused
  ELSE IF Recorded(Whole(r.key))
    THEN IF At(Whole(r.key)).type = "OUT" /\ At(Whole(r.key)).wine = r.wine
         THEN Replayed(Whole(r.key)) ELSE Refused
  ELSE IF Recorded(From(r.key)) \/ ~ PhotoUsable(r) THEN Refused
  ELSE IF ~ Spent(r.photo, "OUT") THEN Go(r.photo)
  ELSE LET done == SpentBy(r.photo, "OUT") IN
       IF Reversed(done.key) THEN Go(NoPhoto)
       ELSE IF done.wine = r.wine THEN Replayed(done.key) ELSE Refused

CheckOut(h, r) ==
  /\ r.op = "out"
  /\ LET plan == PlanOut(r) IN
     Begin(h, r, IF plan.kind = "none" /\ r.at # Unset /\ ~ OwnPlace(r.cave, r.at) THEN Refused ELSE plan)

Withdrawal(r, photo, p) ==
  [key |-> Whole(r.key), wine |-> r.wine, delta |-> -r.qty, type |-> "OUT",
   photo |-> photo, reverses |-> NoKey, place |-> p]

CommitOut(h) ==
  LET r == call[h].req IN
  /\ Ready(h, "out")
  /\ \E p \in IF r.at = Unset THEN LegacyExitPlaces(r.wine, r.qty) ELSE {r.at} :
       LET m == Withdrawal(r, call[h].photo, p)
           unfit == ~ PlaceExists(p) \/ Lacks(r.wine, p, -r.qty)
       IN
       \/ TriggerRefuses(m) /\ Refuse(h)
       \/ ~ TriggerRefuses(m) /\ UniqueViolation(m) /\ Race(h)
       \/ ~ TriggerRefuses(m) /\ ~ UniqueViolation(m) /\ unfit /\ Refuse(h)
       \/ /\ ~ TriggerRefuses(m) /\ ~ UniqueViolation(m) /\ ~ unfit
          /\ Insert(m)
          /\ Answer(h, Created(m.key))
          /\ UNCHANGED zoneVars

\* Decided again with the rules of the first plan; a plan that would go on is
\* the unhandled unique violation.
RereadOut(h) ==
  LET plan == PlanOut(call[h].req) IN
  /\ Raced(h, "out")
  /\ Answer(h, IF plan.kind = "replayed" THEN plan ELSE Refused)
  /\ UNCHANGED database

-----------------------------------------------------------------------------
(* Cancellation *)

\* Mutant: one half of a move is reversed without the other.
HalvesAlone(key) == {At(key)}

\* The movements a cancellation reverses: a move goes by both its halves.
Halves(key) ==
  IF At(key).type = "MOVE" THEN {m \in journal : m.key \in {key, Partner(key)}} ELSE {At(key)}

\* Mutant: the movement to cancel is not looked up in the caller's cellar.
PlanCancelAnyCave(r) ==
  IF Recorded(Whole(r.key)) THEN OwnReplay(r.cave, Whole(r.key))
  ELSE IF \/ ~ Recorded(r.target)
          \/ At(r.target).reverses # NoKey
          \/ \E m \in Halves(r.target) : Reversed(m.key)
    THEN Refused
  ELSE Go(NoPhoto)

PlanCancel(r) ==
  IF Recorded(Whole(r.key)) THEN OwnReplay(r.cave, Whole(r.key))
  ELSE IF ~ Recorded(r.target) THEN Refused
  ELSE IF \/ WineCave[At(r.target).wine] # r.cave
          \/ At(r.target).reverses # NoKey
          \/ \E m \in Halves(r.target) : Reversed(m.key)
    THEN Refused
  ELSE Go(NoPhoto)

CheckCancel(h, r) == r.op = "cancel" /\ Begin(h, r, PlanCancel(r))

Undo(r, m) ==
  [key |-> IF m.key = r.target THEN Whole(r.key) ELSE Pair(r.key), wine |-> m.wine,
   delta |-> -m.delta, type |-> "ADJUST", photo |-> NoPhoto, reverses |-> m.key, place |-> m.place]

\* first is written before last; they are one for anything but a move.
CommitCancel(h) ==
  LET r == call[h].req
      halves == Halves(r.target)
  IN
  /\ Ready(h, "cancel")
  /\ \E m, n \in halves :
       LET first == Undo(r, m)
           last == Undo(r, n)
           violator == IF UniqueViolation(first) THEN first ELSE last
           barred == m.delta < 0 /\ ~ CanReopen(m.place)
           lacking == n.delta > 0 /\ Lacks(n.wine, n.place, -n.delta)
       IN
       /\ halves = {m, n}
       /\ m.delta <= n.delta
       /\ \/ (barred \/ TriggerRefuses(first)) /\ Refuse(h)
          \/ /\ ~ barred /\ ~ TriggerRefuses(first) /\ UniqueViolation(violator)
             /\ IF Recorded(violator.key) THEN Race(h) ELSE Refuse(h)
          \/ ~ barred /\ ~ TriggerRefuses(first) /\ ~ UniqueViolation(violator) /\ lacking /\ Refuse(h)
          \/ /\ ~ barred /\ ~ TriggerRefuses(first) /\ ~ UniqueViolation(violator) /\ ~ lacking
             /\ IF m = n THEN Insert(first) ELSE InsertBoth(first, last)
             /\ IF m.delta < 0 THEN Reopen(m.place) ELSE UNCHANGED zoneVars
             /\ Answer(h, Created(Whole(r.key)))

RereadCancel(h) ==
  LET r == call[h].req IN
  /\ Raced(h, "cancel")
  /\ Answer(h, IF Recorded(Whole(r.key)) THEN OwnReplay(r.cave, Whole(r.key)) ELSE Refused)
  /\ UNCHANGED database

-----------------------------------------------------------------------------
(* Inventory *)

PlanInventory(r) ==
  IF WineCave[r.wine] # r.cave THEN Refused
  ELSE IF Recorded(Whole(r.key))
    THEN IF At(Whole(r.key)).type = "ADJUST" /\ At(Whole(r.key)).wine = r.wine
         THEN Replayed(Whole(r.key)) ELSE Refused
  ELSE IF Recorded(From(r.key)) \/ (r.at # Unset /\ ~ OwnPlace(r.cave, r.at)) THEN Refused
  ELSE Go(NoPhoto)

CheckInventory(h, r) == r.op = "inventory" /\ Begin(h, r, PlanInventory(r))

InventoryPlaces(r, delta) ==
  IF r.to # NoPlace THEN Destinations(r.cave, r.to)
  ELSE IF r.at # Unset THEN {r.at}
  ELSE IF delta > 0 THEN {NoPlace}
  ELSE LegacyExitPlaces(r.wine, -delta)

Correction(r, delta, p) ==
  [key |-> Whole(r.key), wine |-> r.wine, delta |-> delta, type |-> "ADJUST",
   photo |-> NoPhoto, reverses |-> NoKey, place |-> p]

\* The difference is taken under the wine's lock; no unique violation is caught here.
CommitInventory(h) ==
  LET r == call[h].req
      delta == r.counted - total[r.wine]
      returning == delta > 0 /\ r.to = NoPlace
  IN
  /\ Ready(h, "inventory")
  /\ \/ delta = 0 /\ Answer(h, Unmoved) /\ UNCHANGED database
     \/ delta # 0 /\ TypedUnknown(r.cave, r.to) /\ Refuse(h)
     \/ \E p \in InventoryPlaces(r, delta) :
          LET m == Correction(r, delta, p)
              unfit == \/ returning /\ ~ CanReopen(p)
                       \/ UniqueViolation(m)
                       \/ r.to = NoPlace /\ ~ PlaceExists(p)
                       \/ delta < 0 /\ Lacks(r.wine, p, delta)
          IN
          /\ delta # 0
          /\ \/ unfit /\ Refuse(h)
             \/ /\ ~ unfit
                /\ Insert(m)
                /\ IF returning THEN Reopen(p) ELSE Settle(r.to, p)
                /\ Answer(h, Created(m.key))
   
-----------------------------------------------------------------------------
(* Move *)

\* What an earlier run of the same move answers.
MoveReplay(r) ==
  IF At(From(r.key)).wine = r.wine /\ At(From(r.key)).type = "MOVE" THEN Replayed(From(r.key)) ELSE Refused

PlanMove(r) ==
  IF WineCave[r.wine] # r.cave THEN Refused
  ELSE IF Recorded(From(r.key)) THEN MoveReplay(r)
  ELSE IF Recorded(Whole(r.key)) \/ ~ OwnPlace(r.cave, r.from) THEN Refused
  ELSE Go(NoPhoto)

CheckMove(h, r) == r.op = "move" /\ Begin(h, r, PlanMove(r))

Arrival(r, l) ==
  [key |-> To(r.key), wine |-> r.wine, delta |-> r.qty, type |-> "MOVE",
   photo |-> NoPhoto, reverses |-> NoKey, place |-> l]
Departure(r) ==
  [key |-> From(r.key), wine |-> r.wine, delta |-> -r.qty, type |-> "MOVE",
   photo |-> NoPhoto, reverses |-> NoKey, place |-> r.from]

CommitMove(h) ==
  LET r == call[h].req IN
  /\ Ready(h, "move")
  /\ \/ UnknownZone(r.cave, r.to) /\ Refuse(h)
     \/ \E l \in Destinations(r.cave, r.to) :
          LET raced == UniqueViolation(Arrival(r, l)) \/ UniqueViolation(Departure(r))
              unfit == ~ PlaceExists(r.from) \/ Lacks(r.wine, r.from, -r.qty)
          IN
          \/ l = r.from /\ Refuse(h)
          \/ l # r.from /\ raced /\ Race(h)
          \/ l # r.from /\ ~ raced /\ unfit /\ Refuse(h)
          \/ /\ l # r.from /\ ~ raced /\ ~ unfit
             /\ InsertBoth(Arrival(r, l), Departure(r))
             /\ Resolve(r.to, l)
             /\ Answer(h, Created(From(r.key)))

RereadMove(h) ==
  LET r == call[h].req IN
  /\ Raced(h, "move")
  /\ Answer(h, IF Recorded(From(r.key)) THEN MoveReplay(r) ELSE Refused)
  /\ UNCHANGED database

-----------------------------------------------------------------------------
(* The end of a call, and the zones *)

\* The client reads the answer; or the process stops, or the connection drops,
\* before there was one, and the client may send the same request again.
Deliver(h) == call[h].phase = "answered" /\ call' = [call EXCEPT ![h] = Idle] /\ UNCHANGED database
Abandon(h) == call[h].phase \in {"checked", "raced"} /\ call' = [call EXCEPT ![h] = Idle] /\ UNCHANGED database

ZoneStep ==
  /\ \E z \in Zones :
       \/ \E n \in Names : CreateZone(z, n) \/ RenameZone(z, n)
       \/ RemoveZone(z, Stocked(z), Used(z))
  /\ UNCHANGED <<journal, stock, total, call>>

Check(h, r) ==
  \/ CheckIn(h, r)
  \/ CheckOut(h, r)
  \/ CheckCancel(h, r)
  \/ CheckInventory(h, r)
  \/ CheckMove(h, r)

Commit(h) ==
  \/ CommitIn(h)
  \/ CommitOut(h)
  \/ CommitCancel(h)
  \/ CommitInventory(h)
  \/ CommitMove(h)

Reread(h) ==
  \/ RereadIn(h)
  \/ RereadOut(h)
  \/ RereadCancel(h)
  \/ RereadMove(h)

Next ==
  \/ \E h \in Handlers :
       \/ \E r \in Requests : Check(h, r)
       \/ Commit(h)
       \/ Reread(h)
       \/ Deliver(h)
       \/ Abandon(h)
  \/ ZoneStep

Spec == Init /\ [][Next]_vars

-----------------------------------------------------------------------------
(* Properties *)

\* Stock never goes below zero, for a wine as a whole and at every place, in
\* whatever order concurrent withdrawals, moves, inventories and cancellations
\* commit: the trigger guards the total, assertEnoughAt each emptied place.
NeverNegative ==
  \A w \in Wines : total[w] >= 0 /\ \A p \in Places : stock[w][p] >= 0

\* A cancellation is the exact inverse of one movement that is not itself a
\* cancellation, and a movement is cancelled once at most, even when two
\* cancellations with different keys were both checked before either wrote.
ReversalExact ==
  \A m \in journal : m.reverses # NoKey =>
    /\ \E o \in journal : /\ o.key = m.reverses /\ o.reverses = NoKey
                          /\ o.wine = m.wine /\ o.place = m.place /\ o.delta = -m.delta
    /\ \A n \in journal : n.reverses = m.reverses => n = m

\* The two halves of a move are one event: both are in the journal or neither,
\* opposite, of one wine, and they are cancelled together (movePartnerKey).
MovesWhole ==
  \A m \in journal : m.type = "MOVE" =>
    \E n \in journal :
      /\ n.key = Partner(m.key) /\ n.type = "MOVE"
      /\ n.wine = m.wine /\ n.delta = -m.delta /\ n.place # m.place
      /\ Reversed(n.key) <=> Reversed(m.key)

\* Bottles are never in a zone that is archived or deleted: an entry, a move, an
\* inventory or a cancellation that brings some there reopens the zone or is
\* refused, although its checks were made before the zone was removed.
NoBottleOutOfSight ==
  \A w \in Wines, p \in Places :
    ZoneOf(p) # NoZone /\ zoneState[ZoneOf(p)] # "active" => stock[w][p] = 0

\* The history keeps its places: a movement's location row and its zone outlive
\* every removal, and belong to the wine's own cellar.
HistoryKeepsItsPlaces ==
  \A m \in journal : m.place # NoPlace =>
    /\ m.place \in rows
    /\ m.place.cave = WineCave[m.wine]
    /\ m.place.zone # NoZone => zoneState[m.place.zone] \in {"active", "archived"}

\* No two active zones of a cellar share a name, a restored zone included.
NamesDistinct ==
  \A y, z \in Zones :
    /\ zoneState[y] = "active" /\ zoneState[z] = "active"
    /\ ZoneCave[y] = ZoneCave[z] /\ zoneName[y] = zoneName[z]
    => y = z

\* An answer that names a movement tells the truth: it is in the journal, of a
\* wine of the caller's cellar; for a withdrawal or a move it is one of the wine
\* asked for, replay or not, and what a call says it created is what it was asked.
\* An inventory told that it is done already has, under its key, a correction of its
\* wine: the code looks at the type alone (movements.service.ts:401), so a
\* cancellation under that key passes for the count, and no more is said of it here.
AnswersTruthful ==
  \A h \in Handlers : call[h].kind \in {"created", "replayed"} =>
    \E m \in journal :
      LET r == call[h].req IN
      /\ m.key = call[h].movement
      /\ WineCave[m.wine] = r.cave
      /\ r.op = "out" => m.type = "OUT" /\ m.wine = r.wine
      /\ r.op = "inventory" =>
           m.type = "ADJUST" /\ m.wine = r.wine /\ (call[h].kind = "created" => m.reverses = NoKey)
      /\ r.op = "move" => m.type = "MOVE" /\ m.wine = r.wine
      /\ r.op = "cancel" /\ call[h].kind = "created" => m.reverses = r.target

\* Nobody writes in another cellar's journal, and nothing is written behind the
\* caller's back: a new movement carries the key of a call that answers "created"
\* in the same step, and its wine belongs to that caller's cellar, whatever the
\* key, the photo or the movement the request names.
NoForeignWrite ==
  [][journal' # journal =>
       \E h \in Handlers :
         /\ call[h].phase = "checked" /\ call'[h].kind = "created"
         /\ \A m \in journal' \ journal :
              m.key.req = call[h].req.key /\ WineCave[m.wine] = call[h].req.cave]_vars

=============================================================================
