------------------------------ MODULE Journal ------------------------------
(***************************************************************************)
(* The append-only journal of bottle movements, as PostgreSQL keeps it:    *)
(* the movement table with its unique indexes, its trigger, and the sums   *)
(* that are the only record of stock.                                      *)
(*                                                                         *)
(* A movement is known by its idempotency key, unique over all cellars.    *)
(***************************************************************************)
EXTENDS Zones, Integers

CONSTANTS
  Wines,      \* the wine rows
  WineCave,   \* the cellar of each wine
  Photos,     \* the photo rows
  Keys,       \* idempotency keys the clients draw (UUIDs)
  NoPhoto,    \* photo_id NULL
  NoKey       \* reverses_id NULL

\* A movement's key: the request's key, whole or with the suffix the service adds.
MovementKey == [req : Keys, part : {"whole", "from", "to", "pair"}]

ASSUME JournalAssumption ==
  /\ WineCave \in [Wines -> Caves]
  /\ NoPhoto \notin Photos
  /\ NoKey \notin MovementKey

VARIABLES
  journal,    \* the movement rows
  stock,      \* SUM(delta) by wine and place
  total       \* SUM(delta) by wine: the view stock_courant

journalVars == <<journal, stock, total>>

Movement ==
  [key : MovementKey, wine : Wines, delta : Int, type : {"IN", "OUT", "ADJUST", "MOVE"},
   photo : Photos \union {NoPhoto}, reverses : MovementKey \union {NoKey}, place : Places]

JournalTypeOK ==
  /\ journal \subseteq Movement
  /\ stock \in [Wines -> [Places -> Int]]
  /\ total \in [Wines -> Int]

JournalInit ==
  /\ journal = {}
  /\ stock = [w \in Wines |-> [p \in Places |-> 0]]
  /\ total = [w \in Wines |-> 0]

Whole(k) == [req |-> k, part |-> "whole"]
From(k)  == [req |-> k, part |-> "from"]
To(k)    == [req |-> k, part |-> "to"]
Pair(k)  == [req |-> k, part |-> "pair"]

\* The key of the other half of a move (movePartnerKey).
Partner(key) == [req |-> key.req, part |-> IF key.part = "from" THEN "to" ELSE "from"]

-----------------------------------------------------------------------------
(* Reads *)

Recorded(key)  == \E m \in journal : m.key = key
At(key)        == CHOOSE m \in journal : m.key = key
Reversed(key)  == \E m \in journal : m.reverses = key
\* The photo already stands for a movement of that type.
Spent(p, type) == p # NoPhoto /\ \E m \in journal : m.photo = p /\ m.type = type
SpentBy(p, type) == CHOOSE m \in journal : m.photo = p /\ m.type = type

\* Some location of the zone holds bottles; some movement designates it.
Stocked(z) == \E w \in Wines, p \in Places : ZoneOf(p) = z /\ stock[w][p] > 0
Used(z)    == \E m \in journal : ZoneOf(m.place) = z

-----------------------------------------------------------------------------
(* Writes.  The transaction that inserts also decides whether it may. *)

\* check_stock_non_negative, evaluated before the indexes.
TriggerRefuses(m) == total[m.wine] + m.delta < 0

\* Mutant: the partial index on reverses_id is missing.
UniqueViolationWithoutReverses(m) ==
  Recorded(m.key) \/ (m.type \in {"IN", "OUT"} /\ Spent(m.photo, m.type))

\* P2002: one of the four unique indexes has the row already.
UniqueViolation(m) ==
  \/ Recorded(m.key)
  \/ m.reverses # NoKey /\ Reversed(m.reverses)
  \/ m.type \in {"IN", "OUT"} /\ Spent(m.photo, m.type)

\* The location row a movement designates is still there (foreign key).
PlaceExists(p) == p # NoPlace => p \in rows

Insert(m) ==
  /\ journal' = journal \union {m}
  /\ stock' = [stock EXCEPT ![m.wine][m.place] = @ + m.delta]
  /\ total' = [total EXCEPT ![m.wine] = @ + m.delta]

\* Two movements of one wine in one transaction.
InsertBoth(m, n) ==
  /\ journal' = journal \union {m, n}
  /\ stock' = [stock EXCEPT ![m.wine][m.place] = @ + m.delta, ![m.wine][n.place] = @ + n.delta]
  /\ total' = [total EXCEPT ![m.wine] = @ + m.delta + n.delta]

\* Places an old client's withdrawal may come from: "Sans emplacement" if it
\* has enough, else a place that has, else "Sans emplacement" (then refused).
LegacyExitPlaces(w, qty) ==
  LET enough == {p \in Places : stock[w][p] >= qty}
  IN  IF NoPlace \in enough \/ enough = {} THEN {NoPlace} ELSE enough
=============================================================================
