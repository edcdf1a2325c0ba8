-------------------------- MODULE MovementsProofs --------------------------
(***************************************************************************)
(* The journal's invariants for every number of handlers, wines, zones,    *)
(* photos and requests.                                                    *)
(***************************************************************************)
EXTENDS Movements, TLAPS

-----------------------------------------------------------------------------
(* The inductive invariant *)

\* A call under way has a request of Requests, and what its check found that no
\* later step can undo is still so.
CallOK(c) ==
  LET r == c.req IN
  /\ c.phase # "idle" => r \in Requests
  /\ c.phase = "checked" /\ r.op # "cancel" => WineCave[r.wine] = r.cave
  /\ c.phase = "checked" /\ r.op = "in" => c.photo = r.photo
  /\ c.phase = "raced" /\ r.op = "in" => Recorded(Whole(r.key)) \/ Spent(r.photo, "IN")
  /\ c.phase = "checked" /\ r.op \in {"out", "inventory"} =>
       r.at \in {Unset, NoPlace} \/ r.at.cave = r.cave
  /\ c.phase = "checked" /\ r.op = "move" => r.from = NoPlace \/ r.from.cave = r.cave
  /\ c.phase = "checked" /\ r.op = "cancel" =>
       \E m \in journal : /\ m.key = r.target /\ m.reverses = NoKey
                          /\ WineCave[m.wine] = r.cave

CallsOK == \A h \in Handlers : CallOK(call[h])

\* A key names one movement; a move has a suffix in its key and reverses nothing.
KeysOK ==
  /\ \A m, n \in journal : m.key = n.key => m = n
  /\ \A m \in journal : m.type = "MOVE" =>
       m.key.part \in {"from", "to"} /\ m.delta # 0 /\ m.reverses = NoKey

\* Location rows belong to zones that still have a row.
RowsOK == \A l \in rows : l.zone # NoZone => zoneState[l.zone] \in {"active", "archived"}

\* Where a wine has stock, a movement put it.
StockTraced ==
  \A w \in Wines, p \in Places : stock[w][p] # 0 => \E m \in journal : m.wine = w /\ m.place = p

IInv ==
  /\ TypeOK
  /\ CallsOK
  /\ KeysOK
  /\ RowsOK
  /\ StockTraced
  /\ NeverNegative
  /\ ReversalExact
  /\ MovesWhole
  /\ NoBottleOutOfSight
  /\ HistoryKeepsItsPlaces

\* The part of it that only a transaction can disturb.
DataInv ==
  /\ ZonesTypeOK
  /\ JournalTypeOK
  /\ KeysOK
  /\ RowsOK
  /\ StockTraced
  /\ NeverNegative
  /\ ReversalExact
  /\ MovesWhole
  /\ NoBottleOutOfSight
  /\ HistoryKeepsItsPlaces

-----------------------------------------------------------------------------
(* What a transaction that commits does, whatever the request *)

\* Rows appear, zones become active, nothing else happens to them.
ZonesGrow ==
  /\ ZonesTypeOK'
  /\ RowsOK'
  /\ rows \subseteq rows'
  /\ \A z \in Zones : zoneState'[z] = zoneState[z] \/ zoneState'[z] = "active"

\* A new row of the journal that the indexes, the trigger, assertEnoughAt and
\* the zone's lock have let in.
Admitted(m) ==
  /\ m \in Movement
  /\ ~ Recorded(m.key)
  /\ stock[m.wine][m.place] + m.delta >= 0
  /\ m.place # NoPlace => m.place \in rows' /\ m.place.cave = WineCave[m.wine]
  /\ m.delta > 0 /\ ZoneOf(m.place) # NoZone => zoneState'[ZoneOf(m.place)] = "active"
  /\ m.reverses # NoKey =>
       /\ ~ Reversed(m.reverses)
       /\ \E o \in journal : /\ o.key = m.reverses /\ o.reverses = NoKey
                             /\ o.wine = m.wine /\ o.place = m.place /\ o.delta = -m.delta

\* One movement: anything but a move or the cancellation of one.
WritesOne(m) ==
  /\ Insert(m)
  /\ Admitted(m)
  /\ m.type # "MOVE"
  /\ total[m.wine] + m.delta >= 0
  /\ \A o \in journal : o.key = m.reverses => o.type # "MOVE"

\* Two movements: the halves of a move, or of its cancellation.
WritesTwo(m, n) ==
  /\ InsertBoth(m, n)
  /\ Admitted(m) /\ Admitted(n)
  /\ m.key # n.key /\ m.wine = n.wine /\ m.delta = -n.delta /\ m.delta # 0 /\ m.place # n.place
  /\ \/ /\ m.type = "MOVE" /\ n.type = "MOVE" /\ m.reverses = NoKey /\ n.reverses = NoKey
        /\ m.key.part \in {"from", "to"} /\ n.key = Partner(m.key) /\ m.key = Partner(n.key)
     \/ /\ m.type # "MOVE" /\ n.type # "MOVE"
        /\ \E o, d \in journal :
             /\ o.type = "MOVE" /\ o.key = m.reverses /\ n.reverses = Partner(o.key)
             /\ d.type = "MOVE" /\ d.key = n.reverses /\ m.reverses = Partner(d.key)

DataUnchanged == UNCHANGED <<journal, stock, total, zoneState, zoneName, rows>>

-----------------------------------------------------------------------------
(* Requests, keys and places *)

\* What a request of each kind holds, and which wine an entry names.
LEMMA RequestKinds ==
  ASSUME NEW r \in Requests
  PROVE  /\ r.cave \in Caves /\ r.key \in Keys
         /\ r.op \in {"in", "out", "cancel", "inventory", "move"}
         /\ r.op = "in" => r \in InRequest /\ WineCave[r.wine] = r.cave
         /\ r.op = "out" => r \in OutRequest
         /\ r.op = "cancel" => r \in CancelRequest
         /\ r.op = "inventory" => r \in InventoryRequest /\ (r.to # NoPlace => r.at = Unset)
         /\ r.op = "move" => r \in MoveRequest
  BY MovementsAssumption DEF InRequest, OutRequest, CancelRequest, InventoryRequest, MoveRequest

\* CHOOSE finds the movement a key names.
LEMMA AtNames ==
  ASSUME NEW key, Recorded(key)
  PROVE  At(key) \in journal /\ At(key).key = key
  BY DEF Recorded, At

\* A movement is found again under its own key.
LEMMA AtIsUnique ==
  ASSUME KeysOK, NEW m \in journal
  PROVE  At(m.key) = m
  BY DEF KeysOK, At

\* The keys the service derives from a request's key are movement keys, and distinct.
LEMMA KeyFacts ==
  ASSUME NEW k \in Keys
  PROVE  /\ Whole(k) \in MovementKey /\ From(k) \in MovementKey
         /\ To(k) \in MovementKey /\ Pair(k) \in MovementKey
         /\ From(k) # To(k) /\ Whole(k) # Pair(k)
         /\ Partner(From(k)) = To(k) /\ Partner(To(k)) = From(k)
         /\ NoKey \notin {Whole(k), From(k), To(k), Pair(k)}
  BY JournalAssumption DEF Whole, From, To, Pair, Partner, MovementKey

\* The other half's key: movePartnerKey undoes itself.
LEMMA PartnerFacts ==
  ASSUME NEW key \in MovementKey
  PROVE  /\ Partner(key) \in MovementKey /\ Partner(key) # key /\ key # NoKey
         /\ key.part \in {"from", "to"} => Partner(Partner(key)) = key
<1>1. PICK k \in Keys, p \in {"whole", "from", "to", "pair"} : key = [req |-> k, part |-> p]
  BY DEF MovementKey
<1>2. Partner(key) = [req |-> k, part |-> IF p = "from" THEN "to" ELSE "from"]
  BY <1>1 DEF Partner
<1>3. Partner(Partner(key)) = [req |-> k, part |-> IF p = "from" THEN "from" ELSE "to"]
  BY <1>2 DEF Partner
<1>4. QED BY <1>1, <1>2, <1>3, JournalAssumption DEF MovementKey

\* A place is a location row's triple, of the cellar of its zone, or none.
LEMMA PlaceFacts ==
  ASSUME NEW p \in Places
  PROVE  /\ NoPlace \in Places
         /\ p # NoPlace => /\ p \in Location /\ p.cave \in Caves
                           /\ p.zone \in Zones \union {NoZone} /\ ZoneOf(p) = p.zone
                           /\ p.zone # NoZone => ZoneCave[p.zone] = p.cave
         /\ ZoneOf(p) \in Zones \union {NoZone}
         /\ p = NoPlace => ZoneOf(p) = NoZone
  BY ZonesAssumption DEF Places, Location, ZoneOf

\* A typed location becomes a row of the caller's cellar, in an active zone.
LEMMA ResolveGrows ==
  ASSUME ZonesTypeOK, RowsOK, NEW c \in Caves, NEW in \in LocationInput,
         NEW l \in Destinations(c, in), Resolve(in, l)
  PROVE  /\ l \in Location /\ l \in Places /\ l # NoPlace /\ l.cave = c /\ l \in rows'
         /\ l.zone # NoZone => zoneState'[l.zone] = "active"
         /\ ZonesGrow
<1>1. PICK z \in ResolvedZones(c, in) : l = [cave |-> c, zone |-> z, spot |-> in.spot]
  BY DEF Destinations
<1>2. z \in Zones \union {NoZone} /\ (z # NoZone => ZoneCave[z] = c)
  BY <1>1 DEF ResolvedZones, ActiveZones, UnbornZones
<1>3. l \in Location /\ l \in Places /\ l # NoPlace /\ l.cave = c
  BY <1>1, <1>2, ZonesAssumption DEF Location, Places, LocationInput
<1>4. z # NoZone => zoneState[z] \in {"active", "unborn"} /\ (zoneState[z] = "unborn" => in.name \in Names)
  BY <1>1, <1>2 DEF ResolvedZones, ActiveZones, UnbornZones, LocationInput
<1>5. ZonesTypeOK'
  BY <1>1, <1>3, <1>4 DEF Resolve, ZonesTypeOK
<1>6. l.zone # NoZone => zoneState'[l.zone] = "active"
  BY <1>1, <1>2, <1>4 DEF Resolve, ZonesTypeOK
<1>7. \A y \in Zones : zoneState'[y] = zoneState[y] \/ zoneState'[y] = "active"
  BY <1>1, <1>2 DEF Resolve, ZonesTypeOK
<1>8. rows \subseteq rows' /\ l \in rows' /\ rows' = rows \union {l}
  BY DEF Resolve
<1>9. RowsOK'
  <2>1. ASSUME NEW x \in rows', x.zone # NoZone PROVE zoneState'[x.zone] \in {"active", "archived"}
    <3>1. CASE x = l BY <3>1, <1>6, <2>1
    <3>2. CASE x \in rows
      <4>1. x.zone \in Zones BY <3>2, <2>1 DEF ZonesTypeOK, Location
      <4>2. zoneState[x.zone] \in {"active", "archived"} BY <3>2, <2>1 DEF RowsOK
      <4>3. QED BY <4>1, <4>2, <1>7
    <3>3. QED BY <3>1, <3>2, <1>8
  <2>2. QED BY <2>1 DEF RowsOK
<1>10. QED BY <1>3, <1>5, <1>6, <1>7, <1>8, <1>9 DEF ZonesGrow

\* Bottles that come back to a known place find its zone active.
LEMMA ReopenGrows ==
  ASSUME ZonesTypeOK, RowsOK, NEW p \in Places, p # NoPlace => p \in rows, Reopen(p)
  PROVE  /\ ZoneOf(p) # NoZone => zoneState'[ZoneOf(p)] = "active"
         /\ ZonesGrow /\ rows' = rows
<1>1. p # NoPlace /\ p.zone # NoZone => zoneState[p.zone] \in {"active", "archived"}
  BY DEF RowsOK
<1>2. ZoneOf(p) # NoZone => p # NoPlace /\ ZoneOf(p) = p.zone /\ p.zone \in Zones
  BY PlaceFacts DEF ZoneOf
<1>3. ZonesTypeOK'
  BY <1>2 DEF Reopen, Archived, ZonesTypeOK
<1>4. ZoneOf(p) # NoZone => zoneState'[ZoneOf(p)] = "active"
  BY <1>1, <1>2 DEF Reopen, Archived, ZonesTypeOK
<1>5. \A z \in Zones : zoneState'[z] = zoneState[z] \/ zoneState'[z] = "active"
  BY <1>2 DEF Reopen, Archived, ZonesTypeOK
<1>6. RowsOK'
  BY <1>5 DEF RowsOK, Reopen, ZonesTypeOK, Location
<1>7. QED BY <1>3, <1>4, <1>5, <1>6 DEF ZonesGrow, Reopen

\* A transaction that leaves the zones alone.
LEMMA SameZonesGrow ==
  ASSUME ZonesTypeOK, RowsOK, UNCHANGED zoneVars
  PROVE  ZonesGrow
  BY DEF ZonesGrow, ZonesTypeOK, RowsOK, zoneVars

-----------------------------------------------------------------------------
(* One movement keeps the invariants of the data *)

\* One movement: its sums, read at each wine and place.
LEMMA InsertSums ==
  ASSUME JournalTypeOK, NEW m \in Movement, Insert(m)
  PROVE  /\ journal' = journal \union {m} /\ JournalTypeOK'
         /\ \A w \in Wines : total'[w] = IF w = m.wine THEN total[w] + m.delta ELSE total[w]
         /\ \A w \in Wines, p \in Places :
              stock'[w][p] = IF w = m.wine /\ p = m.place THEN stock[w][p] + m.delta ELSE stock[w][p]
<1>1. m.wine \in Wines /\ m.place \in Places /\ m.delta \in Int
  BY DEF Movement
<1>2. QED BY <1>1 DEF Insert, JournalTypeOK

\* One movement keeps the stocks at or above zero, and in active zones.
LEMMA OneKeepsStock ==
  ASSUME DataInv, NEW m, WritesOne(m), ZonesGrow
  PROVE  NeverNegative' /\ StockTraced' /\ NoBottleOutOfSight'
<1> USE DEF WritesOne, Admitted
<1>0. m \in Movement /\ JournalTypeOK /\ Insert(m)
  BY DEF DataInv
<1>1. m.wine \in Wines /\ m.place \in Places /\ m.delta \in Int
  BY <1>0 DEF Movement
<1>2. NeverNegative'
  BY <1>0, <1>1, InsertSums DEF DataInv, NeverNegative, JournalTypeOK
<1>3. StockTraced'
  BY <1>0, <1>1, InsertSums DEF DataInv, StockTraced
<1>4. NoBottleOutOfSight'
  <2>1. SUFFICES ASSUME NEW w \in Wines, NEW p \in Places, ZoneOf(p) # NoZone,
                        zoneState'[ZoneOf(p)] # "active"
                 PROVE  stock'[w][p] = 0
    BY DEF NoBottleOutOfSight
  <2>2. ZoneOf(p) \in Zones
    BY <2>1, PlaceFacts
  <2>3. zoneState[ZoneOf(p)] # "active"
    BY <2>1, <2>2 DEF ZonesGrow
  <2>4. stock[w][p] = 0
    BY <2>1, <2>3 DEF DataInv, NoBottleOutOfSight
  <2>5. CASE ~ (w = m.wine /\ p = m.place)
    BY <2>4, <2>5, <1>0, InsertSums
  <2>6. CASE w = m.wine /\ p = m.place
    <3>1. ~ (m.delta > 0)
      BY <2>1, <2>6
    <3>2. stock[w][p] + m.delta >= 0
      BY <2>6
    <3>3. m.delta = 0
      BY <3>1, <3>2, <2>4, <1>1
    <3>4. QED BY <3>3, <2>4, <2>6, <1>0, <1>1, InsertSums
  <2>7. QED BY <2>5, <2>6
<1>5. QED BY <1>2, <1>3, <1>4

\* One movement keeps keys, reversals, moves and places of the history.
LEMMA OneKeepsHistory ==
  ASSUME DataInv, NEW m, WritesOne(m), ZonesGrow
  PROVE  KeysOK' /\ ReversalExact' /\ MovesWhole' /\ HistoryKeepsItsPlaces'
<1>0. m \in Movement /\ JournalTypeOK /\ journal' = journal \union {m} /\ ~ Recorded(m.key)
  BY DEF WritesOne, Admitted, DataInv, Insert
<1>1. \A o \in journal \union {m} : o.key \in MovementKey /\ o.key # NoKey
  BY <1>0, JournalAssumption DEF JournalTypeOK, Movement
<1>2. KeysOK'
  BY <1>0 DEF DataInv, KeysOK, Recorded, WritesOne
<1>3. ReversalExact'
  <2>1. \A o \in journal : o.reverses # NoKey => o.reverses # m.reverses
    BY DEF WritesOne, Admitted, Reversed
  <2>2. QED BY <1>0, <2>1 DEF DataInv, ReversalExact, WritesOne, Admitted
<1>4. MovesWhole'
  <2>1. SUFFICES ASSUME NEW a \in journal', a.type = "MOVE"
                 PROVE  \E b \in journal' :
                          /\ b.key = Partner(a.key) /\ b.type = "MOVE"
                          /\ b.wine = a.wine /\ b.delta = -a.delta /\ b.place # a.place
                          /\ Reversed(b.key)' <=> Reversed(a.key)'
    BY DEF MovesWhole
  <2>2. a \in journal
    BY <1>0, <2>1 DEF WritesOne
  <2>3. PICK b \in journal :
          /\ b.key = Partner(a.key) /\ b.type = "MOVE"
          /\ b.wine = a.wine /\ b.delta = -a.delta /\ b.place # a.place
          /\ Reversed(b.key) <=> Reversed(a.key)
    BY <2>1, <2>2 DEF DataInv, MovesWhole
  <2>4. m.reverses # a.key /\ m.reverses # b.key
    BY <2>1, <2>2, <2>3 DEF WritesOne
  <2>5. (Reversed(b.key)' <=> Reversed(b.key)) /\ (Reversed(a.key)' <=> Reversed(a.key))
    BY <1>0, <2>4 DEF Reversed
  <2>6. QED BY <2>3, <2>5, <1>0
<1>5. HistoryKeepsItsPlaces'
  <2>1. SUFFICES ASSUME NEW a \in journal', a.place # NoPlace
                 PROVE  /\ a.place \in rows' /\ a.place.cave = WineCave[a.wine]
                        /\ a.place.zone # NoZone => zoneState'[a.place.zone] \in {"active", "archived"}
    BY DEF HistoryKeepsItsPlaces
  <2>2. a.place \in rows' /\ a.place.cave = WineCave[a.wine]
    BY <1>0, <2>1 DEF DataInv, HistoryKeepsItsPlaces, ZonesGrow, WritesOne, Admitted
  <2>3. QED BY <2>2 DEF ZonesGrow, RowsOK
<1>6. QED BY <1>2, <1>3, <1>4, <1>5

\* One movement keeps everything a transaction could disturb.
LEMMA OneKeepsData ==
  ASSUME DataInv, NEW m, WritesOne(m), ZonesGrow
  PROVE  DataInv' /\ journal \subseteq journal'
<1>1. JournalTypeOK' /\ journal \subseteq journal'
  BY InsertSums DEF DataInv, WritesOne, Admitted
<1>2. QED BY <1>1, OneKeepsStock, OneKeepsHistory DEF DataInv, ZonesGrow

-----------------------------------------------------------------------------
(* Two movements keep them too *)

\* Two movements of a wine at two places: their sums.
LEMMA InsertBothSums ==
  ASSUME JournalTypeOK, NEW m \in Movement, NEW n \in Movement, InsertBoth(m, n),
         m.wine = n.wine, m.place # n.place
  PROVE  /\ journal' = journal \union {m, n} /\ JournalTypeOK'
         /\ \A w \in Wines : total'[w] = IF w = m.wine THEN total[w] + m.delta + n.delta ELSE total[w]
         /\ \A w \in Wines, p \in Places :
              stock'[w][p] = IF w = m.wine /\ p = m.place THEN stock[w][p] + m.delta
                             ELSE IF w = m.wine /\ p = n.place THEN stock[w][p] + n.delta
                             ELSE stock[w][p]
<1>1. /\ m.wine \in Wines /\ m.place \in Places /\ m.delta \in Int
      /\ n.place \in Places /\ n.delta \in Int
  BY DEF Movement
<1>2. QED BY <1>1 DEF InsertBoth, JournalTypeOK

\* The two halves of a move, or of its cancellation, keep the stocks.
LEMMA TwoKeepStock ==
  ASSUME DataInv, NEW m, NEW n, WritesTwo(m, n), ZonesGrow
  PROVE  NeverNegative' /\ StockTraced' /\ NoBottleOutOfSight'
<1> USE DEF WritesTwo, Admitted
<1>0. /\ m \in Movement /\ n \in Movement /\ JournalTypeOK /\ InsertBoth(m, n)
      /\ m.wine = n.wine /\ m.place # n.place /\ m.delta = -n.delta
  BY DEF DataInv
<1>1. /\ m.wine \in Wines /\ m.place \in Places /\ m.delta \in Int
      /\ n.place \in Places /\ n.delta \in Int
  BY <1>0 DEF Movement
<1>2. NeverNegative'
  BY <1>0, <1>1, InsertBothSums DEF DataInv, NeverNegative, JournalTypeOK
<1>3. StockTraced'
  BY <1>0, <1>1, InsertBothSums DEF DataInv, StockTraced
<1>4. NoBottleOutOfSight'
  <2>1. SUFFICES ASSUME NEW w \in Wines, NEW p \in Places, ZoneOf(p) # NoZone,
                        zoneState'[ZoneOf(p)] # "active"
                 PROVE  stock'[w][p] = 0
    BY DEF NoBottleOutOfSight
  <2>2. ZoneOf(p) \in Zones
    BY <2>1, PlaceFacts
  <2>3. zoneState[ZoneOf(p)] # "active"
    BY <2>1, <2>2 DEF ZonesGrow
  <2>4. stock[w][p] = 0
    BY <2>1, <2>3 DEF DataInv, NoBottleOutOfSight
  <2>5. ASSUME NEW x \in {m, n}, w = x.wine, p = x.place PROVE x.delta = 0
    <3>1. x.delta \in Int /\ ~ (x.delta > 0) /\ stock[w][p] + x.delta >= 0
      BY <2>1, <2>5, <1>0, <1>1
    <3>2. QED BY <3>1, <2>4
  <2>6. QED BY <2>4, <2>5, <1>0, <1>1, InsertBothSums
<1>5. QED BY <1>2, <1>3, <1>4

\* The two halves keep keys, reversals, moves and places of the history.
LEMMA TwoKeepHistory ==
  ASSUME DataInv, NEW m, NEW n, WritesTwo(m, n), ZonesGrow
  PROVE  KeysOK' /\ ReversalExact' /\ MovesWhole' /\ HistoryKeepsItsPlaces'
<1>0. /\ m \in Movement /\ n \in Movement /\ journal \subseteq Movement
      /\ journal' = journal \union {m, n} /\ ~ Recorded(m.key) /\ ~ Recorded(n.key)
  BY DEF WritesTwo, Admitted, DataInv, InsertBoth, JournalTypeOK
<1>1. \A o \in journal \union {m, n} : o.key \in MovementKey /\ o.key # NoKey
  BY <1>0, JournalAssumption DEF Movement
<1>2. KeysOK'
  <2>1. \A a, b \in journal' : a.key = b.key => a = b
    BY <1>0 DEF DataInv, KeysOK, Recorded, WritesTwo
  <2>2. ASSUME NEW a \in journal', a.type = "MOVE"
        PROVE  a.key.part \in {"from", "to"} /\ a.delta # 0 /\ a.reverses = NoKey
    <3>1. CASE a \in journal BY <3>1, <2>2 DEF DataInv, KeysOK
    <3>2. CASE a = m BY <3>2, <2>2 DEF WritesTwo
    <3>3. CASE a = n
      <4>1. n.delta # 0 BY <1>0 DEF WritesTwo, Movement
      <4>2. n.key.part \in {"from", "to"} /\ n.reverses = NoKey BY <3>3, <2>2 DEF WritesTwo, Partner
      <4>3. QED BY <4>1, <4>2, <3>3
    <3>4. QED BY <1>0, <3>1, <3>2, <3>3
  <2>3. QED BY <2>1, <2>2 DEF KeysOK
<1>3. ReversalExact'
  <2>1. \A o \in journal : o.reverses # NoKey => o.reverses # m.reverses /\ o.reverses # n.reverses
    BY DEF WritesTwo, Admitted, Reversed
  <2>2. m.reverses # NoKey => m.reverses # n.reverses
    BY <1>1, PartnerFacts DEF WritesTwo
  <2>3. n.reverses # NoKey => m.reverses # n.reverses
    BY <1>1, PartnerFacts DEF WritesTwo
  <2>4. ASSUME NEW a \in journal', a.reverses # NoKey
        PROVE  /\ \E o \in journal' : /\ o.key = a.reverses /\ o.reverses = NoKey
                                      /\ o.wine = a.wine /\ o.place = a.place /\ o.delta = -a.delta
               /\ \A b \in journal' : b.reverses = a.reverses => b = a
    <3>1. \E o \in journal : /\ o.key = a.reverses /\ o.reverses = NoKey
                             /\ o.wine = a.wine /\ o.place = a.place /\ o.delta = -a.delta
      BY <1>0, <2>4 DEF DataInv, ReversalExact, WritesTwo, Admitted
    <3>2. \A b \in journal' : b.reverses = a.reverses => b = a
      BY <1>0, <2>1, <2>2, <2>3, <2>4 DEF DataInv, ReversalExact
    <3>3. QED BY <3>1, <3>2, <1>0
  <2>5. QED BY <2>4 DEF ReversalExact
<1>4. MovesWhole'
  <2>1. SUFFICES ASSUME NEW a \in journal', a.type = "MOVE"
                 PROVE  \E b \in journal' :
                          /\ b.key = Partner(a.key) /\ b.type = "MOVE"
                          /\ b.wine = a.wine /\ b.delta = -a.delta /\ b.place # a.place
                          /\ Reversed(b.key)' <=> Reversed(a.key)'
    BY DEF MovesWhole
  <2>2. CASE a \in {m, n}
    <3>1. /\ m.type = "MOVE" /\ n.type = "MOVE" /\ m.reverses = NoKey /\ n.reverses = NoKey
          /\ n.key = Partner(m.key) /\ m.key = Partner(n.key)
      BY <2>1, <2>2 DEF WritesTwo
    <3>2. \A x \in {m, n} : ~ Reversed(x.key)'
      <4>1. SUFFICES ASSUME NEW x \in {m, n}, NEW y \in journal', y.reverses = x.key PROVE FALSE
        BY DEF Reversed
      <4>2. y.reverses # NoKey
        BY <4>1, <1>1
      <4>3. y \in journal
        BY <4>2, <3>1, <1>0
      <4>4. \E o \in journal : o.key = x.key
        BY <4>1, <4>2, <4>3 DEF DataInv, ReversalExact
      <4>5. QED BY <4>4, <1>0 DEF Recorded
    <3>3. PICK b \in {m, n} : b # a
      BY DEF WritesTwo
    <3>4. b.delta = -a.delta /\ b.wine = a.wine /\ b.place # a.place /\ b.key = Partner(a.key)
      <4>1. /\ m.delta \in Int /\ n.delta \in Int /\ m.delta = -n.delta
            /\ m.wine = n.wine /\ m.place # n.place
        BY <1>0 DEF WritesTwo, Movement
      <4>2. (a = m /\ b = n) \/ (a = n /\ b = m)
        BY <2>2, <3>3
      <4>3. CASE a = m /\ b = n BY <4>1, <4>3, <3>1
      <4>4. CASE a = n /\ b = m BY <4>1, <4>4, <3>1
      <4>5. QED BY <4>2, <4>3, <4>4
    <3>5. QED BY <2>2, <3>1, <3>2, <3>3, <3>4, <1>0
  <2>3. CASE a \in journal
    <3>1. PICK b \in journal :
            /\ b.key = Partner(a.key) /\ b.type = "MOVE"
            /\ b.wine = a.wine /\ b.delta = -a.delta /\ b.place # a.place
            /\ Reversed(b.key) <=> Reversed(a.key)
      BY <2>1, <2>3 DEF DataInv, MovesWhole
    <3>2. a.key \in {m.reverses, n.reverses} <=> b.key \in {m.reverses, n.reverses}
      <4>1. a.key = Partner(b.key)
        BY <2>1, <2>3, <3>1, <1>1, PartnerFacts DEF DataInv, KeysOK
      <4>2. CASE m.reverses = NoKey /\ n.reverses = NoKey
        BY <4>2, <1>1, <2>3, <3>1
      <4>3. CASE n.reverses = Partner(m.reverses) /\ m.reverses = Partner(n.reverses)
        BY <4>1, <4>3, <3>1
      <4>4. QED BY <4>2, <4>3 DEF WritesTwo
    <3>3. /\ Reversed(a.key)' <=> (Reversed(a.key) \/ a.key \in {m.reverses, n.reverses})
          /\ Reversed(b.key)' <=> (Reversed(b.key) \/ b.key \in {m.reverses, n.reverses})
      BY <1>0 DEF Reversed
    <3>4. QED BY <3>1, <3>2, <3>3, <1>0
  <2>4. QED BY <2>2, <2>3, <1>0
<1>5. HistoryKeepsItsPlaces'
  <2>1. SUFFICES ASSUME NEW a \in journal', a.place # NoPlace
                 PROVE  /\ a.place \in rows' /\ a.place.cave = WineCave[a.wine]
                        /\ a.place.zone # NoZone => zoneState'[a.place.zone] \in {"active", "archived"}
    BY DEF HistoryKeepsItsPlaces
  <2>2. a.place \in rows' /\ a.place.cave = WineCave[a.wine]
    BY <1>0, <2>1 DEF DataInv, HistoryKeepsItsPlaces, ZonesGrow, WritesTwo, Admitted
  <2>3. QED BY <2>2 DEF ZonesGrow, RowsOK
<1>6. QED BY <1>2, <1>3, <1>4, <1>5

\* The two halves keep everything a transaction could disturb.
LEMMA TwoKeepData ==
  ASSUME DataInv, NEW m, NEW n, WritesTwo(m, n), ZonesGrow
  PROVE  DataInv' /\ journal \subseteq journal'
<1>1. JournalTypeOK' /\ journal \subseteq journal'
  BY InsertBothSums DEF DataInv, WritesTwo, Admitted
<1>2. QED BY <1>1, TwoKeepStock, TwoKeepHistory DEF DataInv, ZonesGrow

-----------------------------------------------------------------------------
(* Every transaction changes nothing, or writes one movement, or two *)

Outcome ==
  \/ DataUnchanged
  \/ ZonesGrow /\ \E m : WritesOne(m)
  \/ ZonesGrow /\ \E m, n : WritesTwo(m, n)

\* The places an old client's withdrawal may come from are the cellar's own.
LEMMA LegacyPlacesOwn ==
  ASSUME DataInv, NEW w \in Wines, NEW q \in Nat \ {0}, NEW p \in LegacyExitPlaces(w, q)
  PROVE  p \in Places /\ (p # NoPlace => p \in rows /\ p.cave = WineCave[w])
<1>1. NoPlace \in Places
  BY DEF Places
<1>2. p = NoPlace \/ (p \in Places /\ stock[w][p] >= q)
  BY DEF LegacyExitPlaces
<1>3. ASSUME p # NoPlace PROVE p \in rows /\ p.cave = WineCave[w]
  <2>1. stock[w][p] # 0 /\ p \in Places
    BY <1>2, <1>3 DEF DataInv, JournalTypeOK
  <2>2. PICK m \in journal : m.wine = w /\ m.place = p
    BY <2>1 DEF DataInv, StockTraced
  <2>3. QED BY <2>2, <1>3 DEF DataInv, HistoryKeepsItsPlaces
<1>4. QED BY <1>1, <1>2, <1>3

\* An entry's transaction writes one admitted movement, or nothing.
LEMMA CommitInOutcome ==
  ASSUME DataInv, CallsOK, TypeOK, NEW h \in Handlers, CommitIn(h)
  PROVE  Outcome
<1> DEFINE r == call[h].req
<1>1. r \in Requests /\ r \in InRequest /\ WineCave[r.wine] = r.cave
  BY RequestKinds DEF CallsOK, CallOK, CommitIn, Ready
<1>2. call[h].photo \in Photos \union {NoPhoto}
  BY DEF TypeOK, Call
<1>3. /\ r.cave \in Caves /\ r.key \in Keys /\ r.wine \in Wines /\ r.qty \in Nat \ {0}
      /\ r.to \in LocationInput \union {NoPlace}
  BY <1>1 DEF InRequest
<1>4. CASE Refuse(h)
  BY <1>4 DEF Refuse, database, Outcome, DataUnchanged
<1>5. ASSUME NEW l \in TypedPlaces(r.cave, r.to), UniqueViolation(Entry(r, call[h].photo, l)), Race(h)
      PROVE  Outcome
  BY <1>5 DEF Race, database, Outcome, DataUnchanged
<1>6. ASSUME NEW l \in TypedPlaces(r.cave, r.to), ~ UniqueViolation(Entry(r, call[h].photo, l)),
             Insert(Entry(r, call[h].photo, l)), Settle(r.to, l)
      PROVE  Outcome
  <2> DEFINE m == Entry(r, call[h].photo, l)
  <2>1. /\ l \in Places /\ ZonesGrow
        /\ l # NoPlace => l \in rows' /\ l.cave = r.cave
        /\ ZoneOf(l) # NoZone => zoneState'[ZoneOf(l)] = "active"
    <3>1. CASE r.to = NoPlace
      BY <3>1, <1>6, SameZonesGrow, PlaceFacts DEF TypedPlaces, Settle, DataInv, Places, ZoneOf
    <3>2. CASE r.to # NoPlace
      BY <3>2, <1>3, <1>6, ResolveGrows, PlaceFacts DEF TypedPlaces, Settle, DataInv
    <3>3. QED BY <3>1, <3>2
  <2>2. m \in Movement /\ m.type = "IN" /\ m.reverses = NoKey /\ m.key = Whole(r.key)
        /\ m.wine = r.wine /\ m.place = l /\ m.delta = r.qty
    BY <1>2, <1>3, <2>1, KeyFacts DEF Entry, Movement
  <2>3. stock[m.wine][m.place] + m.delta >= 0 /\ total[m.wine] + m.delta >= 0
    BY <1>3, <2>1, <2>2 DEF DataInv, NeverNegative, JournalTypeOK
  <2>4. ~ Recorded(m.key)
    BY <1>6 DEF UniqueViolation
  <2>5. \A o \in journal : o.key # NoKey
    BY JournalAssumption DEF DataInv, JournalTypeOK, Movement
  <2>6. Admitted(m)
    BY <1>1, <2>1, <2>2, <2>3, <2>4 DEF Admitted
  <2>7. WritesOne(m)
    BY <1>6, <2>2, <2>3, <2>5, <2>6 DEF WritesOne
  <2>8. QED BY <2>1, <2>7 DEF Outcome
<1>7. QED BY <1>4, <1>5, <1>6 DEF CommitIn

\* A withdrawal's transaction writes one admitted movement, or nothing.
LEMMA CommitOutOutcome ==
  ASSUME DataInv, CallsOK, TypeOK, NEW h \in Handlers, CommitOut(h)
  PROVE  Outcome
<1> DEFINE r == call[h].req
<1>1. r \in Requests /\ r \in OutRequest /\ WineCave[r.wine] = r.cave
      /\ (r.at \in {Unset, NoPlace} \/ r.at.cave = r.cave)
  BY RequestKinds DEF CallsOK, CallOK, CommitOut, Ready
<1>2. call[h].photo \in Photos \union {NoPhoto}
  BY DEF TypeOK, Call
<1>3. /\ r.cave \in Caves /\ r.key \in Keys /\ r.wine \in Wines /\ r.qty \in Nat \ {0}
      /\ r.at \in Places \union {Unset}
  BY <1>1 DEF OutRequest
<1>4. CASE Refuse(h)
  BY <1>4 DEF Refuse, database, Outcome, DataUnchanged
<1>5. CASE Race(h)
  BY <1>5 DEF Race, database, Outcome, DataUnchanged
<1>6. ASSUME NEW p \in IF r.at = Unset THEN LegacyExitPlaces(r.wine, r.qty) ELSE {r.at},
             ~ TriggerRefuses(Withdrawal(r, call[h].photo, p)),
             ~ UniqueViolation(Withdrawal(r, call[h].photo, p)),
             PlaceExists(p), ~ Lacks(r.wine, p, -r.qty),
             Insert(Withdrawal(r, call[h].photo, p)), UNCHANGED zoneVars
      PROVE  Outcome
  <2> DEFINE m == Withdrawal(r, call[h].photo, p)
  <2>1. p \in Places /\ (p # NoPlace => p \in rows /\ p.cave = r.cave)
    BY <1>1, <1>3, <1>6, LegacyPlacesOwn DEF PlaceExists
  <2>2. ZonesGrow /\ rows' = rows
    BY <1>6, SameZonesGrow DEF DataInv, zoneVars
  <2>3. m \in Movement /\ m.type = "OUT" /\ m.reverses = NoKey /\ m.key = Whole(r.key)
        /\ m.wine = r.wine /\ m.place = p /\ m.delta = -r.qty
    BY <1>2, <1>3, <2>1, KeyFacts DEF Withdrawal, Movement
  <2>4. stock[m.wine][m.place] + m.delta >= 0 /\ total[m.wine] + m.delta >= 0
    BY <1>3, <1>6, <2>1, <2>3 DEF DataInv, JournalTypeOK, TriggerRefuses, Lacks
  <2>5. ~ Recorded(m.key)
    BY <1>6 DEF UniqueViolation
  <2>6. \A o \in journal : o.key # NoKey
    BY JournalAssumption DEF DataInv, JournalTypeOK, Movement
  <2>7. Admitted(m)
    BY <1>1, <1>3, <2>1, <2>2, <2>3, <2>4, <2>5 DEF Admitted
  <2>8. WritesOne(m)
    BY <1>6, <2>3, <2>4, <2>6, <2>7 DEF WritesOne
  <2>9. QED BY <2>2, <2>8 DEF Outcome
<1>7. QED BY <1>4, <1>5, <1>6 DEF CommitOut
\* What the check of a cancellation found, and the halves it will reverse.
LEMMA HalvesFacts ==
  ASSUME DataInv, NEW r \in CancelRequest,
         NEW o \in journal, o.key = r.target, o.reverses = NoKey, WineCave[o.wine] = r.cave,
         NEW m, NEW n, Halves(r.target) = {m, n}
  PROVE  /\ m \in journal /\ n \in journal /\ m.reverses = NoKey /\ n.reverses = NoKey
         /\ \/ m = o /\ n = o /\ o.type # "MOVE"
            \/ /\ m # n /\ o \in {m, n} /\ m.type = "MOVE" /\ n.type = "MOVE"
               /\ m.key = Partner(n.key) /\ n.key = Partner(m.key)
               /\ m.wine = n.wine /\ m.delta = -n.delta /\ n.delta = -m.delta
               /\ m.delta # 0 /\ m.place # n.place
<1>1. At(r.target) = o
  BY AtIsUnique DEF DataInv
<1>2. CASE o.type # "MOVE"
  <2>1. {m, n} = {o}
    BY <1>1, <1>2 DEF Halves
  <2>2. QED BY <2>1, <1>2
<1>3. CASE o.type = "MOVE"
  <2>1. PICK b \in journal :
          /\ b.key = Partner(o.key) /\ b.type = "MOVE"
          /\ b.wine = o.wine /\ b.delta = -o.delta /\ b.place # o.place
          /\ Reversed(b.key) <=> Reversed(o.key)
    BY <1>3 DEF DataInv, MovesWhole
  <2>2. o \in Movement /\ b \in Movement /\ o.key \in MovementKey
    BY DEF DataInv, JournalTypeOK, Movement
  <2>3. o.key.part \in {"from", "to"} /\ o.delta # 0 /\ b.delta # 0
    BY <1>3, <2>1 DEF DataInv, KeysOK
  <2>4. o.key = Partner(b.key) /\ b.key # o.key
    BY <2>1, <2>2, <2>3, PartnerFacts
  <2>5. o.delta = -b.delta
    BY <2>1, <2>2 DEF Movement
  <2>6. {m, n} = {o, b}
    BY <1>1, <1>3, <2>1 DEF Halves, DataInv, KeysOK
  <2>7. b.reverses = NoKey
    BY <2>1 DEF DataInv, KeysOK
  <2>8. (m = o /\ n = b) \/ (m = b /\ n = o)
    BY <2>6, <2>4
  <2>9. CASE m = o /\ n = b BY <2>1, <2>3, <2>4, <2>5, <2>7, <2>9, <1>3
  <2>10. CASE m = b /\ n = o BY <2>1, <2>3, <2>4, <2>5, <2>7, <2>10, <1>3
  <2>11. QED BY <2>8, <2>9, <2>10
<1>4. QED BY <1>2, <1>3

\* A cancellation writes the reverse of one movement, or of both halves of a move, or nothing.
LEMMA CommitCancelOutcome ==
  ASSUME DataInv, CallsOK, TypeOK, NEW h \in Handlers, CommitCancel(h)
  PROVE  Outcome
<1> DEFINE r == call[h].req
<1>1. r \in Requests /\ r \in CancelRequest
  BY RequestKinds DEF CallsOK, CallOK, CommitCancel, Ready
<1>2. r.cave \in Caves /\ r.key \in Keys /\ r.target \in MovementKey
  BY <1>1 DEF CancelRequest
<1>3. PICK o \in journal : o.key = r.target /\ o.reverses = NoKey /\ WineCave[o.wine] = r.cave
  BY DEF CallsOK, CallOK, CommitCancel, Ready
<1>4. CASE Refuse(h)
  BY <1>4 DEF Refuse, database, Outcome, DataUnchanged
<1>5. CASE Race(h)
  BY <1>5 DEF Race, database, Outcome, DataUnchanged
<1>6. ASSUME NEW m \in Halves(r.target), NEW n \in Halves(r.target), Halves(r.target) = {m, n},
             m.delta <= n.delta,
             ~ TriggerRefuses(Undo(r, m)),
             ~ UniqueViolation(IF UniqueViolation(Undo(r, m)) THEN Undo(r, m) ELSE Undo(r, n)),
             ~ (n.delta > 0 /\ Lacks(n.wine, n.place, -n.delta)),
             IF m = n THEN Insert(Undo(r, m)) ELSE InsertBoth(Undo(r, m), Undo(r, n)),
             IF m.delta < 0 THEN Reopen(m.place) ELSE UNCHANGED zoneVars
      PROVE  Outcome
  <2> DEFINE first == Undo(r, m)
             last == Undo(r, n)
  <2>1. /\ m \in journal /\ n \in journal /\ m.reverses = NoKey /\ n.reverses = NoKey
        /\ \/ m = o /\ n = o /\ o.type # "MOVE"
           \/ /\ m # n /\ o \in {m, n} /\ m.type = "MOVE" /\ n.type = "MOVE"
              /\ m.key = Partner(n.key) /\ n.key = Partner(m.key)
              /\ m.wine = n.wine /\ m.delta = -n.delta /\ n.delta = -m.delta
              /\ m.delta # 0 /\ m.place # n.place
    BY <1>1, <1>3, <1>6, HalvesFacts
  <2>2. ASSUME NEW x \in {m, n}
        PROVE  /\ x \in Movement /\ x.wine \in Wines /\ x.place \in Places /\ x.delta \in Int
               /\ x.key \in MovementKey /\ x.key # NoKey
               /\ Undo(r, x) \in Movement
               /\ Undo(r, x).wine = x.wine /\ Undo(r, x).place = x.place
               /\ Undo(r, x).delta = -x.delta /\ Undo(r, x).reverses = x.key
               /\ Undo(r, x).type = "ADJUST"
               /\ Undo(r, x).key = IF x.key = r.target THEN Whole(r.key) ELSE Pair(r.key)
               /\ x.place # NoPlace => x.place \in rows /\ x.place.cave = WineCave[x.wine]
    <3>1. /\ x \in Movement /\ x.wine \in Wines /\ x.place \in Places /\ x.delta \in Int
          /\ x.key \in MovementKey /\ x.key # NoKey
      BY <2>1, JournalAssumption DEF DataInv, JournalTypeOK, Movement
    <3>2. x.place # NoPlace => x.place \in rows /\ x.place.cave = WineCave[x.wine]
      BY <2>1 DEF DataInv, HistoryKeepsItsPlaces
    <3>3. QED BY <3>1, <3>2, <1>2, KeyFacts DEF Undo, Movement
  <2>3. ~ UniqueViolation(first) /\ ~ UniqueViolation(last)
    BY <1>6
  <2>4. ASSUME NEW x \in {m, n}
        PROVE  ~ Recorded(Undo(r, x).key) /\ ~ Reversed(x.key)
    BY <2>2, <2>3 DEF UniqueViolation
  <2>5. /\ ZonesGrow /\ rows' = rows
        /\ m.delta < 0 /\ ZoneOf(m.place) # NoZone => zoneState'[ZoneOf(m.place)] = "active"
    BY <1>6, <2>2, SameZonesGrow, ReopenGrows DEF DataInv, zoneVars
  <2>6. ASSUME NEW x \in {m, n}, stock[x.wine][x.place] - x.delta >= 0,
               x.delta < 0 /\ ZoneOf(x.place) # NoZone => zoneState'[ZoneOf(x.place)] = "active"
        PROVE  Admitted(Undo(r, x))
    <3>1. stock[x.wine][x.place] \in Int
      BY <2>2 DEF DataInv, JournalTypeOK
    <3>2. \E y \in journal : /\ y.key = x.key /\ y.reverses = NoKey
                             /\ y.wine = x.wine /\ y.place = x.place /\ y.delta = -(-x.delta)
      BY <2>1, <2>2
    <3>3. QED BY <2>2, <2>4, <2>5, <2>6, <3>1, <3>2 DEF Admitted
  <2>7. stock[n.wine][n.place] - n.delta >= 0
    BY <1>6, <2>2 DEF DataInv, NeverNegative, JournalTypeOK, Lacks
  <2>8. CASE m = n
    <3>1. Admitted(first)
      BY <2>5, <2>6, <2>7, <2>8
    <3>2. total[first.wine] + first.delta >= 0
      BY <1>6, <2>2 DEF TriggerRefuses, DataInv, JournalTypeOK
    <3>3. \A x \in journal : x.key = first.reverses => x.type # "MOVE"
      BY <2>1, <2>2, <2>8 DEF DataInv, KeysOK
    <3>4. WritesOne(first)
      BY <1>6, <2>2, <2>8, <3>1, <3>2, <3>3 DEF WritesOne
    <3>5. QED BY <2>5, <3>4 DEF Outcome
  <2>9. CASE m # n
    <3>1. m.delta < 0 /\ n.delta > 0 /\ ~ (n.delta < 0) /\ m.key # n.key
      BY <1>6, <2>1, <2>2, <2>9, PartnerFacts
    <3>2. stock[m.wine][m.place] - m.delta >= 0
      BY <3>1, <2>2 DEF DataInv, NeverNegative, JournalTypeOK
    <3>3. Admitted(first) /\ Admitted(last)
      BY <2>5, <2>6, <2>7, <3>1, <3>2
    <3>4. first.key # last.key
      <4>1. (m.key = r.target /\ n.key # r.target) \/ (m.key # r.target /\ n.key = r.target)
        BY <1>3, <2>1, <2>9, <3>1
      <4>2. QED BY <4>1, <2>2, <1>2, KeyFacts
    <3>5. first.delta = -last.delta /\ first.delta # 0
      BY <2>1, <2>2, <2>9, <3>1
    <3>6. \E x, d \in journal :
             /\ x.type = "MOVE" /\ x.key = first.reverses /\ last.reverses = Partner(x.key)
             /\ d.type = "MOVE" /\ d.key = last.reverses /\ first.reverses = Partner(d.key)
      BY <2>1, <2>2, <2>9
    <3>7. WritesTwo(first, last)
      BY <1>6, <2>1, <2>2, <2>9, <3>3, <3>4, <3>5, <3>6 DEF WritesTwo
    <3>8. QED BY <2>5, <3>7 DEF Outcome
  <2>10. QED BY <2>8, <2>9
<1>7. QED BY <1>4, <1>5, <1>6 DEF CommitCancel

\* An inventory's transaction writes one admitted correction, or nothing.
LEMMA CommitInventoryOutcome ==
  ASSUME DataInv, CallsOK, TypeOK, NEW h \in Handlers, CommitInventory(h)
  PROVE  Outcome
<1> DEFINE r == call[h].req
           delta == r.counted - total[r.wine]
           returning == delta > 0 /\ r.to = NoPlace
<1>1. /\ r \in Requests /\ r \in InventoryRequest /\ WineCave[r.wine] = r.cave
      /\ r.to # NoPlace => r.at = Unset
      /\ r.at \in {Unset, NoPlace} \/ r.at.cave = r.cave
  BY RequestKinds DEF CallsOK, CallOK, CommitInventory, Ready
<1>2. /\ r.cave \in Caves /\ r.key \in Keys /\ r.wine \in Wines /\ r.counted \in Nat
      /\ r.to \in LocationInput \union {NoPlace} /\ r.at \in Places \union {Unset}
  BY <1>1 DEF InventoryRequest
<1>3. delta \in Int /\ total[r.wine] \in Int
  BY <1>2 DEF DataInv, JournalTypeOK
<1>4. CASE UNCHANGED database
  BY <1>4 DEF database, Outcome, DataUnchanged
<1>5. ASSUME NEW p \in InventoryPlaces(r, delta), delta # 0,
             ~ (returning /\ ~ CanReopen(p)),
             ~ UniqueViolation(Correction(r, delta, p)),
             ~ (r.to = NoPlace /\ ~ PlaceExists(p)),
             ~ (delta < 0 /\ Lacks(r.wine, p, delta)),
             Insert(Correction(r, delta, p)),
             IF returning THEN Reopen(p) ELSE Settle(r.to, p)
      PROVE  Outcome
  <2> DEFINE m == Correction(r, delta, p)
  <2>1. /\ p \in Places /\ ZonesGrow
        /\ p # NoPlace => p \in rows' /\ p.cave = r.cave
        /\ delta > 0 /\ ZoneOf(p) # NoZone => zoneState'[ZoneOf(p)] = "active"
    <3>1. CASE r.to # NoPlace
      <4>1. p \in Destinations(r.cave, r.to) /\ Resolve(r.to, p)
        BY <3>1, <1>5 DEF InventoryPlaces, Settle
      <4>2. QED BY <4>1, <3>1, <1>2, ResolveGrows, PlaceFacts DEF DataInv
    <3>2. CASE r.to = NoPlace
      <4>1. p \in Places /\ (p # NoPlace => p \in rows /\ p.cave = r.cave)
        <5>1. PlaceExists(p)
          BY <3>2, <1>5
        <5>2. CASE r.at # Unset
          BY <3>2, <5>1, <5>2, <1>1, <1>2, <1>5 DEF InventoryPlaces, PlaceExists
        <5>3. CASE r.at = Unset /\ delta > 0
          BY <3>2, <5>3, <1>5, ZonesAssumption DEF InventoryPlaces, Places
        <5>4. CASE r.at = Unset /\ ~ (delta > 0)
          BY <3>2, <5>4, <1>1, <1>2, <1>3, <1>5, LegacyPlacesOwn DEF InventoryPlaces
        <5>5. QED BY <5>2, <5>3, <5>4
      <4>2. CASE delta > 0
        BY <3>2, <4>1, <4>2, <1>5, ReopenGrows DEF DataInv
      <4>3. CASE ~ (delta > 0)
        BY <3>2, <4>1, <4>3, <1>5, SameZonesGrow DEF DataInv, Settle, zoneVars
      <4>4. QED BY <4>2, <4>3
    <3>3. QED BY <3>1, <3>2
  <2>2. /\ m \in Movement /\ m.type = "ADJUST" /\ m.reverses = NoKey /\ m.key = Whole(r.key)
        /\ m.wine = r.wine /\ m.place = p /\ m.delta = delta
    BY <1>2, <1>3, <2>1, KeyFacts DEF Correction, Movement
  <2>3. total[m.wine] + m.delta >= 0
    BY <1>2, <1>3, <2>2
  <2>4. stock[m.wine][m.place] + m.delta >= 0
    <3>1. stock[r.wine][p] \in Int /\ stock[r.wine][p] >= 0
      BY <1>2, <2>1 DEF DataInv, NeverNegative, JournalTypeOK
    <3>2. delta < 0 => stock[r.wine][p] + delta >= 0
      BY <3>1, <1>3, <1>5 DEF Lacks
    <3>3. QED BY <3>1, <3>2, <1>3, <2>2
  <2>5. ~ Recorded(m.key)
    BY <1>5 DEF UniqueViolation
  <2>6. \A o \in journal : o.key # NoKey
    BY JournalAssumption DEF DataInv, JournalTypeOK, Movement
  <2>7. Admitted(m)
    BY <1>1, <2>1, <2>2, <2>4, <2>5 DEF Admitted
  <2>8. WritesOne(m)
    BY <1>5, <2>2, <2>3, <2>6, <2>7 DEF WritesOne
  <2>9. QED BY <2>1, <2>8 DEF Outcome
<1>6. QED BY <1>4, <1>5 DEF CommitInventory, Refuse

\* A move's transaction writes both halves, or nothing.
LEMMA CommitMoveOutcome ==
  ASSUME DataInv, CallsOK, TypeOK, NEW h \in Handlers, CommitMove(h)
  PROVE  Outcome
<1> DEFINE r == call[h].req
<1>1. /\ r \in Requests /\ r \in MoveRequest /\ WineCave[r.wine] = r.cave
      /\ r.from = NoPlace \/ r.from.cave = r.cave
  BY RequestKinds DEF CallsOK, CallOK, CommitMove, Ready
<1>2. /\ r.cave \in Caves /\ r.key \in Keys /\ r.wine \in Wines /\ r.qty \in Nat \ {0}
      /\ r.to \in LocationInput /\ r.from \in Places
  BY <1>1 DEF MoveRequest
<1>3. CASE UNCHANGED database
  BY <1>3 DEF database, Outcome, DataUnchanged
<1>4. ASSUME NEW l \in Destinations(r.cave, r.to), l # r.from,
             ~ (UniqueViolation(Arrival(r, l)) \/ UniqueViolation(Departure(r))),
             ~ (~ PlaceExists(r.from) \/ Lacks(r.wine, r.from, -r.qty)),
             InsertBoth(Arrival(r, l), Departure(r)), Resolve(r.to, l)
      PROVE  Outcome
  <2> DEFINE m == Arrival(r, l)
             n == Departure(r)
  <2>1. /\ l \in Places /\ l # NoPlace /\ l \in rows' /\ l.cave = r.cave /\ ZonesGrow
        /\ ZoneOf(l) # NoZone => zoneState'[ZoneOf(l)] = "active"
    BY <1>2, <1>4, ResolveGrows, PlaceFacts DEF DataInv
  <2>2. r.from # NoPlace => r.from \in rows' /\ r.from.cave = r.cave
    BY <1>1, <1>4, <2>1 DEF PlaceExists, ZonesGrow
  <2>3. /\ m \in Movement /\ m.type = "MOVE" /\ m.reverses = NoKey /\ m.key = To(r.key)
        /\ m.wine = r.wine /\ m.place = l /\ m.delta = r.qty
    BY <1>2, <2>1, KeyFacts DEF Arrival, Movement
  <2>4. /\ n \in Movement /\ n.type = "MOVE" /\ n.reverses = NoKey /\ n.key = From(r.key)
        /\ n.wine = r.wine /\ n.place = r.from /\ n.delta = -r.qty
    BY <1>2, KeyFacts DEF Departure, Movement
  <2>5. ~ Recorded(m.key) /\ ~ Recorded(n.key)
    BY <1>4 DEF UniqueViolation
  <2>6. stock[r.wine][l] + r.qty >= 0 /\ stock[r.wine][r.from] + (-r.qty) >= 0
    BY <1>2, <1>4, <2>1 DEF DataInv, NeverNegative, JournalTypeOK, Lacks
  <2>7. Admitted(m)
    BY <1>1, <2>1, <2>3, <2>5, <2>6 DEF Admitted
  <2>8. Admitted(n)
    <3>1. ~ (n.delta > 0)
      BY <1>2, <2>4
    <3>2. QED BY <1>1, <2>2, <2>4, <2>5, <2>6, <3>1 DEF Admitted
  <2>9. m.delta = -n.delta /\ m.delta # 0 /\ m.place # n.place
    BY <1>2, <1>4, <2>3, <2>4
  <2>10. /\ m.key # n.key /\ m.key.part \in {"from", "to"}
         /\ n.key = Partner(m.key) /\ m.key = Partner(n.key)
    BY <1>2, <2>3, <2>4, KeyFacts DEF To
  <2>11. WritesTwo(m, n)
    BY <1>4, <2>3, <2>4, <2>7, <2>8, <2>9, <2>10 DEF WritesTwo
  <2>12. QED BY <2>1, <2>11 DEF Outcome
<1>5. QED BY <1>3, <1>4 DEF CommitMove, Refuse, Race

\* Whatever the request, its transaction has one of these outcomes.
LEMMA CommitOutcome ==
  ASSUME DataInv, CallsOK, TypeOK, NEW h \in Handlers, Commit(h)
  PROVE  Outcome
  BY CommitInOutcome, CommitOutOutcome, CommitCancelOutcome, CommitInventoryOutcome,
     CommitMoveOutcome DEF Commit

\* A step that leaves the database alone.
LEMMA QuietKeepsData ==
  ASSUME DataInv, UNCHANGED database
  PROVE  DataInv'
<1>1. /\ journal' = journal /\ stock' = stock /\ total' = total
      /\ zoneState' = zoneState /\ zoneName' = zoneName /\ rows' = rows
  BY DEF database
<1>2. ZonesTypeOK' /\ JournalTypeOK' /\ KeysOK' /\ RowsOK' /\ StockTraced' /\ NeverNegative'
  BY <1>1 DEF DataInv, ZonesTypeOK, JournalTypeOK, KeysOK, RowsOK, StockTraced, NeverNegative
<1>3. ReversalExact' /\ MovesWhole' /\ NoBottleOutOfSight' /\ HistoryKeepsItsPlaces'
  BY <1>1 DEF DataInv, ReversalExact, MovesWhole, Reversed, NoBottleOutOfSight, HistoryKeepsItsPlaces
<1>4. QED BY <1>2, <1>3 DEF DataInv

\* Every outcome of a transaction keeps the data, and the journal only grows.
LEMMA OutcomeKeepsData ==
  ASSUME DataInv, Outcome
  PROVE  DataInv' /\ journal \subseteq journal'
<1>1. CASE DataUnchanged
  BY <1>1, QuietKeepsData DEF DataUnchanged, database
<1>2. ASSUME ZonesGrow, NEW m, WritesOne(m) PROVE DataInv' /\ journal \subseteq journal'
  BY <1>2, OneKeepsData
<1>3. ASSUME ZonesGrow, NEW m, NEW n, WritesTwo(m, n) PROVE DataInv' /\ journal \subseteq journal'
  BY <1>3, TwoKeepData
<1>4. QED BY <1>1, <1>2, <1>3 DEF Outcome

-----------------------------------------------------------------------------
(* The zone operations keep the data *)

\* Creating and renaming touch no row, and archive nothing.
LEMMA NamingKeepsData ==
  ASSUME DataInv, NEW z \in Zones, NEW n \in Names, CreateZone(z, n) \/ RenameZone(z, n),
         UNCHANGED <<journal, stock, total>>
  PROVE  DataInv'
<1>1. /\ journal' = journal /\ stock' = stock /\ total' = total /\ rows' = rows
      /\ zoneName' = [zoneName EXCEPT ![z] = n]
      /\ zoneState' = zoneState \/ zoneState' = [zoneState EXCEPT ![z] = "active"]
  BY DEF CreateZone, RenameZone
<1>2. ZonesTypeOK'
  BY <1>1 DEF DataInv, ZonesTypeOK
<1>3. \A y \in Zones : zoneState'[y] = zoneState[y] \/ zoneState'[y] = "active"
  BY <1>1 DEF DataInv, ZonesTypeOK
<1>4. JournalTypeOK' /\ KeysOK' /\ StockTraced' /\ NeverNegative'
  BY <1>1 DEF DataInv, JournalTypeOK, KeysOK, StockTraced, NeverNegative
<1>5. ReversalExact' /\ MovesWhole'
  BY <1>1 DEF DataInv, ReversalExact, MovesWhole, Reversed
<1>6. RowsOK'
  BY <1>1, <1>3 DEF DataInv, RowsOK, ZonesTypeOK, Location
<1>7. NoBottleOutOfSight'
  BY <1>1, <1>3, PlaceFacts DEF DataInv, NoBottleOutOfSight
<1>8. HistoryKeepsItsPlaces'
  BY <1>1, <1>6 DEF DataInv, HistoryKeepsItsPlaces, RowsOK
<1>9. QED BY <1>2, <1>4, <1>5, <1>6, <1>7, <1>8 DEF DataInv

\* Removing a zone that holds no bottle hides none, and keeps every place that
\* the journal names.
LEMMA RemovalKeepsData ==
  ASSUME DataInv, NEW z \in Zones, RemoveZone(z, Stocked(z), Used(z)),
         UNCHANGED <<journal, stock, total>>
  PROVE  DataInv'
<1>1. /\ journal' = journal /\ stock' = stock /\ total' = total /\ zoneName' = zoneName
      /\ zoneState' = [zoneState EXCEPT ![z] = IF Used(z) THEN "archived" ELSE "gone"]
      /\ rows' = IF Used(z) THEN rows ELSE {l \in rows : l.zone # z}
      /\ ~ Stocked(z)
  BY DEF RemoveZone
<1>2. ZonesTypeOK'
  BY <1>1 DEF DataInv, ZonesTypeOK
<1>3. JournalTypeOK' /\ KeysOK' /\ StockTraced' /\ NeverNegative'
  BY <1>1 DEF DataInv, JournalTypeOK, KeysOK, StockTraced, NeverNegative
<1>4. ReversalExact' /\ MovesWhole'
  BY <1>1 DEF DataInv, ReversalExact, MovesWhole, Reversed
<1>5. RowsOK'
  BY <1>1 DEF DataInv, RowsOK, ZonesTypeOK, Location
<1>6. NoBottleOutOfSight'
  <2>1. SUFFICES ASSUME NEW w \in Wines, NEW p \in Places, ZoneOf(p) # NoZone,
                        zoneState'[ZoneOf(p)] # "active"
                 PROVE  stock[w][p] = 0
    BY <1>1 DEF NoBottleOutOfSight
  <2>2. CASE ZoneOf(p) = z
    <3>1. ~ (stock[w][p] > 0)
      BY <1>1, <2>2 DEF Stocked
    <3>2. QED BY <3>1 DEF DataInv, NeverNegative, JournalTypeOK
  <2>3. CASE ZoneOf(p) # z
    <3>1. zoneState[ZoneOf(p)] # "active"
      BY <1>1, <2>1, <2>3, PlaceFacts DEF DataInv, ZonesTypeOK
    <3>2. QED BY <2>1, <3>1 DEF DataInv, NoBottleOutOfSight
  <2>4. QED BY <2>2, <2>3
<1>7. HistoryKeepsItsPlaces'
  <2>1. SUFFICES ASSUME NEW m \in journal, m.place # NoPlace
                 PROVE  m.place \in rows' /\ m.place.cave = WineCave[m.wine]
    BY <1>1, <1>5 DEF HistoryKeepsItsPlaces, RowsOK
  <2>2. m.place \in rows /\ m.place.cave = WineCave[m.wine]
    BY <2>1 DEF DataInv, HistoryKeepsItsPlaces
  <2>3. m.place.zone = z => Used(z)
    BY <2>1 DEF Used, ZoneOf
  <2>4. QED BY <1>1, <2>2, <2>3
<1>8. QED BY <1>2, <1>3, <1>4, <1>5, <1>6, <1>7 DEF DataInv
-----------------------------------------------------------------------------
(* Calls *)

Answers == [kind : {"created", "replayed", "unmoved", "refused"}, movement : MovementKey \union {NoKey}]
Plans == Answers \union [kind : {"none"}, photo : Photos \union {NoPhoto}]

\* What a check found stays so while the journal grows.
LEMMA OneCall ==
  ASSUME call \in [Handlers -> Call], CallsOK, journal \subseteq journal', NEW h \in Handlers,
         call' = [call EXCEPT ![h] = call'[h]], call'[h] \in Call, CallOK(call[h])'
  PROVE  CallsOK' /\ call' \in [Handlers -> Call]
<1>1. ASSUME NEW g \in Handlers, g # h PROVE CallOK(call[g])'
  <2>1. call'[g] = call[g] /\ CallOK(call[g])
    BY <1>1 DEF CallsOK
  <2>2. QED BY <2>1 DEF CallOK, Recorded, Spent
<1>2. QED BY <1>1 DEF CallsOK

\* An answered call promises nothing a later step could break.
LEMMA AnswerKeepsCalls ==
  ASSUME call \in [Handlers -> Call], CallsOK, journal \subseteq journal', NEW h \in Handlers,
         call[h].phase # "idle", NEW a \in Answers, Answer(h, a)
  PROVE  CallsOK' /\ call' \in [Handlers -> Call]
<1>1. /\ call' = [call EXCEPT ![h] = call'[h]] /\ call'[h] \in Call
      /\ call'[h].phase = "answered" /\ call'[h].req = call[h].req
  BY DEF Answer, Answers, Call, Phases, Kinds
<1>2. CallOK(call[h])'
  BY <1>1 DEF CallsOK, CallOK
<1>3. QED BY <1>1, <1>2, OneCall

\* The answers handlers give are answers.
LEMMA FixedAnswers ==
  /\ Refused \in Answers /\ Unmoved \in Answers
  /\ \A key \in MovementKey : Created(key) \in Answers /\ Replayed(key) \in Answers
  /\ \A key \in MovementKey, c \in Caves : OwnReplay(c, key) \in Answers
  BY DEF Refused, Unmoved, Created, Replayed, OwnReplay, Answers

\* The movement a photo already stands for has a key.
LEMMA SpentByNames ==
  ASSUME JournalTypeOK, NEW p, NEW type, Spent(p, type)
  PROVE  SpentBy(p, type).key \in MovementKey
  BY DEF Spent, SpentBy, JournalTypeOK, Movement

\* What each check may find, and what it has established when it goes on.
LEMMA PlansTyped ==
  ASSUME JournalTypeOK, NEW r \in Requests
  PROVE  /\ r.op = "in" => PlanIn(r) \in Plans /\ (PlanIn(r).kind = "none" => PlanIn(r).photo = r.photo)
         /\ r.op = "out" => PlanOut(r) \in Plans /\ (PlanOut(r).kind = "none" => WineCave[r.wine] = r.cave)
         /\ r.op = "cancel" => PlanCancel(r) \in Plans
         /\ r.op = "inventory" => PlanInventory(r) \in Plans
         /\ r.op = "move" => PlanMove(r) \in Plans
<1>1. r.cave \in Caves /\ r.key \in Keys
  BY RequestKinds
<1>2. /\ Whole(r.key) \in MovementKey /\ From(r.key) \in MovementKey
  BY <1>1, KeyFacts
<1>3. /\ Refused \in Answers /\ Replayed(Whole(r.key)) \in Answers /\ Replayed(From(r.key)) \in Answers
      /\ OwnReplay(r.cave, Whole(r.key)) \in Answers
  BY <1>1, <1>2, FixedAnswers
<1>4. /\ Refused.kind # "none" /\ \A key : Replayed(key).kind # "none"
      /\ OwnReplay(r.cave, Whole(r.key)).kind # "none"
  BY DEF Refused, Replayed, OwnReplay
<1>5. /\ Go(NoPhoto) \in Plans
      /\ r.op \in {"in", "out"} => Go(r.photo) \in Plans /\ Go(r.photo).photo = r.photo
  BY RequestKinds DEF Go, Plans, InRequest, OutRequest
<1>6. CASE r.op = "in"
  BY <1>3, <1>4, <1>5, <1>6 DEF PlanIn, Plans
<1>7. CASE r.op = "out"
  <2>1. Spent(r.photo, "OUT") => Replayed(SpentBy(r.photo, "OUT").key) \in Answers
    BY SpentByNames, FixedAnswers
  <2>2. QED BY <2>1, <1>3, <1>4, <1>5, <1>7 DEF PlanOut, Plans
<1>8. CASE r.op = "cancel"
  BY <1>3, <1>5, <1>8 DEF PlanCancel, Plans
<1>9. CASE r.op = "inventory"
  BY <1>3, <1>5, <1>9 DEF PlanInventory, Plans
<1>10. CASE r.op = "move"
  BY <1>3, <1>5, <1>10 DEF PlanMove, MoveReplay, Plans
<1>11. QED BY <1>6, <1>7, <1>8, <1>9, <1>10, RequestKinds

\* A call that begins knows what its check found.
LEMMA BeginKeepsCalls ==
  ASSUME call \in [Handlers -> Call], CallsOK, NEW h \in Handlers, NEW r \in Requests,
         NEW plan \in Plans, Begin(h, r, plan),
         plan.kind = "none" =>
           /\ r.op # "cancel" => WineCave[r.wine] = r.cave
           /\ r.op = "in" => plan.photo = r.photo
           /\ r.op \in {"out", "inventory"} => r.at \in {Unset, NoPlace} \/ r.at.cave = r.cave
           /\ r.op = "move" => r.from = NoPlace \/ r.from.cave = r.cave
           /\ r.op = "cancel" =>
                \E m \in journal : m.key = r.target /\ m.reverses = NoKey /\ WineCave[m.wine] = r.cave
  PROVE  CallsOK' /\ call' \in [Handlers -> Call]
<1>1. journal' = journal
  BY DEF Begin, database
<1>2. call' = [call EXCEPT ![h] = call'[h]]
  BY DEF Begin
<1>3. CASE plan.kind = "none"
  <2>1. /\ call'[h] = [phase |-> "checked", req |-> r, photo |-> plan.photo,
                       kind |-> "none", movement |-> NoKey]
        /\ plan.photo \in Photos \union {NoPhoto}
    BY <1>3 DEF Begin, Plans, Answers
  <2>2. call'[h] \in Call
    BY <2>1 DEF Call, Phases, Kinds
  <2>3. CallOK(call[h])'
    BY <1>1, <1>3, <2>1 DEF CallOK
  <2>4. QED BY <1>1, <1>2, <2>2, <2>3, OneCall
<1>4. CASE plan.kind # "none"
  <2>1. /\ call'[h] = [phase |-> "answered", req |-> r, photo |-> NoPhoto,
                       kind |-> plan.kind, movement |-> plan.movement]
        /\ plan \in Answers
    BY <1>4 DEF Begin, Plans
  <2>2. call'[h] \in Call
    BY <2>1 DEF Call, Phases, Kinds, Answers
  <2>3. CallOK(call[h])'
    BY <2>1 DEF CallOK
  <2>4. QED BY <1>1, <1>2, <2>2, <2>3, OneCall
<1>5. QED BY <1>3, <1>4

\* Every check, whatever the request, begins such a call.
LEMMA CheckKeepsCalls ==
  ASSUME JournalTypeOK, call \in [Handlers -> Call], CallsOK,
         NEW h \in Handlers, NEW r \in Requests, Check(h, r)
  PROVE  CallsOK' /\ call' \in [Handlers -> Call]
<1>1. Refused \in Plans /\ Refused.kind # "none"
  BY FixedAnswers DEF Plans, Refused
<1>2. CASE CheckIn(h, r)
  BY <1>2, PlansTyped, RequestKinds, BeginKeepsCalls DEF CheckIn
<1>3. CASE CheckOut(h, r)
  <2> DEFINE out == IF PlanOut(r).kind = "none" /\ r.at # Unset /\ ~ OwnPlace(r.cave, r.at)
                    THEN Refused ELSE PlanOut(r)
  <2>1. r.op = "out" /\ out \in Plans /\ Begin(h, r, out)
    BY <1>1, <1>3, PlansTyped DEF CheckOut
  <2>2. out.kind = "none" => /\ WineCave[r.wine] = r.cave
                             /\ r.at \in {Unset, NoPlace} \/ r.at.cave = r.cave
    BY <1>1, <2>1, PlansTyped DEF OwnPlace
  <2> HIDE DEF out
  <2>3. QED BY <2>1, <2>2, BeginKeepsCalls
<1>4. CASE CheckCancel(h, r)
  <2>1. ASSUME PlanCancel(r).kind = "none"
        PROVE  \E m \in journal : m.key = r.target /\ m.reverses = NoKey /\ WineCave[m.wine] = r.cave
    <3>1. Recorded(r.target) /\ WineCave[At(r.target).wine] = r.cave /\ At(r.target).reverses = NoKey
      BY <2>1 DEF PlanCancel, OwnReplay, Replayed, Refused
    <3>2. QED BY <3>1, AtNames
  <2>2. QED BY <2>1, <1>4, PlansTyped, BeginKeepsCalls DEF CheckCancel
<1>5. CASE CheckInventory(h, r)
  <2>1. PlanInventory(r).kind = "none" => /\ WineCave[r.wine] = r.cave
                                          /\ r.at \in {Unset, NoPlace} \/ r.at.cave = r.cave
    BY DEF PlanInventory, Refused, Replayed, OwnPlace
  <2>2. QED BY <2>1, <1>5, PlansTyped, BeginKeepsCalls DEF CheckInventory
<1>6. CASE CheckMove(h, r)
  <2>1. PlanMove(r).kind = "none" => /\ WineCave[r.wine] = r.cave
                                     /\ r.from = NoPlace \/ r.from.cave = r.cave
    BY DEF PlanMove, MoveReplay, Refused, Replayed, OwnPlace
  <2>2. QED BY <2>1, <1>6, PlansTyped, BeginKeepsCalls DEF CheckMove
<1>7. QED BY <1>2, <1>3, <1>4, <1>5, <1>6 DEF Check
\* A transaction lost to a unique index leaves the call to read again.
LEMMA RaceKeepsCalls ==
  ASSUME call \in [Handlers -> Call], CallsOK, NEW h \in Handlers,
         call[h].phase # "idle", Race(h),
         call[h].req.op = "in" =>
           Recorded(Whole(call[h].req.key)) \/ Spent(call[h].req.photo, "IN")
  PROVE  CallsOK' /\ call' \in [Handlers -> Call]
<1>1. /\ call' = [call EXCEPT ![h] = call'[h]] /\ call'[h] \in Call /\ journal' = journal
      /\ call'[h].phase = "raced" /\ call'[h].req = call[h].req
  BY DEF Race, Call, Phases, database
<1>2. CallOK(call[h])'
  BY <1>1 DEF CallsOK, CallOK, Recorded, Spent
<1>3. QED BY <1>1, <1>2, OneCall

\* A transaction, whatever its outcome, keeps what the calls under way know.
LEMMA CommitKeepsCalls ==
  ASSUME call \in [Handlers -> Call], CallsOK, journal \subseteq journal',
         NEW h \in Handlers, Commit(h)
  PROVE  CallsOK' /\ call' \in [Handlers -> Call]
<1> DEFINE r == call[h].req
<1>1. call[h].phase = "checked" /\ r \in Requests /\ r.key \in Keys
  BY RequestKinds DEF CallsOK, CallOK, Commit, CommitIn, CommitOut, CommitCancel, CommitInventory,
                      CommitMove, Ready
<1>2. /\ Refused \in Answers /\ Unmoved \in Answers
      /\ Created(Whole(r.key)) \in Answers /\ Created(From(r.key)) \in Answers
  BY <1>1, KeyFacts, FixedAnswers
<1>3. ASSUME NEW a \in {Refused, Unmoved, Created(Whole(r.key)), Created(From(r.key))}, Answer(h, a)
      PROVE  CallsOK' /\ call' \in [Handlers -> Call]
  BY <1>1, <1>2, <1>3, AnswerKeepsCalls
<1>4. ASSUME r.op # "in", Race(h) PROVE CallsOK' /\ call' \in [Handlers -> Call]
  BY <1>1, <1>4, RaceKeepsCalls
<1>5. CASE CommitIn(h)
  <2>1. ASSUME NEW l, UniqueViolation(Entry(r, call[h].photo, l)), Race(h)
        PROVE  CallsOK' /\ call' \in [Handlers -> Call]
    <3>1. call[h].photo = r.photo
      BY <1>5 DEF CallsOK, CallOK, CommitIn, Ready
    <3>2. Recorded(Whole(r.key)) \/ Spent(r.photo, "IN")
      BY <2>1, <3>1 DEF UniqueViolation, Entry
    <3>3. QED BY <1>1, <2>1, <3>2, RaceKeepsCalls
  <2>2. QED BY <1>3, <1>5, <2>1 DEF CommitIn, Refuse, Entry
<1>6. CASE CommitOut(h)
  BY <1>3, <1>4, <1>6 DEF CommitOut, Ready, Refuse, Withdrawal
<1>7. CASE CommitCancel(h)
  BY <1>3, <1>4, <1>7 DEF CommitCancel, Ready, Refuse
<1>8. CASE CommitInventory(h)
  BY <1>3, <1>8 DEF CommitInventory, Refuse, Correction
<1>9. CASE CommitMove(h)
  BY <1>3, <1>4, <1>9 DEF CommitMove, Ready, Refuse
<1>10. QED BY <1>5, <1>6, <1>7, <1>8, <1>9 DEF Commit

\* Reading again after a lost race gives an answer.
LEMMA RereadKeepsCalls ==
  ASSUME JournalTypeOK, call \in [Handlers -> Call], CallsOK, NEW h \in Handlers, Reread(h)
  PROVE  /\ UNCHANGED database
         /\ CallsOK' /\ call' \in [Handlers -> Call]
<1> DEFINE r == call[h].req
<1>0. UNCHANGED database /\ journal \subseteq journal' /\ call[h].phase = "raced"
  BY DEF Reread, RereadIn, RereadOut, RereadCancel, RereadMove, Raced, database
<1>1. r \in Requests /\ r.cave \in Caves /\ r.key \in Keys
  BY <1>0, RequestKinds DEF CallsOK, CallOK
<1>2. Whole(r.key) \in MovementKey /\ From(r.key) \in MovementKey
  BY <1>1, KeyFacts
<1>3. /\ Refused \in Answers /\ Replayed(From(r.key)) \in Answers
      /\ OwnReplay(r.cave, Whole(r.key)) \in Answers
  BY <1>1, <1>2, FixedAnswers
<1>4. \E a \in Answers : Answer(h, a)
  <2>1. CASE RereadIn(h)
    <3>1. Recorded(Whole(r.key)) \/ Spent(r.photo, "IN")
      BY <2>1 DEF CallsOK, CallOK, RereadIn, Raced
    <3>2. ~ Recorded(Whole(r.key)) => Replayed(SpentBy(r.photo, "IN").key) \in Answers
      BY <3>1, SpentByNames, FixedAnswers
    <3>3. QED BY <1>3, <2>1, <3>2 DEF RereadIn
  <2>2. CASE RereadOut(h)
    <3>1. PlanOut(r) \in Plans
      BY <1>1, <2>2, PlansTyped DEF RereadOut, Raced
    <3>2. PlanOut(r).kind = "replayed" => PlanOut(r) \in Answers
      BY <3>1 DEF Plans
    <3>3. QED BY <1>3, <2>2, <3>2 DEF RereadOut
  <2>3. CASE RereadCancel(h)
    BY <1>3, <2>3 DEF RereadCancel
  <2>4. CASE RereadMove(h)
    BY <1>3, <2>4 DEF RereadMove, MoveReplay
  <2>5. QED BY <2>1, <2>2, <2>3, <2>4 DEF Reread
<1>5. QED BY <1>0, <1>4, AnswerKeepsCalls

\* A call that ends leaves nothing behind.
LEMMA EndKeepsCalls ==
  ASSUME call \in [Handlers -> Call], CallsOK, NEW h \in Handlers, Deliver(h) \/ Abandon(h)
  PROVE  /\ UNCHANGED database
         /\ CallsOK' /\ call' \in [Handlers -> Call]
<1>1. UNCHANGED database /\ journal' = journal /\ call' = [call EXCEPT ![h] = Idle]
  BY DEF Deliver, Abandon, database
<1>2. Idle \in Call /\ Idle.phase = "idle"
  BY DEF Idle, Call, Phases, Kinds
<1>3. call'[h] \in Call /\ CallOK(call[h])'
  BY <1>1, <1>2 DEF CallOK, Idle
<1>4. QED BY <1>1, <1>3, OneCall
-----------------------------------------------------------------------------
(* The theorems *)

\* The empty database with no call satisfies the invariant.
LEMMA InitIInv == Init => IInv
<1> SUFFICES ASSUME Init PROVE IInv
  OBVIOUS
<1>1. /\ journal = {} /\ rows = {} /\ total \in [Wines -> Int] /\ stock \in [Wines -> [Places -> Int]]
      /\ \A w \in Wines : total[w] = 0 /\ \A p \in Places : stock[w][p] = 0
  BY DEF Init, ZonesInit, JournalInit
<1>2. TypeOK
  BY <1>1 DEF Init, ZonesInit, ZonesTypeOK, JournalTypeOK, TypeOK, Idle, Call, Phases, Kinds
<1>3. CallsOK
  BY DEF Init, Idle, CallsOK, CallOK
<1>4. KeysOK /\ RowsOK /\ StockTraced /\ NeverNegative /\ NoBottleOutOfSight
  BY <1>1 DEF KeysOK, RowsOK, StockTraced, NeverNegative, NoBottleOutOfSight
<1>5. ReversalExact /\ MovesWhole /\ HistoryKeepsItsPlaces
  BY <1>1 DEF ReversalExact, MovesWhole, HistoryKeepsItsPlaces
<1>6. QED BY <1>2, <1>3, <1>4, <1>5 DEF IInv

\* Every step keeps the invariant.
LEMMA StepIInv == IInv /\ [Next]_vars => IInv'
<1> SUFFICES ASSUME IInv, [Next]_vars PROVE IInv'
  OBVIOUS
<1>1. DataInv /\ TypeOK /\ CallsOK /\ JournalTypeOK /\ call \in [Handlers -> Call]
  BY DEF IInv, DataInv, TypeOK
<1>2. SUFFICES DataInv' /\ CallsOK' /\ call' \in [Handlers -> Call]
  BY DEF IInv, DataInv, TypeOK
<1>3. ASSUME NEW h \in Handlers, NEW r \in Requests, Check(h, r)
      PROVE  DataInv' /\ CallsOK' /\ call' \in [Handlers -> Call]
  <2>1. UNCHANGED database
    BY <1>3 DEF Check, CheckIn, CheckOut, CheckCancel, CheckInventory, CheckMove, Begin
  <2>2. QED BY <1>1, <1>3, <2>1, QuietKeepsData, CheckKeepsCalls
<1>4. ASSUME NEW h \in Handlers, Commit(h)
      PROVE  DataInv' /\ CallsOK' /\ call' \in [Handlers -> Call]
  BY <1>1, <1>4, CommitOutcome, OutcomeKeepsData, CommitKeepsCalls
<1>5. ASSUME NEW h \in Handlers, Reread(h)
      PROVE  DataInv' /\ CallsOK' /\ call' \in [Handlers -> Call]
  BY <1>1, <1>5, QuietKeepsData, RereadKeepsCalls
<1>6. ASSUME NEW h \in Handlers, Deliver(h) \/ Abandon(h)
      PROVE  DataInv' /\ CallsOK' /\ call' \in [Handlers -> Call]
  BY <1>1, <1>6, QuietKeepsData, EndKeepsCalls
<1>7. CASE ZoneStep
  <2>1. DataInv'
    BY <1>1, <1>7, NamingKeepsData, RemovalKeepsData DEF ZoneStep
  <2>2. journal' = journal /\ call' = call
    BY <1>7 DEF ZoneStep
  <2>3. QED BY <1>1, <2>1, <2>2 DEF CallsOK, CallOK, Recorded, Spent
<1>8. CASE UNCHANGED vars
  <2>1. UNCHANGED database /\ journal' = journal /\ call' = call
    BY <1>8 DEF vars, database
  <2>2. DataInv'
    BY <1>1, <2>1, QuietKeepsData
  <2>3. QED BY <1>1, <2>1, <2>2 DEF CallsOK, CallOK, Recorded, Spent
<1>9. QED BY <1>3, <1>4, <1>5, <1>6, <1>7, <1>8 DEF Next

\* The invariant the others rest on holds for any number of handlers, wines,
\* zones, photos, keys and requests.
THEOREM Invariance == Spec => []IInv
<1>1. QED BY InitIInv, StepIInv, PTL DEF Spec

\* Every variable keeps its type: stocks stay integers, rows stay in their cellar.
THEOREM TypeCorrect == Spec => []TypeOK
<1>1. IInv => TypeOK
  BY DEF IInv
<1>2. QED BY Invariance, <1>1, PTL

\* No wine and no place ever holds less than zero bottles, whatever handlers
\* commit after whatever checks.
THEOREM StockNeverNegative == Spec => []NeverNegative
<1>1. IInv => NeverNegative
  BY DEF IInv
<1>2. QED BY Invariance, <1>1, PTL

\* A movement is cancelled once at most, by its exact inverse.
THEOREM ReversalsExact == Spec => []ReversalExact
<1>1. IInv => ReversalExact
  BY DEF IInv
<1>2. QED BY Invariance, <1>1, PTL

\* A move is two movements, never one, before and after its cancellation.
THEOREM MovesAreWhole == Spec => []MovesWhole
<1>1. IInv => MovesWhole
  BY DEF IInv
<1>2. QED BY Invariance, <1>1, PTL

\* No bottle ends in a zone that the plan no longer shows.
THEOREM BottlesStayInSight == Spec => []NoBottleOutOfSight
<1>1. IInv => NoBottleOutOfSight
  BY DEF IInv
<1>2. QED BY Invariance, <1>1, PTL

\* The place of every movement ever recorded is still there, in its own cellar.
THEOREM HistoryIsKept == Spec => []HistoryKeepsItsPlaces
<1>1. IInv => HistoryKeepsItsPlaces
  BY DEF IInv
<1>2. QED BY Invariance, <1>1, PTL

-----------------------------------------------------------------------------
(* Names, answers and whose journal is written *)

\* What an answer claims of the journal j, to the caller who sent r.
Truthful(j, r, a) ==
  a.kind \in {"created", "replayed"} =>
    \E m \in j :
      /\ m.key = a.movement
      /\ WineCave[m.wine] = r.cave
      /\ r.op = "out" => m.type = "OUT" /\ m.wine = r.wine
      /\ r.op = "inventory" =>
           m.type = "ADJUST" /\ m.wine = r.wine /\ (a.kind = "created" => m.reverses = NoKey)
      /\ r.op = "move" => m.type = "MOVE" /\ m.wine = r.wine
      /\ r.op = "cancel" /\ a.kind = "created" => m.reverses = r.target

\* A photo stands for movements of the cellar it was uploaded in.
PhotosOwn == \A m \in journal : m.photo # NoPhoto => PhotoCave[m.photo] = WineCave[m.wine]

\* What a check found of the photo and of the wine, a lost race included.
CallKnows(c) ==
  LET r == c.req IN
  /\ c.kind # "none" => c.phase = "answered"
  /\ c.phase \in {"checked", "raced"} =>
       /\ c.photo # NoPhoto => PhotoCave[c.photo] = r.cave
       /\ r.op = "in" => c.photo = r.photo
       /\ r.op = "move" => WineCave[r.wine] = r.cave

CallsKnow == \A h \in Handlers : CallKnows(call[h])

AnswersInv == CallsKnow /\ PhotosOwn /\ AnswersTruthful

\* What a transaction may do to the zones: nothing, create the rows of a typed
\* location, or reopen a zone under its free name.
ZoneWrite ==
  \/ UNCHANGED zoneVars
  \/ \E c \in Caves, in \in LocationInput : \E l \in Destinations(c, in) : Resolve(in, l)
  \/ \E p \in Places : CanReopen(p) /\ Reopen(p)

\* What handler h has written is its caller's own, and what it answers is true.
WritesOwn(h) ==
  LET r == call[h].req IN
  /\ journal \subseteq journal'
  /\ \A m \in journal' \ journal :
       /\ m.key.req = r.key /\ WineCave[m.wine] = r.cave
       /\ m.photo # NoPhoto => PhotoCave[m.photo] = r.cave
  /\ \E key : Answer(h, Created(key)) /\ Truthful(journal', r, Created(key))

CommitEffect(h) ==
  /\ call[h].phase = "checked"
  /\ \/ UNCHANGED database /\ (Race(h) \/ Answer(h, Refused) \/ Answer(h, Unmoved))
     \/ WritesOwn(h) /\ ZoneWrite

\* The rows a transaction of each kind writes are the caller's own.
LEMMA CommitInEffect ==
  ASSUME DataInv, CallsOK, CallsKnow, TypeOK, NEW h \in Handlers, CommitIn(h)
  PROVE  CommitEffect(h)
<1> DEFINE r == call[h].req
<1>1. r \in Requests /\ r \in InRequest /\ WineCave[r.wine] = r.cave /\ r.op = "in"
      /\ call[h].phase = "checked"
  BY RequestKinds DEF CallsOK, CallOK, CommitIn, Ready
<1>2. call[h].photo # NoPhoto => PhotoCave[call[h].photo] = r.cave
  BY <1>1 DEF CallsKnow, CallKnows
<1>3. CASE Refuse(h) \/ Race(h)
  BY <1>1, <1>3 DEF Refuse, Race, CommitEffect
<1>4. ASSUME NEW l \in TypedPlaces(r.cave, r.to),
             Insert(Entry(r, call[h].photo, l)), Settle(r.to, l),
             Answer(h, Created(Entry(r, call[h].photo, l).key))
      PROVE  CommitEffect(h)
  <2> DEFINE m == Entry(r, call[h].photo, l)
  <2>1. m.key = Whole(r.key) /\ m.wine = r.wine /\ m.photo = call[h].photo /\ m.key.req = r.key
    BY DEF Entry, Whole
  <2>2. journal' = journal \union {m}
    BY <1>4 DEF Insert
  <2>3. Truthful(journal', r, Created(m.key))
    BY <1>1, <2>1, <2>2 DEF Truthful, Created
  <2>4. WritesOwn(h)
    BY <1>1, <1>2, <1>4, <2>1, <2>2, <2>3 DEF WritesOwn
  <2>5. ZoneWrite
    BY <1>1, <1>4 DEF ZoneWrite, TypedPlaces, Settle, InRequest
  <2>6. QED BY <1>1, <2>4, <2>5 DEF CommitEffect
<1>5. QED BY <1>3, <1>4 DEF CommitIn

\* So are those of a withdrawal.
LEMMA CommitOutEffect ==
  ASSUME DataInv, CallsOK, CallsKnow, TypeOK, NEW h \in Handlers, CommitOut(h)
  PROVE  CommitEffect(h)
<1> DEFINE r == call[h].req
<1>1. r \in Requests /\ r \in OutRequest /\ WineCave[r.wine] = r.cave /\ r.op = "out"
      /\ call[h].phase = "checked"
  BY RequestKinds DEF CallsOK, CallOK, CommitOut, Ready
<1>2. call[h].photo # NoPhoto => PhotoCave[call[h].photo] = r.cave
  BY <1>1 DEF CallsKnow, CallKnows
<1>3. CASE Refuse(h) \/ Race(h)
  BY <1>1, <1>3 DEF Refuse, Race, CommitEffect
<1>4. ASSUME NEW p, Insert(Withdrawal(r, call[h].photo, p)), UNCHANGED zoneVars,
             Answer(h, Created(Withdrawal(r, call[h].photo, p).key))
      PROVE  CommitEffect(h)
  <2> DEFINE m == Withdrawal(r, call[h].photo, p)
  <2>1. /\ m.key = Whole(r.key) /\ m.wine = r.wine /\ m.photo = call[h].photo /\ m.key.req = r.key
        /\ m.type = "OUT"
    BY DEF Withdrawal, Whole
  <2>2. journal' = journal \union {m}
    BY <1>4 DEF Insert
  <2>3. Truthful(journal', r, Created(m.key))
    BY <1>1, <2>1, <2>2 DEF Truthful, Created
  <2>4. WritesOwn(h)
    BY <1>1, <1>2, <1>4, <2>1, <2>2, <2>3 DEF WritesOwn
  <2>5. QED BY <1>1, <1>4, <2>4 DEF CommitEffect, ZoneWrite
<1>5. QED BY <1>3, <1>4 DEF CommitOut

\* A cancellation writes the inverse of what its check found in the caller's cellar.
LEMMA CommitCancelEffect ==
  ASSUME DataInv, CallsOK, CallsKnow, TypeOK, NEW h \in Handlers, CommitCancel(h)
  PROVE  CommitEffect(h)
<1> DEFINE r == call[h].req
<1>1. r \in Requests /\ r \in CancelRequest /\ r.op = "cancel" /\ call[h].phase = "checked"
  BY RequestKinds DEF CallsOK, CallOK, CommitCancel, Ready, CancelRequest
<1>2. PICK o \in journal : o.key = r.target /\ o.reverses = NoKey /\ WineCave[o.wine] = r.cave
  BY DEF CallsOK, CallOK, CommitCancel, Ready
<1>3. CASE Refuse(h) \/ Race(h)
  BY <1>1, <1>3 DEF Refuse, Race, CommitEffect
<1>4. ASSUME NEW m \in Halves(r.target), NEW n \in Halves(r.target), Halves(r.target) = {m, n},
             IF m = n THEN Insert(Undo(r, m)) ELSE InsertBoth(Undo(r, m), Undo(r, n)),
             ~ (m.delta < 0 /\ ~ CanReopen(m.place)),
             IF m.delta < 0 THEN Reopen(m.place) ELSE UNCHANGED zoneVars,
             Answer(h, Created(Whole(r.key)))
      PROVE  CommitEffect(h)
  <2>1. /\ m \in journal /\ n \in journal /\ o \in {m, n} /\ m.wine = o.wine /\ n.wine = o.wine
    <3>1. /\ m \in journal /\ n \in journal
          /\ \/ m = o /\ n = o
             \/ o \in {m, n} /\ m.wine = n.wine
      BY <1>1, <1>2, <1>4, HalvesFacts
    <3>2. QED BY <3>1
  <2>2. \A x : /\ Undo(r, x).key.req = r.key /\ Undo(r, x).wine = x.wine
               /\ Undo(r, x).photo = NoPhoto /\ Undo(r, x).reverses = x.key
    BY DEF Undo, Whole, Pair
  <2>3. journal' = journal \union {Undo(r, m), Undo(r, n)}
    BY <1>4 DEF Insert, InsertBoth
  <2>4. Undo(r, o).key = Whole(r.key)
    BY <1>2 DEF Undo
  <2>5. Truthful(journal', r, Created(Whole(r.key)))
    BY <1>1, <1>2, <2>1, <2>2, <2>3, <2>4 DEF Truthful, Created
  <2>6. WritesOwn(h)
    BY <1>2, <1>4, <2>1, <2>2, <2>3, <2>5 DEF WritesOwn
  <2>7. m.place \in Places
    BY <2>1 DEF DataInv, JournalTypeOK, Movement
  <2>8. ZoneWrite
    BY <1>4, <2>7 DEF ZoneWrite
  <2>9. QED BY <1>1, <2>6, <2>8 DEF CommitEffect
<1>5. QED BY <1>3, <1>4 DEF CommitCancel

\* An inventory's transaction, when it moves anything.
LEMMA CommitInventoryEffect ==
  ASSUME DataInv, CallsOK, CallsKnow, TypeOK, NEW h \in Handlers, CommitInventory(h)
  PROVE  CommitEffect(h)
<1> DEFINE r == call[h].req
           delta == r.counted - total[r.wine]
           returning == delta > 0 /\ r.to = NoPlace
<1>1. /\ r \in Requests /\ r \in InventoryRequest /\ WineCave[r.wine] = r.cave
      /\ r.op = "inventory" /\ call[h].phase = "checked"
  BY RequestKinds DEF CallsOK, CallOK, CommitInventory, Ready
<1>2. /\ r.wine \in Wines /\ r.counted \in Nat /\ r.cave \in Caves
      /\ r.to \in LocationInput \union {NoPlace} /\ r.at \in Places \union {Unset}
  BY <1>1 DEF InventoryRequest
<1>3. CASE UNCHANGED database /\ (Answer(h, Refused) \/ Answer(h, Unmoved))
  BY <1>1, <1>3 DEF CommitEffect
<1>4. ASSUME NEW p \in InventoryPlaces(r, delta),
             ~ (returning /\ ~ CanReopen(p)),
             Insert(Correction(r, delta, p)),
             IF returning THEN Reopen(p) ELSE Settle(r.to, p),
             Answer(h, Created(Correction(r, delta, p).key))
      PROVE  CommitEffect(h)
  <2> DEFINE m == Correction(r, delta, p)
  <2>1. /\ m.key = Whole(r.key) /\ m.wine = r.wine /\ m.photo = NoPhoto /\ m.key.req = r.key
        /\ m.type = "ADJUST" /\ m.reverses = NoKey
    BY DEF Correction, Whole
  <2>2. journal' = journal \union {m}
    BY <1>4 DEF Insert
  <2>3. Truthful(journal', r, Created(m.key))
    BY <1>1, <2>1, <2>2 DEF Truthful, Created
  <2>4. WritesOwn(h)
    BY <1>1, <1>4, <2>1, <2>2, <2>3 DEF WritesOwn
  <2>5. CASE r.to # NoPlace
    <3>1. p \in Destinations(r.cave, r.to) /\ Resolve(r.to, p)
      BY <2>5, <1>4 DEF InventoryPlaces, Settle
    <3>2. QED BY <3>1, <2>4, <2>5, <1>1, <1>2 DEF CommitEffect, ZoneWrite
  <2>6. CASE r.to = NoPlace /\ ~ returning
    <3>1. UNCHANGED zoneVars
      BY <2>6, <1>4 DEF Settle
    <3>2. QED BY <3>1, <2>4, <1>1 DEF CommitEffect, ZoneWrite
  <2>7. CASE returning
    <3>1. p \in Places
      BY <2>7, <1>2, <1>4, ZonesAssumption DEF InventoryPlaces, Places
    <3>2. CanReopen(p) /\ Reopen(p)
      BY <2>7, <1>4
    <3>3. QED BY <3>1, <3>2, <2>4, <1>1 DEF CommitEffect, ZoneWrite
  <2>8. QED BY <2>5, <2>6, <2>7
<1>5. QED BY <1>3, <1>4 DEF CommitInventory, Refuse

\* A move's transaction.
LEMMA CommitMoveEffect ==
  ASSUME DataInv, CallsOK, CallsKnow, TypeOK, NEW h \in Handlers, CommitMove(h)
  PROVE  CommitEffect(h)
<1> DEFINE r == call[h].req
<1>1. /\ r \in Requests /\ r \in MoveRequest /\ WineCave[r.wine] = r.cave
      /\ r.op = "move" /\ call[h].phase = "checked" /\ r.cave \in Caves /\ r.to \in LocationInput
  BY RequestKinds DEF CallsOK, CallOK, CommitMove, Ready, MoveRequest
<1>2. CASE Refuse(h) \/ Race(h)
  BY <1>1, <1>2 DEF Refuse, Race, CommitEffect
<1>3. ASSUME NEW l \in Destinations(r.cave, r.to), InsertBoth(Arrival(r, l), Departure(r)),
             Resolve(r.to, l), Answer(h, Created(From(r.key)))
      PROVE  CommitEffect(h)
  <2>1. \A m \in {Arrival(r, l), Departure(r)} :
          m.key.req = r.key /\ m.wine = r.wine /\ m.photo = NoPhoto /\ m.type = "MOVE"
    BY DEF Arrival, Departure, From, To
  <2>2. journal' = journal \union {Arrival(r, l), Departure(r)} /\ Departure(r).key = From(r.key)
    BY <1>3 DEF InsertBoth, Departure
  <2>3. Truthful(journal', r, Created(From(r.key)))
    BY <1>1, <2>1, <2>2 DEF Truthful, Created
  <2>4. WritesOwn(h)
    BY <1>1, <1>3, <2>1, <2>2, <2>3 DEF WritesOwn
  <2>5. QED BY <1>1, <1>3, <2>4 DEF CommitEffect, ZoneWrite
<1>4. QED BY <1>2, <1>3 DEF CommitMove

\* Whatever the request.
LEMMA CommitEffects ==
  ASSUME DataInv, CallsOK, CallsKnow, TypeOK, NEW h \in Handlers, Commit(h)
  PROVE  CommitEffect(h)
  BY CommitInEffect, CommitOutEffect, CommitCancelEffect, CommitInventoryEffect,
     CommitMoveEffect DEF Commit

\* No transaction gives two active zones of a cellar one name.
LEMMA ZoneWriteKeepsNames ==
  ASSUME ZonesTypeOK, NamesDistinct, ZoneWrite
  PROVE  NamesDistinct'
<1>1. CASE UNCHANGED zoneVars
  BY <1>1 DEF zoneVars, NamesDistinct
<1>2. ASSUME NEW c \in Caves, NEW in \in LocationInput, NEW l \in Destinations(c, in), Resolve(in, l)
      PROVE  NamesDistinct'
  <2>1. PICK z \in ResolvedZones(c, in) : l = [cave |-> c, zone |-> z, spot |-> in.spot]
    BY <1>2 DEF Destinations
  <2>2. CASE l.zone # NoZone /\ zoneState[l.zone] = "unborn"
    <3>1. /\ z \in Zones /\ ZoneCave[z] = c /\ zoneState[z] = "unborn" /\ NameFree(c, in.name)
      BY <2>1, <2>2 DEF ResolvedZones, ActiveZones, UnbornZones
    <3>2. /\ zoneState' = [zoneState EXCEPT ![z] = "active"]
          /\ zoneName' = [zoneName EXCEPT ![z] = in.name]
      BY <1>2, <2>1, <2>2 DEF Resolve
    <3>3. QED BY <3>1, <3>2 DEF NamesDistinct, NameFree, ActiveZones, ZonesTypeOK
  <2>3. CASE ~ (l.zone # NoZone /\ zoneState[l.zone] = "unborn")
    BY <1>2, <2>3 DEF Resolve, NamesDistinct
  <2>4. QED BY <2>2, <2>3
<1>3. ASSUME NEW p \in Places, CanReopen(p), Reopen(p) PROVE NamesDistinct'
  <2>1. CASE Archived(p)
    <3>1. /\ p # NoPlace /\ p.zone \in Zones /\ ZoneCave[p.zone] = p.cave
          /\ NameFree(p.cave, zoneName[p.zone])
      BY <1>3, <2>1, PlaceFacts DEF Archived, CanReopen
    <3>2. zoneState' = [zoneState EXCEPT ![p.zone] = "active"] /\ zoneName' = zoneName
      BY <1>3, <2>1 DEF Reopen
    <3>3. QED BY <3>1, <3>2 DEF NamesDistinct, NameFree, ActiveZones, ZonesTypeOK
  <2>2. CASE ~ Archived(p)
    BY <1>3, <2>2 DEF Reopen, NamesDistinct
  <2>3. QED BY <2>1, <2>2
<1>4. QED BY <1>1, <1>2, <1>3 DEF ZoneWrite

\* Nor does an operation on a zone itself.
LEMMA ZoneStepKeepsNames ==
  ASSUME ZonesTypeOK, NamesDistinct, ZoneStep
  PROVE  NamesDistinct'
<1>1. ASSUME NEW z \in Zones, NEW n \in Names, CreateZone(z, n) PROVE NamesDistinct'
  BY <1>1 DEF CreateZone, NamesDistinct, NameFree, ActiveZones, ZonesTypeOK
<1>2. ASSUME NEW z \in Zones, NEW n \in Names, RenameZone(z, n) PROVE NamesDistinct'
  BY <1>2 DEF RenameZone, NamesDistinct, ActiveZones, ZonesTypeOK
<1>3. ASSUME NEW z \in Zones, RemoveZone(z, Stocked(z), Used(z)) PROVE NamesDistinct'
  BY <1>3 DEF RemoveZone, NamesDistinct, ZonesTypeOK
<1>4. QED BY <1>1, <1>2, <1>3 DEF ZoneStep

\* What a check or a second reading answers without writing is true.
LEMMA ReplaysTruthful ==
  ASSUME JournalTypeOK, NEW r \in Requests
  PROVE  /\ Truthful(journal, r, Refused) /\ Truthful(journal, r, Unmoved)
         /\ r.op \in {"in", "cancel"} => Truthful(journal, r, OwnReplay(r.cave, Whole(r.key))) \/ ~ Recorded(Whole(r.key))
         /\ r.op = "in" => Truthful(journal, r, PlanIn(r))
         /\ r.op = "out" => Truthful(journal, r, PlanOut(r))
         /\ r.op = "cancel" => Truthful(journal, r, PlanCancel(r))
         /\ r.op = "inventory" => Truthful(journal, r, PlanInventory(r))
         /\ r.op = "move" => Truthful(journal, r, PlanMove(r))
         /\ r.op = "move" /\ WineCave[r.wine] = r.cave /\ Recorded(From(r.key)) => Truthful(journal, r, MoveReplay(r))
<1>1. Truthful(journal, r, Refused) /\ Truthful(journal, r, Unmoved)
  BY DEF Truthful, Refused, Unmoved
<1>2. \A photo : Truthful(journal, r, Go(photo))
  BY DEF Truthful, Go
<1>3. ASSUME r.op \in {"in", "cancel"}, Recorded(Whole(r.key))
      PROVE  Truthful(journal, r, OwnReplay(r.cave, Whole(r.key)))
  BY <1>3, AtNames DEF Truthful, OwnReplay, Replayed, Refused
<1>4. ASSUME r.op = "move", WineCave[r.wine] = r.cave, Recorded(From(r.key))
      PROVE  Truthful(journal, r, MoveReplay(r))
  BY <1>4, AtNames DEF Truthful, MoveReplay, Replayed, Refused
<1>5. ASSUME r.op = "in" PROVE Truthful(journal, r, PlanIn(r))
  BY <1>1, <1>2, <1>3, <1>5 DEF PlanIn
<1>6. ASSUME r.op = "out" PROVE Truthful(journal, r, PlanOut(r))
  <2>1. ASSUME WineCave[r.wine] = r.cave, Recorded(Whole(r.key)), At(Whole(r.key)).type = "OUT",
               At(Whole(r.key)).wine = r.wine
        PROVE  Truthful(journal, r, Replayed(Whole(r.key)))
    BY <1>6, <2>1, AtNames DEF Truthful, Replayed
  <2>2. ASSUME WineCave[r.wine] = r.cave, Spent(r.photo, "OUT"), SpentBy(r.photo, "OUT").wine = r.wine
        PROVE  Truthful(journal, r, Replayed(SpentBy(r.photo, "OUT").key))
    <3>1. SpentBy(r.photo, "OUT") \in journal /\ SpentBy(r.photo, "OUT").type = "OUT"
      BY <2>2 DEF Spent, SpentBy
    <3>2. QED BY <1>6, <2>2, <3>1 DEF Truthful, Replayed
  <2>3. QED BY <1>1, <1>2, <2>1, <2>2 DEF PlanOut
<1>7. ASSUME r.op = "cancel" PROVE Truthful(journal, r, PlanCancel(r))
  BY <1>1, <1>2, <1>3, <1>7 DEF PlanCancel
<1>8. ASSUME r.op = "inventory" PROVE Truthful(journal, r, PlanInventory(r))
  <2>1. ASSUME WineCave[r.wine] = r.cave, Recorded(Whole(r.key)), At(Whole(r.key)).type = "ADJUST",
               At(Whole(r.key)).wine = r.wine
        PROVE  Truthful(journal, r, Replayed(Whole(r.key)))
    BY <1>8, <2>1, AtNames DEF Truthful, Replayed
  <2>2. QED BY <1>1, <1>2, <2>1 DEF PlanInventory
<1>9. ASSUME r.op = "move" PROVE Truthful(journal, r, PlanMove(r))
  BY <1>1, <1>2, <1>4, <1>9 DEF PlanMove
<1>10. QED BY <1>1, <1>3, <1>4, <1>5, <1>6, <1>7, <1>8, <1>9, RequestKinds

\* A true answer stays true while the journal grows.
LEMMA TruthStays ==
  ASSUME NEW j, NEW k, j \subseteq k, NEW r, NEW a, Truthful(j, r, a)
  PROVE  Truthful(k, r, a)
  BY DEF Truthful

\* The other calls know and answer what they did.
LEMMA OneAnswer ==
  ASSUME call \in [Handlers -> Call], CallsKnow, AnswersTruthful, journal \subseteq journal',
         NEW h \in Handlers, call' = [call EXCEPT ![h] = call'[h]],
         CallKnows(call'[h]), Truthful(journal', call'[h].req, call'[h])
  PROVE  CallsKnow' /\ AnswersTruthful'
<1>1. ASSUME NEW g \in Handlers PROVE CallKnows(call'[g]) /\ Truthful(journal', call'[g].req, call'[g])
  <2>1. CASE g # h
    <3>1. call'[g] = call[g] /\ CallKnows(call[g])
      BY <2>1 DEF CallsKnow
    <3>2. Truthful(journal, call[g].req, call[g])
      BY DEF AnswersTruthful, Truthful
    <3>3. QED BY <3>1, <3>2, TruthStays
  <2>2. QED BY <2>1
<1>2. CallsKnow'
  BY <1>1 DEF CallsKnow, CallKnows
<1>3. AnswersTruthful'
  BY <1>1 DEF AnswersTruthful, Truthful
<1>4. QED BY <1>2, <1>3

\* A check begins a call that knows what it found, or answers the truth.
LEMMA CheckTruthful ==
  ASSUME TypeOK, AnswersInv, NEW h \in Handlers, NEW r \in Requests, Check(h, r)
  PROVE  CallsKnow' /\ AnswersTruthful'
<1>1. ASSUME NEW plan, Begin(h, r, plan), Truthful(journal, r, plan),
             plan.kind = "none" => /\ plan.photo # NoPhoto => PhotoCave[plan.photo] = r.cave
                                   /\ r.op = "in" => plan.photo = r.photo
                                   /\ r.op = "move" => WineCave[r.wine] = r.cave
      PROVE  CallsKnow' /\ AnswersTruthful'
  <2>1. journal' = journal /\ call' = [call EXCEPT ![h] = call'[h]] /\ call \in [Handlers -> Call]
    BY <1>1 DEF Begin, database, TypeOK
  <2>2. CASE plan.kind = "none"
    <3>1. call'[h] = [phase |-> "checked", req |-> r, photo |-> plan.photo, kind |-> "none",
                      movement |-> NoKey]
      BY <1>1, <2>1, <2>2 DEF Begin
    <3>2. CallKnows(call'[h]) /\ Truthful(journal', call'[h].req, call'[h])
      BY <1>1, <2>2, <3>1 DEF CallKnows, Truthful
    <3>3. QED BY <2>1, <3>2, OneAnswer DEF AnswersInv
  <2>3. CASE plan.kind # "none"
    <3>1. call'[h] = [phase |-> "answered", req |-> r, photo |-> NoPhoto, kind |-> plan.kind,
                      movement |-> plan.movement]
      BY <1>1, <2>1, <2>3 DEF Begin
    <3>2. CallKnows(call'[h]) /\ Truthful(journal', call'[h].req, call'[h])
      BY <1>1, <2>1, <3>1 DEF CallKnows, Truthful
    <3>3. QED BY <2>1, <3>2, OneAnswer DEF AnswersInv
  <2>4. QED BY <2>2, <2>3
<1>2. JournalTypeOK
  BY DEF TypeOK
<1>3. PhotoUsable(r) /\ r.photo # NoPhoto => PhotoCave[r.photo] = r.cave
  BY DEF PhotoUsable
<1>4. /\ Refused.kind # "none" /\ (\A key : Replayed(key).kind # "none") /\ Go(NoPhoto).photo = NoPhoto
      /\ OwnReplay(r.cave, Whole(r.key)).kind # "none" /\ \A p : Go(p).photo = p
  BY DEF Refused, Replayed, OwnReplay, Go
<1>5. CASE CheckIn(h, r)
  <2>1. r.op = "in" /\ Begin(h, r, PlanIn(r)) /\ Truthful(journal, r, PlanIn(r))
    BY <1>2, <1>5, ReplaysTruthful DEF CheckIn
  <2>2. PlanIn(r).kind = "none" => PlanIn(r).photo = r.photo /\ (r.photo # NoPhoto => PhotoCave[r.photo] = r.cave)
    BY <1>3, <1>4 DEF PlanIn
  <2>3. QED BY <1>1, <2>1, <2>2
<1>6. CASE CheckOut(h, r)
  <2> DEFINE out == IF PlanOut(r).kind = "none" /\ r.at # Unset /\ ~ OwnPlace(r.cave, r.at)
                    THEN Refused ELSE PlanOut(r)
  <2>1. r.op = "out" /\ Begin(h, r, out) /\ Truthful(journal, r, out)
    BY <1>2, <1>6, ReplaysTruthful DEF CheckOut
  <2>2. PlanOut(r).kind = "none" /\ PlanOut(r).photo # NoPhoto => PhotoCave[PlanOut(r).photo] = r.cave
    BY <1>3, <1>4 DEF PlanOut
  <2>3. out.kind = "none" /\ out.photo # NoPhoto => PhotoCave[out.photo] = r.cave
    BY <1>4, <2>2
  <2> HIDE DEF out
  <2>4. QED BY <1>1, <2>1, <2>3
<1>7. CASE CheckCancel(h, r)
  <2>1. r.op = "cancel" /\ Begin(h, r, PlanCancel(r)) /\ Truthful(journal, r, PlanCancel(r))
    BY <1>2, <1>7, ReplaysTruthful DEF CheckCancel
  <2>2. PlanCancel(r).kind = "none" => PlanCancel(r).photo = NoPhoto
    BY <1>4 DEF PlanCancel
  <2>3. QED BY <1>1, <2>1, <2>2
<1>8. CASE CheckInventory(h, r)
  <2>1. r.op = "inventory" /\ Begin(h, r, PlanInventory(r)) /\ Truthful(journal, r, PlanInventory(r))
    BY <1>2, <1>8, ReplaysTruthful DEF CheckInventory
  <2>2. PlanInventory(r).kind = "none" => PlanInventory(r).photo = NoPhoto
    BY <1>4 DEF PlanInventory
  <2>3. QED BY <1>1, <2>1, <2>2
<1>9. CASE CheckMove(h, r)
  <2>1. r.op = "move" /\ Begin(h, r, PlanMove(r)) /\ Truthful(journal, r, PlanMove(r))
    BY <1>2, <1>9, ReplaysTruthful DEF CheckMove
  <2>2. PlanMove(r).kind = "none" => PlanMove(r).photo = NoPhoto /\ WineCave[r.wine] = r.cave
    BY <1>4 DEF PlanMove, MoveReplay
  <2>3. QED BY <1>1, <2>1, <2>2
<1>10. QED BY <1>5, <1>6, <1>7, <1>8, <1>9 DEF Check

\* A transaction answers the truth, and its rows keep the photos in their cellar.
LEMMA CommitTruthful ==
  ASSUME TypeOK, CallsOK, AnswersInv, NEW h \in Handlers, CommitEffect(h)
  PROVE  AnswersInv'
<1> DEFINE c == call[h]
           r == c.req
<1>1. c \in Call /\ call \in [Handlers -> Call] /\ CallKnows(c) /\ c.phase = "checked"
  BY DEF TypeOK, AnswersInv, CallsKnow, CommitEffect
<1>2. ASSUME NEW a, Answer(h, a), Truthful(journal', r, a), journal \subseteq journal'
      PROVE  CallsKnow' /\ AnswersTruthful'
  <2>1. call' = [call EXCEPT ![h] = call'[h]] /\ call'[h].phase = "answered"
        /\ call'[h].req = r /\ call'[h].kind = a.kind /\ call'[h].movement = a.movement
    BY <1>1, <1>2 DEF Answer, Call
  <2>2. CallKnows(call'[h]) /\ Truthful(journal', call'[h].req, call'[h])
    BY <1>2, <2>1 DEF CallKnows, Truthful
  <2>3. QED BY <1>1, <1>2, <2>1, <2>2, OneAnswer DEF AnswersInv
<1>3. CASE UNCHANGED database /\ Race(h)
  <2>1. journal' = journal /\ call' = [call EXCEPT ![h] = call'[h]]
        /\ call'[h].phase = "raced" /\ call'[h].req = r /\ call'[h].kind = c.kind
        /\ call'[h].photo = c.photo
    BY <1>1, <1>3 DEF Race, Call, database
  <2>2. CallKnows(call'[h]) /\ Truthful(journal', call'[h].req, call'[h])
    BY <1>1, <2>1 DEF CallKnows, Truthful
  <2>3. CallsKnow' /\ AnswersTruthful'
    BY <1>1, <2>1, <2>2, OneAnswer DEF AnswersInv
  <2>4. QED BY <2>1, <2>3 DEF AnswersInv, PhotosOwn
<1>4. CASE UNCHANGED database /\ (Answer(h, Refused) \/ Answer(h, Unmoved))
  <2>1. journal' = journal
    BY <1>4 DEF database
  <2>2. Truthful(journal', r, Refused) /\ Truthful(journal', r, Unmoved)
    BY DEF Truthful, Refused, Unmoved
  <2>3. QED BY <1>2, <1>4, <2>1, <2>2 DEF AnswersInv, PhotosOwn
<1>5. CASE WritesOwn(h)
  <2>1. CallsKnow' /\ AnswersTruthful'
    BY <1>2, <1>5 DEF WritesOwn
  <2>2. PhotosOwn'
    BY <1>5 DEF WritesOwn, AnswersInv, PhotosOwn
  <2>3. QED BY <2>1, <2>2 DEF AnswersInv
<1>6. QED BY <1>3, <1>4, <1>5 DEF CommitEffect

\* Reading again after a lost race finds the truth.
LEMMA RereadTruthful ==
  ASSUME TypeOK, CallsOK, AnswersInv, NEW h \in Handlers, Reread(h)
  PROVE  CallsKnow' /\ AnswersTruthful'
<1> DEFINE r == call[h].req
<1>1. call \in [Handlers -> Call] /\ CallKnows(call[h]) /\ call[h].phase = "raced" /\ r \in Requests
  BY RequestKinds DEF TypeOK, AnswersInv, CallsKnow, CallsOK, CallOK, Reread, RereadIn, RereadOut,
                      RereadCancel, RereadMove, Raced
<1>2. journal' = journal /\ JournalTypeOK
  BY DEF Reread, RereadIn, RereadOut, RereadCancel, RereadMove, database, TypeOK
<1>3. ASSUME NEW a, Answer(h, a), Truthful(journal, r, a) PROVE CallsKnow' /\ AnswersTruthful'
  <2>1. call' = [call EXCEPT ![h] = call'[h]] /\ call'[h].phase = "answered"
        /\ call'[h].req = r /\ call'[h].kind = a.kind /\ call'[h].movement = a.movement
    BY <1>1, <1>3 DEF Answer, Call
  <2>2. CallKnows(call'[h]) /\ Truthful(journal', call'[h].req, call'[h])
    BY <1>2, <1>3, <2>1 DEF CallKnows, Truthful
  <2>3. QED BY <1>1, <1>2, <2>1, <2>2, OneAnswer DEF AnswersInv
<1>4. Truthful(journal, r, Refused)
  BY <1>1, <1>2, ReplaysTruthful
<1>5. CASE RereadIn(h)
  <2>1. r.op = "in" /\ call[h].photo = r.photo /\ (r.photo # NoPhoto => PhotoCave[r.photo] = r.cave)
        /\ (Recorded(Whole(r.key)) \/ Spent(r.photo, "IN"))
    BY <1>1, <1>5 DEF RereadIn, Raced, CallKnows, CallsOK, CallOK
  <2>2. ASSUME Recorded(Whole(r.key)) PROVE Truthful(journal, r, OwnReplay(r.cave, Whole(r.key)))
    BY <1>1, <1>2, <2>1, <2>2, ReplaysTruthful
  <2>3. ASSUME Spent(r.photo, "IN") PROVE Truthful(journal, r, Replayed(SpentBy(r.photo, "IN").key))
    <3>1. SpentBy(r.photo, "IN") \in journal /\ SpentBy(r.photo, "IN").photo = r.photo
          /\ r.photo # NoPhoto
      BY <2>3 DEF Spent, SpentBy
    <3>2. WineCave[SpentBy(r.photo, "IN").wine] = r.cave
      BY <2>1, <3>1 DEF AnswersInv, PhotosOwn
    <3>3. QED BY <2>1, <3>1, <3>2 DEF Truthful, Replayed
  <2>4. QED BY <1>3, <1>5, <2>1, <2>2, <2>3 DEF RereadIn
<1>6. CASE RereadOut(h)
  <2>1. Truthful(journal, r, PlanOut(r))
    BY <1>1, <1>2, <1>6, ReplaysTruthful DEF RereadOut, Raced
  <2>2. QED BY <1>3, <1>4, <1>6, <2>1 DEF RereadOut
<1>7. CASE RereadCancel(h)
  <2>1. Recorded(Whole(r.key)) => Truthful(journal, r, OwnReplay(r.cave, Whole(r.key)))
    BY <1>1, <1>2, <1>7, ReplaysTruthful DEF RereadCancel, Raced
  <2>2. QED BY <1>3, <1>4, <1>7, <2>1 DEF RereadCancel
<1>8. CASE RereadMove(h)
  <2>1. Recorded(From(r.key)) => Truthful(journal, r, MoveReplay(r))
    BY <1>1, <1>2, <1>8, ReplaysTruthful DEF RereadMove, Raced, CallKnows
  <2>2. QED BY <1>3, <1>4, <1>8, <2>1 DEF RereadMove
<1>9. QED BY <1>5, <1>6, <1>7, <1>8 DEF Reread

\* A call that ends claims nothing.
LEMMA EndTruthful ==
  ASSUME TypeOK, AnswersInv, NEW h \in Handlers, Deliver(h) \/ Abandon(h)
  PROVE  CallsKnow' /\ AnswersTruthful'
<1>1. journal' = journal /\ call' = [call EXCEPT ![h] = Idle] /\ call \in [Handlers -> Call]
  BY DEF Deliver, Abandon, database, TypeOK
<1>2. CallKnows(call'[h]) /\ Truthful(journal', call'[h].req, call'[h])
  BY <1>1 DEF Idle, CallKnows, Truthful
<1>3. QED BY <1>1, <1>2, OneAnswer DEF AnswersInv

\* Every step keeps what the calls know and what the answers claim.
LEMMA StepAnswers == IInv /\ AnswersInv /\ [Next]_vars => AnswersInv'
<1> SUFFICES ASSUME IInv, AnswersInv, [Next]_vars PROVE AnswersInv'
  OBVIOUS
<1>1. TypeOK /\ CallsOK /\ DataInv /\ CallsKnow
  BY DEF IInv, DataInv, TypeOK, AnswersInv
<1>2. journal' = journal => PhotosOwn'
  BY DEF AnswersInv, PhotosOwn
<1>3. ASSUME NEW h \in Handlers, NEW r \in Requests, Check(h, r) PROVE AnswersInv'
  <2>1. journal' = journal
    BY <1>3 DEF Check, CheckIn, CheckOut, CheckCancel, CheckInventory, CheckMove, Begin, database
  <2>2. QED BY <1>1, <1>2, <1>3, <2>1, CheckTruthful DEF AnswersInv
<1>4. ASSUME NEW h \in Handlers, Commit(h) PROVE AnswersInv'
  BY <1>1, <1>4, CommitEffects, CommitTruthful
<1>5. ASSUME NEW h \in Handlers, Reread(h) PROVE AnswersInv'
  <2>1. journal' = journal
    BY <1>5 DEF Reread, RereadIn, RereadOut, RereadCancel, RereadMove, database
  <2>2. QED BY <1>1, <1>2, <1>5, <2>1, RereadTruthful DEF AnswersInv
<1>6. ASSUME NEW h \in Handlers, Deliver(h) \/ Abandon(h) PROVE AnswersInv'
  <2>1. journal' = journal
    BY <1>6 DEF Deliver, Abandon, database
  <2>2. QED BY <1>1, <1>2, <1>6, <2>1, EndTruthful DEF AnswersInv
<1>7. CASE ZoneStep \/ UNCHANGED vars
  <2>1. journal' = journal /\ call' = call
    BY <1>7 DEF ZoneStep, vars, database
  <2>2. QED BY <2>1 DEF AnswersInv, CallsKnow, CallKnows, PhotosOwn, AnswersTruthful
<1>8. QED BY <1>3, <1>4, <1>5, <1>6, <1>7 DEF Next

\* Only a transaction writes, and only for its caller.
LEMMA StepWritesOwn ==
  ASSUME IInv, AnswersInv, [Next]_vars, journal' # journal
  PROVE  \E h \in Handlers :
           /\ call[h].phase = "checked" /\ call'[h].kind = "created"
           /\ \A m \in journal' \ journal :
                m.key.req = call[h].req.key /\ WineCave[m.wine] = call[h].req.cave
<1>1. PICK h \in Handlers : Commit(h)
  BY DEF Next, vars, database, Check, CheckIn, CheckOut, CheckCancel, CheckInventory, CheckMove, Begin,
         Reread, RereadIn, RereadOut, RereadCancel, RereadMove, Deliver, Abandon, ZoneStep
<1>2. CommitEffect(h) /\ call \in [Handlers -> Call]
  BY <1>1, CommitEffects DEF IInv, DataInv, TypeOK, AnswersInv
<1>3. call[h].phase = "checked" /\ WritesOwn(h)
  BY <1>2 DEF CommitEffect, database
<1>4. call'[h].kind = "created"
  BY <1>2, <1>3 DEF WritesOwn, Answer, Created, Call
<1>5. QED BY <1>3, <1>4 DEF WritesOwn

\* Every step keeps the active names of a cellar apart.
LEMMA StepNames == IInv /\ AnswersInv /\ NamesDistinct /\ [Next]_vars => NamesDistinct'
<1> SUFFICES ASSUME IInv, AnswersInv, NamesDistinct, [Next]_vars PROVE NamesDistinct'
  OBVIOUS
<1>1. ZonesTypeOK /\ TypeOK /\ CallsOK /\ DataInv /\ CallsKnow
  BY DEF IInv, DataInv, TypeOK, AnswersInv
<1>2. ASSUME NEW h \in Handlers, Commit(h) PROVE NamesDistinct'
  <2>1. ZoneWrite
    BY <1>1, <1>2, CommitEffects DEF CommitEffect, ZoneWrite, database, zoneVars
  <2>2. QED BY <1>1, <2>1, ZoneWriteKeepsNames
<1>3. CASE ZoneStep
  BY <1>1, <1>3, ZoneStepKeepsNames
<1>4. CASE UNCHANGED database
  BY <1>4 DEF database, NamesDistinct
<1>5. QED BY <1>2, <1>3, <1>4 DEF Next, vars, Check, CheckIn, CheckOut, CheckCancel, CheckInventory,
             CheckMove, Begin, Reread, RereadIn, RereadOut, RereadCancel, RereadMove, Deliver, Abandon

\* What every call knows and claims, together with the invariant it rests on.
THEOREM AnswersInvariance == Spec => [](IInv /\ AnswersInv)
<1>1. Init => AnswersInv
  BY DEF Init, JournalInit, Idle, AnswersInv, CallsKnow, CallKnows, PhotosOwn, AnswersTruthful
<1>2. QED BY <1>1, InitIInv, StepIInv, StepAnswers, PTL DEF Spec

\* Whatever request lost whatever race, a movement named in an answer is in the
\* journal, of the caller's cellar and of the kind and the wine asked for; an
\* inventory that is told it is done may be shown a cancellation of that wine.
THEOREM AnswersAreTrue == Spec => []AnswersTruthful
<1>1. AnswersInv => AnswersTruthful
  BY DEF AnswersInv
<1>2. QED BY AnswersInvariance, <1>1, PTL

\* No active zone of a cellar takes the name of another, by creation, by renaming,
\* by a typed entry or by the return of its bottles.
THEOREM NamesStayDistinct == Spec => []NamesDistinct
<1>1. Init => NamesDistinct
  BY DEF Init, ZonesInit, NamesDistinct
<1>2. QED BY <1>1, AnswersInvariance, StepNames, PTL DEF Spec

\* Every movement is written by a call that answers it, in the cellar of its caller.
THEOREM NobodyWritesForAnother == Spec => NoForeignWrite
<1>1. IInv /\ AnswersInv /\ [Next]_vars =>
        [journal' # journal =>
           \E h \in Handlers :
             /\ call[h].phase = "checked" /\ call'[h].kind = "created"
             /\ \A m \in journal' \ journal :
                  m.key.req = call[h].req.key /\ WineCave[m.wine] = call[h].req.cave]_vars
  BY StepWritesOwn
<1>2. QED BY <1>1, AnswersInvariance, PTL DEF Spec, NoForeignWrite
=============================================================================
