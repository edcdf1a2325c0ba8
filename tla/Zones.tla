------------------------------- MODULE Zones -------------------------------
(***************************************************************************)
(* The zones of a cellar and the locations inside them: ZonesService and   *)
(* the zone half of LocationsService.  A zone is created, renamed,         *)
(* archived (its history keeps its label) or deleted; a location (zone,    *)
(* rack, position) is created the first time a bottle is put there.        *)
(*                                                                         *)
(* Every operator here runs inside one PostgreSQL transaction that holds   *)
(* the zone's row lock, so an operation is one step.                       *)
(***************************************************************************)
EXTENDS Naturals

CONSTANTS
  Caves,      \* the cellars; requests and zones belong to one
  Zones,      \* identifiers a zone row may get (UUIDs, never reused)
  ZoneCave,   \* the cellar of each zone
  Names,      \* zone names, trimmed and lower-cased
  Spots,      \* the free text after the zone: rack and position
  NoZone,     \* zone_id NULL
  NoName,     \* no zone name in a location input
  NoPlace     \* location_id NULL: "Sans emplacement"

ASSUME ZonesAssumption ==
  /\ ZoneCave \in [Zones -> Caves]
  /\ NoZone \notin Zones
  /\ NoName \notin Names
  /\ NoPlace \notin [cave : Caves, zone : Zones \union {NoZone}, spot : Spots]
  /\ NoPlace \notin [zone : Zones \union {NoZone}, name : Names \union {NoName}, spot : Spots]

VARIABLES
  zoneState,  \* "unborn" (no row yet), "active", "archived" or "gone"
  zoneName,   \* the name column of each zone
  rows        \* the location rows that exist

zoneVars == <<zoneState, zoneName, rows>>

\* A location row: the index location_place_key makes the triple its identity.
Location ==
  {l \in [cave : Caves, zone : Zones \union {NoZone}, spot : Spots] :
     l.zone # NoZone => ZoneCave[l.zone] = l.cave}

Places == Location \union {NoPlace}

\* A location as typed in a request: a zone id, or the name an old client
\* still sends, or neither.
LocationInput == [zone : Zones \union {NoZone}, name : Names \union {NoName}, spot : Spots]

ZonesTypeOK ==
  /\ zoneState \in [Zones -> {"unborn", "active", "archived", "gone"}]
  /\ zoneName \in [Zones -> Names \union {NoName}]
  /\ rows \subseteq Location

ZonesInit ==
  /\ zoneState = [z \in Zones |-> "unborn"]
  /\ zoneName = [z \in Zones |-> NoName]
  /\ rows = {}

ActiveZones(c) == {z \in Zones : zoneState[z] = "active" /\ ZoneCave[z] = c}
UnbornZones(c) == {z \in Zones : zoneState[z] = "unborn" /\ ZoneCave[z] = c}

\* No active zone of the cellar bears the name (index cave_zone_cave_id_name_key).
NameFree(c, n) == \A z \in ActiveZones(c) : zoneName[z] # n

ZoneOf(p) == IF p = NoPlace THEN NoZone ELSE p.zone

-----------------------------------------------------------------------------
(* Steps of a transaction that writes movements *)

\* The place may be named by a request of cellar c (findOwn, a null id included).
OwnPlace(c, p) == p # NoPlace => p \in rows /\ p.cave = c

\* Mutant: the zone id is not checked against the caller's cellar.
ResolvedZonesAnyCave(c, in) ==
  IF in.zone # NoZone THEN {z \in Zones : z = in.zone /\ zoneState[z] = "active"}
  ELSE IF in.name = NoName THEN {NoZone}
  ELSE UnbornZones(c)

\* The zone a typed location designates: an active zone by id, else by name, a
\* fresh zone when the cellar has none of that name.  Empty: 404.
ResolvedZones(c, in) ==
  IF in.zone # NoZone THEN {z \in ActiveZones(c) : z = in.zone}
  ELSE IF in.name = NoName THEN {NoZone}
  ELSE IF NameFree(c, in.name) THEN UnbornZones(c)
  ELSE {z \in ActiveZones(c) : zoneName[z] = in.name}

Destinations(c, in) == {[cave |-> c, zone |-> z, spot |-> in.spot] : z \in ResolvedZones(c, in)}

\* The zone id of a typed location is not an active zone of the cellar.
UnknownZone(c, in) == in.zone # NoZone /\ ResolvedZones(c, in) = {}

\* What resolving the typed location `in` to the row l leaves in the database.
Resolve(in, l) ==
  /\ rows' = rows \union {l}
  /\ IF l.zone # NoZone /\ zoneState[l.zone] = "unborn"
     THEN /\ zoneState' = [zoneState EXCEPT ![l.zone] = "active"]
          /\ zoneName' = [zoneName EXCEPT ![l.zone] = in.name]
     ELSE UNCHANGED <<zoneState, zoneName>>

Archived(p) == ZoneOf(p) # NoZone /\ zoneState[ZoneOf(p)] = "archived"

\* Mutant: nobody looks whether the name was taken meanwhile.
CanReopenAlways(p) == TRUE

\* Bottles may come back to p: its archived zone can be restored under its name.
CanReopen(p) == Archived(p) => NameFree(p.cave, zoneName[p.zone])

\* Mutant: bottles come back, their zone stays archived.
ReopenNothing(p) == UNCHANGED zoneVars

\* reopenZoneOf: an archived zone is active again once bottles come back.
Reopen(p) ==
  /\ zoneState' = IF Archived(p) THEN [zoneState EXCEPT ![p.zone] = "active"] ELSE zoneState
  /\ UNCHANGED <<zoneName, rows>>

-----------------------------------------------------------------------------
(* Operations on the zones themselves; a refusal (404, 409) changes nothing *)

CreateZone(z, n) ==
  /\ zoneState[z] = "unborn"
  /\ NameFree(ZoneCave[z], n)
  /\ zoneState' = [zoneState EXCEPT ![z] = "active"]
  /\ zoneName' = [zoneName EXCEPT ![z] = n]
  /\ UNCHANGED rows

RenameZone(z, n) ==
  /\ zoneState[z] = "active"
  /\ \A y \in ActiveZones(ZoneCave[z]) \ {z} : zoneName[y] # n
  /\ zoneName' = [zoneName EXCEPT ![z] = n]
  /\ UNCHANGED <<zoneState, rows>>

\* Mutant: an empty zone is deleted, history or not.
RemoveZoneWithHistory(z, stocked, used) ==
  /\ zoneState[z] = "active"
  /\ ~ stocked
  /\ zoneState' = [zoneState EXCEPT ![z] = "gone"]
  /\ rows' = {l \in rows : l.zone # z}
  /\ UNCHANGED zoneName

\* stocked, used: what the journal says of the zone's locations, read under
\* the zone's lock.
RemoveZone(z, stocked, used) ==
  /\ zoneState[z] = "active"
  /\ ~ stocked
  /\ zoneState' = [zoneState EXCEPT ![z] = IF used THEN "archived" ELSE "gone"]
  /\ rows' = IF used THEN rows ELSE {l \in rows : l.zone # z}
  /\ UNCHANGED zoneName
=============================================================================
