---------------------------- MODULE MCMovements ----------------------------
(***************************************************************************)
(* Small instances of Movements for TLC: the constants, and the sets of    *)
(* requests the clients of each behaviour may send.                        *)
(***************************************************************************)
EXTENDS Movements, TLC

CONSTANTS c1, c2, w1, w2, z1, z2, z3, n1, n2, p1, p2, k1, k2, k3, k4

MCSpots == {"rack"}
MCZoneCave == [z \in Zones |-> c1]
MCWineCave == [w \in Wines |-> IF w = w1 THEN c1 ELSE IF c2 \in Caves THEN c2 ELSE c1]
MCPhotoCave == [p \in Photos |-> c1]

Loose == [cave |-> c1, zone |-> NoZone, spot |-> "rack"]
In(z) == [cave |-> c1, zone |-> z, spot |-> "rack"]
Typed(z) == [zone |-> z, name |-> NoName, spot |-> "rack"]
Named(n) == [zone |-> NoZone, name |-> n, spot |-> "rack"]

Enter(c, k, w, q, photo, to) ==
  [op |-> "in", cave |-> c, key |-> k, wine |-> w, qty |-> q, photo |-> photo, to |-> to]
TakeOut(c, k, w, q, photo, at) ==
  [op |-> "out", cave |-> c, key |-> k, wine |-> w, qty |-> q, photo |-> photo, at |-> at]
Cancel(c, k, key) == [op |-> "cancel", cave |-> c, key |-> k, target |-> key]
Count(c, k, w, n, to, at) ==
  [op |-> "inventory", cave |-> c, key |-> k, wine |-> w, counted |-> n, to |-> to, at |-> at]
Shift(c, k, w, q, from, to) ==
  [op |-> "move", cave |-> c, key |-> k, wine |-> w, qty |-> q, from |-> from, to |-> to]

\* One cellar, one wine, two zones that come and go: bottles are entered, moved,
\* taken out, counted, and each of these is cancelled.
PlaceRequests ==
  {Enter(c1, k1, w1, q, NoPhoto, to) : q \in {1, 2}, to \in {NoPlace, Typed(z1)}}
  \union {Shift(c1, k2, w1, 1, from, Typed(z2)) : from \in {NoPlace, In(z1)}}
  \union {TakeOut(c1, k3, w1, 1, NoPhoto, at) : at \in {In(z1), In(z2), Unset}}
  \union {Cancel(c1, k4, key) : key \in {Whole(k1), From(k2), To(k2), Whole(k3)}}

\* Inventories, up and down, by id, typed or by an old client, and text zones.
CountRequests ==
  {Enter(c1, k1, w1, 2, NoPhoto, to) : to \in {Typed(z1), Named(n1)}}
  \union {Count(c1, k2, w1, n, NoPlace, at) : n \in {0, 1, 3}, at \in {NoPlace, In(z1), Unset}}
  \union {Count(c1, k2, w1, 3, Typed(z1), Unset)}
  \union {TakeOut(c1, k3, w1, 2, NoPhoto, In(z1))}
  \union {Cancel(c1, k4, Whole(k3)), Cancel(c1, k4, Whole(k2))}

\* Two cellars, one photo, keys shared by several requests and sent again.
KeyRequests ==
  {Enter(c1, k, w1, 1, p1, NoPlace) : k \in {k1, k2}} \union {Enter(c1, k1, w1, 1, NoPhoto, NoPlace)}
  \union {Enter(c2, k1, w2, 1, p, to) : p \in {NoPhoto, p1}, to \in {NoPlace, Typed(z1)}}
  \union {TakeOut(c1, k, w1, 1, p1, NoPlace) : k \in {k2, k3}}
  \union {TakeOut(c2, k2, w2, 1, NoPhoto, Unset)}
  \union {Cancel(c1, k, Whole(k1)) : k \in {k3, k4}} \union {Cancel(c1, k4, Whole(k2))}
  \union {Cancel(c2, k3, Whole(k1)), Count(c1, k3, w1, 1, NoPlace, NoPlace)}

\* The requests of a behaviour: it is about places, about counts, or about keys.
Offered(about) ==
  CASE about = "places" -> PlaceRequests
    [] about = "counts" -> CountRequests
    [] about = "keys"   -> KeyRequests

VARIABLE about

MCRequests == PlaceRequests \union CountRequests \union KeyRequests

MCVars == <<vars, about>>

MCInit == Init /\ about \in {"places", "counts", "keys"}

\* Next with the requests offered; a behaviour about keys needs one zone and one name.
MCNext ==
  /\ \/ \E h \in Handlers :
          \/ \E r \in Offered(about) : Check(h, r)
          \/ Commit(h) \/ Reread(h) \/ Deliver(h) \/ Abandon(h)
     \/ ZoneStep
  /\ about = "keys" => zoneState'[z2] = "unborn" /\ \A z \in Zones : zoneName'[z] # n2
  /\ UNCHANGED about

MCSpec == MCInit /\ [][MCNext]_MCVars

MCSymmetry == Permutations(Handlers)
=============================================================================
