---------------------------- MODULE StoresProofs ----------------------------
(***************************************************************************)
(* The stores of MCStores, each under a specification of its own with no   *)
(* bound on its faults or requests: the plan and the photos of the zones,  *)
(* the thumbnail of a wine, accounts and cellars, rows two requests create *)
(* at once; then what is computed from them, the wine an exit photo is of  *)
(* and what the screens of a cellar show.  The last two theorems say that  *)
(* the runs play these five.                                               *)
(***************************************************************************)
EXTENDS MCStores, Sums, WellFoundedInduction, FiniteSetTheorems, TLAPS

-----------------------------------------------------------------------------
(* The plan and the photos of the zones *)

CavePlanSpec == CavePlanInit /\ [][CavePlanNext \/ PlanFault]_planVars

\* A request that has the row of a record is the one holding it, and no other is.
LocksHeld ==
  /\ \A s \in Senders : In(s, "locked") \/ In(s, "placed") => lock[sender[s].on] = s /\ Present(sender[s].on)
  /\ \A x \in Records : ~Free(x) => sender[lock[x]].on = x /\ (In(lock[x], "locked") \/ In(lock[x], "placed"))

\* Only the plan is erased by a second transaction; a photo is unlinked for its deleted
\* zone, which names no image any more; a marker is set for a zone.
ErasingApart ==
  /\ \A s \in Senders : In(s, "marking") => sender[s].on \in Zones
  /\ \A s \in Senders : In(s, "erasing") => sender[s].on = Plan
  /\ \A s \in Senders : In(s, "unlinking") => sender[s].on \in Zones /\ zone[sender[s].on] = "deleted"
  /\ \A z \in Zones : zone[z] = "deleted" => row[z] = NoImage

\* The file of a record is the one it names, or somebody is about to erase it.
Matching(x) ==
  \/ file[x] = row[x]
  \/ row[x] = NoImage /\ \E s \in Senders : sender[s].on = x /\ (In(s, "erasing") \/ In(s, "unlinking"))

\* While a record is held its file matches until the new one is put in place.
MatchingUnlessPlaced ==
  upsets = 0 =>
    \A x \in Records :
      IF ~Free(x) /\ In(lock[x], "placed") THEN file[x] = lock[x] ELSE Matching(x)

CavePlanInv == CavePlanTypeOK /\ LocksHeld /\ ErasingApart /\ MatchingUnlessPlaced

\* At the start nothing is recorded, and there is no file.
LEMMA CavePlanInitInv == CavePlanInit => CavePlanInv
<1> SUFFICES ASSUME CavePlanInit PROVE CavePlanInv
  OBVIOUS
<1>1. CavePlanTypeOK
  BY CavePlanAssumption DEF CavePlanInit, CavePlanTypeOK, Records, States
<1>2. LocksHeld
  BY DEF CavePlanInit, LocksHeld, In, Free
<1>3. ErasingApart
  BY DEF CavePlanInit, ErasingApart, In, Records
<1>4. MatchingUnlessPlaced
  BY DEF CavePlanInit, MatchingUnlessPlaced, Matching, Free
<1> QED
  BY <1>1, <1>2, <1>3, <1>4 DEF CavePlanInv

\* What goes on to another state keeps its record, and nobody else moves.
LEMMA SenderMoves ==
  ASSUME CavePlanTypeOK, NEW s \in Senders, NEW state \in States, GoOn(s, state)
  PROVE  /\ sender' \in [Senders -> [state : States, on : Records]]
         /\ \A t \in Senders : sender'[t].on = sender[t].on
         /\ sender'[s].state = state
         /\ \A t \in Senders \ {s} : sender'[t] = sender[t]
  BY DEF CavePlanTypeOK, GoOn

\* A request that neither takes nor releases a record leaves the holders as they are.
LEMMA HoldersStay ==
  ASSUME CavePlanTypeOK, LocksHeld, NEW s \in Senders, NEW state \in States, GoOn(s, state),
         state \notin {"locked", "placed"}, ~In(s, "locked"), ~In(s, "placed"), lock' = lock,
         \A z \in Zones : ~Free(z) => zone'[z] = zone[z]
  PROVE  /\ LocksHeld'
         /\ \A y \in Records : ~Free(y) => lock[y] # s /\ lock[y] \in Senders /\ sender'[lock[y]] = sender[lock[y]]
<1>1. /\ \A t \in Senders : sender'[t].on = sender[t].on
      /\ sender'[s].state = state
      /\ \A t \in Senders \ {s} : sender'[t] = sender[t]
  BY SenderMoves
<1>2. ASSUME NEW t \in Senders, (In(t, "locked") \/ In(t, "placed"))'
      PROVE  (lock[sender[t].on] = t /\ Present(sender[t].on))'
  <2>1. t # s /\ sender'[t] = sender[t]
    BY <1>2, <1>1 DEF In
  <2>2. lock[sender[t].on] = t /\ Present(sender[t].on)
    BY <1>2, <2>1 DEF In, LocksHeld
  <2>3. ~Free(sender[t].on)
    BY <2>2, CavePlanAssumption DEF Free
  <2> QED
    BY <2>1, <2>2, <2>3 DEF Present
<1>3. ASSUME NEW y \in Records, ~Free(y)
      PROVE  /\ lock[y] # s /\ lock[y] \in Senders /\ sender'[lock[y]] = sender[lock[y]]
             /\ (sender[lock[y]].on = y /\ (In(lock[y], "locked") \/ In(lock[y], "placed")))'
  <2>1. lock[y] \in Senders
    BY <1>3 DEF Free, CavePlanTypeOK
  <2>2. sender[lock[y]].on = y /\ (In(lock[y], "locked") \/ In(lock[y], "placed"))
    BY <1>3 DEF LocksHeld
  <2>3. lock[y] # s
    BY <2>2
  <2> QED
    BY <1>1, <2>1, <2>2, <2>3 DEF In
<1>4. \A y \in Records : Free(y)' = Free(y)
  BY DEF Free
<1> QED
  BY <1>2, <1>3, <1>4 DEF LocksHeld

\* A request that neither takes nor erases anything keeps what is recorded.
LEMMA RestStays ==
  ASSUME CavePlanInv, NEW s \in Senders, NEW state \in States, GoOn(s, state),
         state \notin {"locked", "placed", "erasing", "unlinking"},
         state = "marking" => sender[s].on \in Zones,
         \A held \in {"locked", "placed", "erasing", "unlinking"} : ~In(s, held),
         UNCHANGED <<row, file, zone, lock, upsets>>, tmp' \subseteq Senders, marker' \subseteq Zones
  PROVE  CavePlanInv'
<1> USE DEF CavePlanInv
<1>1. /\ sender' \in [Senders -> [state : States, on : Records]]
      /\ \A t \in Senders : sender'[t].on = sender[t].on
      /\ sender'[s].state = state
      /\ \A t \in Senders \ {s} : sender'[t] = sender[t]
  BY SenderMoves
<1>2. CavePlanTypeOK'
  BY <1>1 DEF CavePlanTypeOK
<1>3. /\ LocksHeld'
      /\ \A y \in Records : ~Free(y) => lock[y] # s /\ lock[y] \in Senders /\ sender'[lock[y]] = sender[lock[y]]
  BY HoldersStay
<1>4. ErasingApart'
  BY <1>1 DEF ErasingApart, In
<1>5. \A y \in Records : Matching(y) => Matching(y)'
  BY <1>1 DEF Matching, In
<1>6. MatchingUnlessPlaced'
  BY <1>3, <1>5 DEF MatchingUnlessPlaced, In, Free
<1> QED
  BY <1>2, <1>3, <1>4, <1>6

\* An upload keeps the invariant, whether it goes through or its commit fails.
LEMMA SendingKeeps ==
  ASSUME CavePlanInv, NEW s \in Senders,
         WriteTmp(s) \/ LockRecord(s) \/ Place(s) \/ CommitImage(s) \/ Clean(s) \/ CommitImageFails(s)
  PROVE  CavePlanInv'
<1> USE DEF CavePlanInv
<1> DEFINE x == sender[s].on
<1>0. x \in Records /\ NoImage \notin Senders
  BY CavePlanAssumption DEF CavePlanTypeOK
<1>1. CASE WriteTmp(s)
  <2>1. PICK state \in {"written", "ended"} : GoOn(s, state)
    BY <1>1 DEF WriteTmp
  <2>2. state \in States /\ state \notin {"locked", "placed", "erasing", "unlinking"}
    BY DEF States
  <2>3. \A held \in {"locked", "placed", "erasing", "unlinking"} : ~In(s, held)
    BY <1>1 DEF WriteTmp, In
  <2>4. UNCHANGED <<row, file, zone, lock, upsets>> /\ tmp' \subseteq Senders /\ marker' \subseteq Zones
    BY <1>1 DEF WriteTmp, CavePlanTypeOK
  <2> QED
    BY <2>1, <2>2, <2>3, <2>4, RestStays
<1>2. CASE LockRecord(s)
  <2>1. PICK state \in {"locked", "cleaning"} : GoOn(s, state) /\ (state = "locked" => StillThere(x)) /\ lock' = IF state = "locked" THEN [lock EXCEPT ![x] = s] ELSE lock
    BY <1>2 DEF LockRecord
  <2>2. state \in States
    BY DEF States
  <2>3. /\ sender' \in [Senders -> [state : States, on : Records]]
        /\ \A t \in Senders : sender'[t].on = sender[t].on
        /\ sender'[s].state = state
        /\ \A t \in Senders \ {s} : sender'[t] = sender[t]
    BY <2>1, <2>2, SenderMoves
  <2>4. UNCHANGED <<row, file, tmp, zone, marker, upsets>> /\ In(s, "written") /\ Free(x)
    BY <1>2 DEF LockRecord
  <2>5. CavePlanTypeOK'
    BY <2>1, <2>3, <2>4, <1>0 DEF CavePlanTypeOK
  <2>6. LocksHeld'
    BY <2>1, <2>3, <2>4, <1>0 DEF LocksHeld, In, Free, Present, StillThere, CavePlanTypeOK
  <2>7. ErasingApart'
    BY <2>1, <2>3, <2>4, <1>0 DEF ErasingApart, In
  <2>8. MatchingUnlessPlaced'
    <3>1. ASSUME NEW y \in Records, y # x, ~Free(y)
          PROVE  lock[y] # s /\ sender'[lock[y]] = sender[lock[y]] /\ lock'[y] = lock[y]
      BY <3>1, <2>1, <2>3, <2>4 DEF LocksHeld, In, Free, CavePlanTypeOK
    <3>2. \A y \in Records : Matching(y) => Matching(y)'
      BY <2>3, <2>4 DEF Matching, In
    <3>3. ~Free(x)' => lock'[x] = s /\ ~In(s, "placed")'
      BY <2>1, <2>3, <2>4, <1>0 DEF Free, In, CavePlanTypeOK
    <3>4. \A y \in Records \ {x} : lock'[y] = lock[y]
      BY <2>1 DEF CavePlanTypeOK
    <3>5. upsets = 0 => Matching(x)
      BY <2>4, <1>0 DEF MatchingUnlessPlaced
    <3>6. ASSUME upsets = 0, NEW y \in Records, y # x
          PROVE  (IF ~Free(y) /\ In(lock[y], "placed") THEN file[y] = lock[y] ELSE Matching(y))'
      <4>1. IF ~Free(y) /\ In(lock[y], "placed") THEN file[y] = lock[y] ELSE Matching(y)
        BY <3>6 DEF MatchingUnlessPlaced
      <4>2. Free(y)' = Free(y) /\ lock'[y] = lock[y]
        BY <3>6, <3>4 DEF Free
      <4> QED
        BY <4>1, <4>2, <3>6, <3>1, <3>2, <2>4 DEF In
    <3>7. ASSUME upsets = 0
          PROVE  (IF ~Free(x) /\ In(lock[x], "placed") THEN file[x] = lock[x] ELSE Matching(x))'
      <4>1. Matching(x)'
        BY <3>7, <3>5, <3>2, <1>0, <2>3, <2>4 DEF Matching, In
      <4>2. x' = x
        BY <2>3
      <4> QED
        BY <4>1, <4>2, <3>3 DEF In
    <3>8. \A y \in Records : upsets = 0 => (IF ~Free(y) /\ In(lock[y], "placed") THEN file[y] = lock[y] ELSE Matching(y))'
      BY <3>6, <3>7, <2>3, <1>0
    <3> QED
      BY <3>8, <2>4 DEF MatchingUnlessPlaced
  <2> QED
    BY <2>5, <2>6, <2>7, <2>8
<1>3. CASE Place(s)
  <2>2. "placed" \in States /\ GoOn(s, "placed")
    BY <1>3 DEF States, Place
  <2>3. /\ sender' \in [Senders -> [state : States, on : Records]]
        /\ \A t \in Senders : sender'[t].on = sender[t].on
        /\ sender'[s].state = "placed"
        /\ \A t \in Senders \ {s} : sender'[t] = sender[t]
    BY <2>2, SenderMoves
  <2>4. UNCHANGED <<row, zone, marker, lock, upsets>> /\ In(s, "locked") /\ file' = [file EXCEPT ![x] = s] /\ tmp' \subseteq Senders
    BY <1>3 DEF Place, CavePlanTypeOK
  <2>5. CavePlanTypeOK'
    BY <2>3, <2>4, <1>0 DEF CavePlanTypeOK
  <2>6. LocksHeld'
    <3>1. ASSUME NEW t \in Senders, (In(t, "locked") \/ In(t, "placed"))'
          PROVE  (lock[sender[t].on] = t /\ Present(sender[t].on))'
      <4>1. In(t, "locked") \/ In(t, "placed")
        BY <3>1, <2>3, <2>4 DEF In
      <4>2. lock[sender[t].on] = t /\ Present(sender[t].on)
        BY <4>1 DEF LocksHeld
      <4> QED
        BY <4>2, <2>3, <2>4 DEF Present
    <3>2. ASSUME NEW y \in Records, ~Free(y)'
          PROVE  (sender[lock[y]].on = y /\ (In(lock[y], "locked") \/ In(lock[y], "placed")))'
      <4>1. ~Free(y) /\ lock[y] \in Senders
        BY <3>2, <2>4 DEF Free, CavePlanTypeOK
      <4>2. sender[lock[y]].on = y /\ (In(lock[y], "locked") \/ In(lock[y], "placed"))
        BY <4>1 DEF LocksHeld
      <4> QED
        BY <4>1, <4>2, <2>3, <2>4 DEF In
    <3> QED
      BY <3>1, <3>2 DEF LocksHeld
  <2>7. ErasingApart'
    BY <2>3, <2>4, <1>0 DEF ErasingApart, In
  <2>8. MatchingUnlessPlaced'
    <3>1. lock[x] = s /\ ~Free(x) /\ file'[x] = s
      BY <2>4, <1>0 DEF LocksHeld, Free, CavePlanTypeOK
    <3>2. \A y \in Records \ {x} : file'[y] = file[y] /\ lock[y] # s
      BY <2>4, <1>0 DEF LocksHeld, Free, In, CavePlanTypeOK
    <3> QED
    BY <3>1, <3>2, <2>3, <2>4, <1>0 DEF MatchingUnlessPlaced, Matching, In, Free, CavePlanTypeOK
  <2> QED
    BY <2>5, <2>6, <2>7, <2>8
<1>4. CASE CommitImage(s)
  <2>2. "cleaning" \in States /\ GoOn(s, "cleaning")
    BY <1>4 DEF States, CommitImage
  <2>3. /\ sender' \in [Senders -> [state : States, on : Records]]
        /\ \A t \in Senders : sender'[t].on = sender[t].on
        /\ sender'[s].state = "cleaning"
        /\ \A t \in Senders \ {s} : sender'[t] = sender[t]
    BY <2>2, SenderMoves
  <2>4. UNCHANGED <<file, tmp, zone, marker, upsets>> /\ In(s, "placed") /\ row' = [row EXCEPT ![x] = s]
        /\ lock' = [lock EXCEPT ![x] = NoImage]
    BY <1>4 DEF CommitImage
  <2>5. CavePlanTypeOK'
    BY <2>3, <2>4, <1>0 DEF CavePlanTypeOK
  <2>9. lock[x] = s /\ ~Free(x) /\ Present(x)
    BY <2>4, <1>0 DEF LocksHeld, Free
  <2>6. LocksHeld'
    <3>1. ASSUME NEW t \in Senders, (In(t, "locked") \/ In(t, "placed"))'
          PROVE  (lock[sender[t].on] = t /\ Present(sender[t].on))'
      <4>1. t # s /\ sender'[t] = sender[t]
        BY <3>1, <2>3 DEF In
      <4>2. lock[sender[t].on] = t /\ Present(sender[t].on) /\ sender[t].on \in Records
        BY <3>1, <4>1 DEF In, LocksHeld, CavePlanTypeOK
      <4>3. sender[t].on # x
        BY <4>1, <4>2, <2>9
      <4> QED
        BY <4>1, <4>2, <4>3, <2>4 DEF Present, CavePlanTypeOK
    <3>2. ASSUME NEW y \in Records, ~Free(y)'
          PROVE  (sender[lock[y]].on = y /\ (In(lock[y], "locked") \/ In(lock[y], "placed")))'
      <4>1. y # x /\ lock'[y] = lock[y] /\ lock[y] \in Senders
        BY <3>2, <2>4, <1>0 DEF Free, CavePlanTypeOK
      <4>2. sender[lock[y]].on = y /\ (In(lock[y], "locked") \/ In(lock[y], "placed"))
        BY <4>1, <3>2 DEF Free, LocksHeld
      <4>3. lock[y] # s
        BY <4>1, <4>2
      <4> QED
        BY <4>1, <4>2, <4>3, <2>3 DEF In
    <3> QED
      BY <3>1, <3>2 DEF LocksHeld
  <2>7. ErasingApart'
    BY <2>3, <2>4, <2>9, <1>0, CavePlanAssumption DEF ErasingApart, In, Present, CavePlanTypeOK, Records
  <2>8. MatchingUnlessPlaced'
    <3>1. upsets = 0 => file[x] = s
      BY <2>9, <2>4, <1>0 DEF MatchingUnlessPlaced
    <3>2. \A y \in Records \ {x} : row'[y] = row[y] /\ lock[y] # s /\ lock'[y] = lock[y]
      BY <2>4, <1>0 DEF LocksHeld, Free, In, CavePlanTypeOK
    <3>3. row'[x] = s /\ lock'[x] = NoImage
      BY <2>4, <1>0 DEF CavePlanTypeOK
    <3> QED
      BY <3>1, <3>2, <3>3, <2>3, <2>4, <1>0 DEF MatchingUnlessPlaced, Matching, In, Free, CavePlanTypeOK
  <2> QED
    BY <2>5, <2>6, <2>7, <2>8
<1>5. CASE Clean(s)
  <2>1. GoOn(s, "ended") /\ "ended" \in States
    BY <1>5 DEF Clean, States
  <2>2. \A held \in {"locked", "placed", "erasing", "unlinking"} : ~In(s, held)
    BY <1>5 DEF Clean, In
  <2>3. UNCHANGED <<row, file, zone, lock, upsets>> /\ tmp' \subseteq Senders /\ marker' \subseteq Zones
    BY <1>5 DEF Clean, CavePlanTypeOK
  <2> QED
    BY <2>1, <2>2, <2>3, RestStays
<1>6. CASE CommitImageFails(s)
  <2>2. "cleaning" \in States /\ GoOn(s, "cleaning")
    BY <1>6 DEF States, CommitImageFails
  <2>3. /\ sender' \in [Senders -> [state : States, on : Records]]
        /\ \A t \in Senders : sender'[t].on = sender[t].on
        /\ sender'[s].state = "cleaning"
        /\ \A t \in Senders \ {s} : sender'[t] = sender[t]
    BY <2>2, SenderMoves
  <2>4. UNCHANGED <<row, file, tmp, zone, marker>> /\ (In(s, "placed") \/ In(s, "locked"))
        /\ lock' = [lock EXCEPT ![x] = NoImage] /\ upsets' = IF In(s, "placed") THEN upsets + 1 ELSE upsets
    BY <1>6 DEF CommitImageFails
  <2>5. CavePlanTypeOK'
    BY <2>3, <2>4, <1>0 DEF CavePlanTypeOK
  <2>9. lock[x] = s /\ ~Free(x) /\ Present(x)
    BY <2>4, <1>0 DEF LocksHeld, Free
  <2>6. LocksHeld'
    <3>1. ASSUME NEW t \in Senders, (In(t, "locked") \/ In(t, "placed"))'
          PROVE  (lock[sender[t].on] = t /\ Present(sender[t].on))'
      <4>1. t # s /\ sender'[t] = sender[t]
        BY <3>1, <2>3 DEF In
      <4>2. lock[sender[t].on] = t /\ Present(sender[t].on) /\ sender[t].on \in Records
        BY <3>1, <4>1 DEF In, LocksHeld, CavePlanTypeOK
      <4>3. sender[t].on # x
        BY <4>1, <4>2, <2>9
      <4> QED
        BY <4>1, <4>2, <4>3, <2>4 DEF Present, CavePlanTypeOK
    <3>2. ASSUME NEW y \in Records, ~Free(y)'
          PROVE  (sender[lock[y]].on = y /\ (In(lock[y], "locked") \/ In(lock[y], "placed")))'
      <4>1. y # x /\ lock'[y] = lock[y] /\ lock[y] \in Senders
        BY <3>2, <2>4, <1>0 DEF Free, CavePlanTypeOK
      <4>2. sender[lock[y]].on = y /\ (In(lock[y], "locked") \/ In(lock[y], "placed"))
        BY <4>1, <3>2 DEF Free, LocksHeld
      <4>3. lock[y] # s
        BY <4>1, <4>2
      <4> QED
        BY <4>1, <4>2, <4>3, <2>3 DEF In
    <3> QED
      BY <3>1, <3>2 DEF LocksHeld
  <2>7. ErasingApart'
    BY <2>3, <2>4, <2>9, <1>0 DEF ErasingApart, In
  <2>8. MatchingUnlessPlaced'
    <3>1. ASSUME upsets' = 0 PROVE upsets = 0 /\ In(s, "locked") /\ ~In(s, "placed")
      BY <3>1, <2>4 DEF CavePlanTypeOK, In
    <3>2. \A y \in Records \ {x} : lock[y] # s /\ lock'[y] = lock[y]
      BY <2>4, <1>0 DEF LocksHeld, Free, In, CavePlanTypeOK
    <3>3. lock'[x] = NoImage
      BY <2>4, <1>0 DEF CavePlanTypeOK
    <3> QED
      BY <3>1, <3>2, <3>3, <2>9, <2>3, <2>4, <1>0 DEF MatchingUnlessPlaced, Matching, In, Free, CavePlanTypeOK
  <2> QED
    BY <2>5, <2>6, <2>7, <2>8
<1> QED
  BY <1>1, <1>2, <1>3, <1>4, <1>5, <1>6

\* Taking an image away keeps it.
LEMMA RemovingKeeps ==
  ASSUME CavePlanInv, NEW s \in Senders,
         ForgetPlan(s) \/ ErasePlan(s) \/ RemovePhoto(s) \/ RemovePhotoFails(s) \/ DeleteZone(s) \/ UnlinkPhoto(s)
  PROVE  CavePlanInv'
<1> USE DEF CavePlanInv
<1> DEFINE x == sender[s].on
<1>0. x \in Records /\ NoImage \notin Senders /\ Plan \notin Zones
  BY CavePlanAssumption DEF CavePlanTypeOK
<1>1. PICK state \in {"ended", "erasing", "unlinking"} : GoOn(s, state)
  BY DEF ForgetPlan, ErasePlan, RemovePhoto, RemovePhotoFails, DeleteZone, UnlinkPhoto
<1>2. state \in States /\ state \notin {"locked", "placed"} /\ ~In(s, "locked") /\ ~In(s, "placed")
  BY <1>1 DEF States, In, ForgetPlan, ErasePlan, RemovePhoto, RemovePhotoFails, DeleteZone, UnlinkPhoto
<1>3. /\ lock' = lock /\ tmp' = tmp
      /\ \A z \in Zones : ~Free(z) => zone'[z] = zone[z]
  BY DEF ForgetPlan, ErasePlan, RemovePhoto, RemovePhotoFails, DeleteZone, UnlinkPhoto, CavePlanTypeOK
<1>4. /\ sender' \in [Senders -> [state : States, on : Records]]
      /\ \A t \in Senders : sender'[t].on = sender[t].on
      /\ sender'[s].state = state
      /\ \A t \in Senders \ {s} : sender'[t] = sender[t]
  BY <1>1, <1>2, SenderMoves
<1>5. /\ LocksHeld'
      /\ \A y \in Records : ~Free(y) => lock[y] # s /\ lock[y] \in Senders /\ sender'[lock[y]] = sender[lock[y]]
  BY <1>1, <1>2, <1>3, HoldersStay
<1>6. ASSUME upsets' = 0 => upsets = 0,
             upsets' = 0 => \A y \in Records : Matching(y) => Matching(y)' ,
             upsets' = 0 => \A y \in Records : ~Free(y) => file'[y] = file[y]
      PROVE  MatchingUnlessPlaced'
  BY <1>3, <1>5, <1>6 DEF MatchingUnlessPlaced, In, Free
<1>7. \A y \in Records \ {x} : (\E t \in Senders : sender[t].on = y /\ (In(t, "erasing") \/ In(t, "unlinking")))
        => (\E t \in Senders : sender[t].on = y /\ (In(t, "erasing") \/ In(t, "unlinking")))'
  BY <1>4 DEF In
<1>8. CASE ForgetPlan(s)
  <2>1. UNCHANGED <<file, marker, zone, upsets>> /\ x = Plan /\ In(s, "idle") /\ Free(x)
        /\ IF row[x] = NoImage THEN state = "ended" /\ row' = row
           ELSE row' = [row EXCEPT ![x] = NoImage] /\ state = "erasing"
    BY <1>1, <1>4, <1>8 DEF ForgetPlan, GoOn, CavePlanTypeOK
  <2>2. CavePlanTypeOK'
    BY <2>1, <1>0, <1>3, <1>4 DEF CavePlanTypeOK
  <2>3. ErasingApart'
    <3>1. \A z \in Zones : row'[z] = row[z]
      BY <2>1, <1>0 DEF CavePlanTypeOK, Records
    <3>2. \A t \in Senders : (In(t, "erasing") => sender[t].on = Plan)'
      BY <2>1, <1>4 DEF ErasingApart, In
    <3>3. \A t \in Senders : (In(t, "marking") => sender[t].on \in Zones)'
      BY <2>1, <1>4 DEF ErasingApart, In
    <3>4. \A t \in Senders : (In(t, "unlinking") => sender[t].on \in Zones /\ zone[sender[t].on] = "deleted")'
      BY <2>1, <1>4 DEF ErasingApart, In
    <3> QED
      BY <3>1, <3>2, <3>3, <3>4, <2>1 DEF ErasingApart
  <2>4. \A y \in Records : Matching(y) => Matching(y)'
    <3>1. Matching(x) => Matching(x)'
      BY <2>1, <1>0, <1>4 DEF Matching, In, CavePlanTypeOK
    <3>2. \A y \in Records \ {x} : row'[y] = row[y]
      BY <2>1, <1>0 DEF CavePlanTypeOK
    <3> QED
      BY <3>1, <3>2, <2>1, <1>7, <1>4 DEF Matching
  <2> QED
    BY <2>1, <2>2, <2>3, <2>4, <1>5, <1>6
<1>9. CASE ErasePlan(s)
  <2>1. UNCHANGED <<row, marker, zone, upsets>> /\ In(s, "erasing") /\ x = Plan /\ Free(x)
        /\ file' = IF row[x] = NoImage THEN [file EXCEPT ![x] = NoImage] ELSE file
    BY <1>9 DEF ErasePlan, StillForgotten, ErasingApart
  <2>5. state = "ended"
    BY <1>1, <1>4, <1>9 DEF ErasePlan, GoOn, CavePlanTypeOK
  <2>2. CavePlanTypeOK'
    BY <2>1, <1>0, <1>3, <1>4 DEF CavePlanTypeOK
  <2>3. ErasingApart'
    BY <2>1, <2>5, <1>0, <1>4 DEF ErasingApart, In
  <2>6. \A y \in Records \ {x} : file'[y] = file[y]
    BY <2>1, <1>0 DEF CavePlanTypeOK
  <2>4. \A y \in Records : Matching(y) => Matching(y)'
    <3>1. Matching(x) => Matching(x)'
      BY <2>1, <1>0, <1>4 DEF Matching, In, CavePlanTypeOK
    <3> QED
      BY <3>1, <2>6, <2>1, <1>7, <1>4 DEF Matching
  <2> QED
    BY <2>1, <2>2, <2>3, <2>4, <2>6, <1>5, <1>6
<1>10. CASE RemovePhoto(s)
  <2>1. UNCHANGED <<marker, zone, upsets>> /\ In(s, "idle") /\ x \in Zones /\ Free(x)
        /\ \/ row' = [row EXCEPT ![x] = NoImage] /\ file' = [file EXCEPT ![x] = NoImage]
           \/ UNCHANGED <<row, file>>
    BY <1>10 DEF RemovePhoto
  <2>5. state = "ended"
    BY <1>1, <1>4, <1>10 DEF RemovePhoto, GoOn, CavePlanTypeOK
  <2>2. CavePlanTypeOK'
    BY <2>1, <1>0, <1>3, <1>4 DEF CavePlanTypeOK
  <2>6. \A y \in Records \ {x} : file'[y] = file[y] /\ row'[y] = row[y]
    BY <2>1, <1>0 DEF CavePlanTypeOK
  <2>7. row'[x] = row[x] \/ row'[x] = NoImage
    BY <2>1, <1>0 DEF CavePlanTypeOK
  <2>3. ErasingApart'
    BY <2>1, <2>5, <2>6, <2>7, <1>0, <1>4 DEF ErasingApart, In, Records
  <2>4. \A y \in Records : Matching(y) => Matching(y)'
    <3>1. Matching(x) => Matching(x)'
      BY <2>1, <1>0, <1>4 DEF Matching, In, CavePlanTypeOK
    <3> QED
      BY <3>1, <2>6, <2>1, <1>7, <1>4 DEF Matching
  <2> QED
    BY <2>1, <2>2, <2>3, <2>4, <2>6, <1>5, <1>6
<1>11. CASE RemovePhotoFails(s)
  <2>1. UNCHANGED <<row, marker, zone>> /\ In(s, "idle") /\ upsets' = upsets + 1
        /\ file' = [file EXCEPT ![x] = IF row[x] = NoImage THEN file[x] ELSE NoImage]
    BY <1>11 DEF RemovePhotoFails
  <2>5. state = "ended"
    BY <1>1, <1>4, <1>11 DEF RemovePhotoFails, GoOn, CavePlanTypeOK
  <2>2. CavePlanTypeOK'
    BY <2>1, <1>0, <1>3, <1>4 DEF CavePlanTypeOK
  <2>3. ErasingApart'
    BY <2>1, <2>5, <1>0, <1>4 DEF ErasingApart, In
  <2>4. upsets' # 0
    BY <2>1 DEF CavePlanTypeOK
  <2> QED
    BY <2>2, <2>3, <2>4, <1>5 DEF MatchingUnlessPlaced
<1>12. CASE DeleteZone(s)
  <2>1. UNCHANGED <<file, upsets>> /\ In(s, "idle") /\ x \in Zones /\ Free(x)
        /\ zone' = [zone EXCEPT ![x] = "deleted"] /\ row' = [row EXCEPT ![x] = NoImage] /\ marker' \subseteq Zones
        /\ GoOn(s, IF row[x] = NoImage THEN "ended" ELSE "unlinking")
    BY <1>12 DEF DeleteZone, CavePlanTypeOK
  <2>5. state = IF row[x] = NoImage THEN "ended" ELSE "unlinking"
    BY <1>4, <2>1 DEF GoOn, CavePlanTypeOK
  <2>2. CavePlanTypeOK'
    BY <2>1, <1>0, <1>3, <1>4 DEF CavePlanTypeOK
  <2>6. \A y \in Records \ {x} : row'[y] = row[y]
    BY <2>1, <1>0 DEF CavePlanTypeOK
  <2>7. row'[x] = NoImage /\ zone'[x] = "deleted" /\ \A z \in Zones \ {x} : zone'[z] = zone[z]
    BY <2>1, <1>0 DEF CavePlanTypeOK
  <2>3. ErasingApart'
    BY <2>1, <2>5, <2>6, <2>7, <1>0, <1>4 DEF ErasingApart, In, Records
  <2>4. \A y \in Records : Matching(y) => Matching(y)'
    <3>1. Matching(x) => Matching(x)'
      BY <2>1, <2>5, <2>7, <1>0, <1>4 DEF Matching, In, CavePlanTypeOK
    <3> QED
      BY <3>1, <2>6, <2>1, <1>7, <1>4 DEF Matching
  <2> QED
    BY <2>1, <2>2, <2>3, <2>4, <1>5, <1>6
<1>13. CASE UnlinkPhoto(s)
  <2>1. UNCHANGED <<row, marker, zone, upsets>> /\ In(s, "unlinking") /\ file' = [file EXCEPT ![x] = NoImage]
    BY <1>13 DEF UnlinkPhoto
  <2>5. state = "ended"
    BY <1>1, <1>4, <1>13 DEF UnlinkPhoto, GoOn, CavePlanTypeOK
  <2>2. CavePlanTypeOK'
    BY <2>1, <1>0, <1>3, <1>4 DEF CavePlanTypeOK
  <2>3. ErasingApart'
    BY <2>1, <2>5, <1>0, <1>4 DEF ErasingApart, In
  <2>6. \A y \in Records \ {x} : file'[y] = file[y]
    BY <2>1, <1>0 DEF CavePlanTypeOK
  <2>7. x \in Zones /\ row[x] = NoImage /\ file'[x] = NoImage /\ ~Present(x)
    BY <2>1, <1>0 DEF ErasingApart, CavePlanTypeOK, Present
  <2>8. Free(x)
    <3>1. SUFFICES ASSUME ~Free(x) PROVE FALSE
      OBVIOUS
    <3>2. lock[x] \in Senders
      BY <3>1, <1>0 DEF Free, CavePlanTypeOK
    <3>3. sender[lock[x]].on = x /\ (In(lock[x], "locked") \/ In(lock[x], "placed"))
      BY <3>1, <1>0 DEF LocksHeld
    <3> QED
      BY <3>2, <3>3, <2>7 DEF LocksHeld
  <2>4. \A y \in Records : Matching(y) => Matching(y)'
    <3>1. Matching(x)'
      BY <2>1, <2>7, <1>4 DEF Matching
    <3> QED
      BY <3>1, <2>6, <2>1, <1>7, <1>4 DEF Matching
  <2> QED
    BY <2>1, <2>2, <2>3, <2>4, <2>6, <2>8, <1>5, <1>6
<1> QED
  BY <1>8, <1>9, <1>10, <1>11, <1>12, <1>13

\* So do the markers, the zones put away or reopened, and a stop.
LEMMA CavePlanStepInv == CavePlanInv /\ [CavePlanNext \/ PlanFault]_planVars => CavePlanInv'
<1> SUFFICES ASSUME CavePlanInv, [CavePlanNext \/ PlanFault]_planVars PROVE CavePlanInv'
  OBVIOUS
<1>1. ASSUME NEW s \in Senders, SenderStep(s) \/ CommitImageFails(s) \/ RemovePhotoFails(s)
      PROVE  CavePlanInv'
  <2>1. CASE AskMarker(s) \/ SetMarker(s) \/ RemoveMarker(s)
    <3>1. PICK state \in {"marking", "ended"} : GoOn(s, state) /\ sender[s].on \in Zones
      BY <2>1 DEF CavePlanInv, ErasingApart, AskMarker, SetMarker, RemoveMarker
    <3>2. state \in States /\ state \notin {"locked", "placed", "erasing", "unlinking"}
      BY DEF States
    <3>3. \A held \in {"locked", "placed", "erasing", "unlinking"} : ~In(s, held)
      BY <2>1 DEF AskMarker, SetMarker, RemoveMarker, In
    <3>4. UNCHANGED <<row, file, zone, lock, upsets>> /\ tmp' \subseteq Senders
      BY <2>1 DEF CavePlanInv, CavePlanTypeOK, AskMarker, SetMarker, RemoveMarker
    <3>5. marker' \subseteq Zones
      BY <2>1, <3>1 DEF CavePlanInv, CavePlanTypeOK, AskMarker, SetMarker, RemoveMarker, Markable
    <3> QED
      BY <3>1, <3>2, <3>3, <3>4, <3>5, RestStays
  <2> QED
    BY <1>1, <2>1, SendingKeeps, RemovingKeeps DEF SenderStep
<1>2. ASSUME NEW z \in Zones, ArchiveZone(z) \/ ReopenZone(z)
      PROVE  CavePlanInv'
  <2> USE <1>2 DEF CavePlanInv
  <2>1. UNCHANGED <<row, file, tmp, marker, lock, sender, upsets>> /\ Free(z) /\ zone[z] # "deleted"
        /\ \E state \in {"active", "archived"} : zone' = [zone EXCEPT ![z] = state]
    BY DEF ArchiveZone, ReopenZone
  <2>2. CavePlanTypeOK'
    BY <2>1 DEF CavePlanTypeOK
  <2>3. \A y \in Zones : y # z => zone'[y] = zone[y]
    BY <2>1 DEF CavePlanTypeOK
  <2>4. zone'[z] # "deleted"
    BY <2>1 DEF CavePlanTypeOK
  <2>5. LocksHeld'
    <3>1. \A s \in Senders : In(s, "locked") \/ In(s, "placed") => sender[s].on # z
      BY <2>1, CavePlanAssumption DEF LocksHeld, Free
    <3> QED
      BY <3>1, <2>1, <2>3 DEF LocksHeld, Present, In, Free
  <2>6. ErasingApart'
    BY <2>1, <2>3, <2>4 DEF ErasingApart, In
  <2>7. MatchingUnlessPlaced'
    BY <2>1 DEF MatchingUnlessPlaced, Matching, In, Free
  <2> QED
    BY <2>2, <2>5, <2>6, <2>7
<1>3. CASE PlanApiStops
  <2> USE <1>3 DEF CavePlanInv
  <2>1. UNCHANGED <<row, file, tmp, zone, marker>> /\ upsets' = upsets + 1 /\ lock' = [x \in Records |-> NoImage]
    BY DEF PlanApiStops
  <2>2. \A s \in Senders : sender'[s].on = sender[s].on /\ sender'[s].state \in {"idle", "ended"}
    BY DEF PlanApiStops, Busy, In, CavePlanTypeOK
  <2>3. sender' \in [Senders -> [state : States, on : Records]]
    BY DEF PlanApiStops, CavePlanTypeOK, States
  <2>4. CavePlanTypeOK'
    BY <2>1, <2>3 DEF CavePlanTypeOK
  <2>5. LocksHeld' /\ ErasingApart'
    BY <2>1, <2>2 DEF LocksHeld, ErasingApart, In, Free
  <2>6. upsets' # 0
    BY <2>1 DEF CavePlanTypeOK
  <2> QED
    BY <2>4, <2>5, <2>6 DEF MatchingUnlessPlaced
<1>4. CASE UNCHANGED planVars
  BY <1>4 DEF planVars, CavePlanInv, CavePlanTypeOK, LocksHeld, ErasingApart, MatchingUnlessPlaced, Matching, In, Free, Present
<1> QED
  BY <1>1, <1>2, <1>3, <1>4 DEF CavePlanNext, PlanFault

\* What the requests on the plan and on the zones' photos keep: a record is locked by the
\* request that has it in hand, photos are effaced for plans and zones that are gone, and
\* only a request that has placed its file and not yet committed its row makes the two
\* disagree (zones.service.ts, plan.service.ts).
THEOREM CavePlanInvariance == CavePlanSpec => []CavePlanInv
  BY CavePlanInitInv, CavePlanStepInv, PTL DEF CavePlanSpec

\* For every set of zones and of requests: between two transactions the file of a record is
\* the one its row names, or there is none of either, however uploads and removals cross.
THEOREM ImagesMatchRows == CavePlanSpec => []ImageMatchesRow
<1>1. CavePlanInv => ImageMatchesRow
  BY DEF CavePlanInv, MatchingUnlessPlaced, Matching, ImageMatchesRow, In, Free
<1> QED
  BY <1>1, CavePlanInvariance, PTL

-----------------------------------------------------------------------------
(* The thumbnail of a wine *)

ReferenceSpec == ReferenceInit /\ [][ReferenceNext \/ ReferenceFault]_refVars

RequestRecords == [phase : Phases, takes : SUBSET Candidates, drops : SUBSET Requests, seen : Thumb]

\* Only a request that is dropping has files to drop: other web images than the one
\* shown, whose own requests have stored them.
DropsAside ==
  \A r \in Requests :
    /\ request[r].phase # "dropping" => request[r].drops = {}
    /\ \A d \in request[r].drops : d \notin webRows /\ request[d].phase \in {"dropping", "ended"}

\* The file of a request that goes on to store it is there, and its row comes last.
FilesFirst ==
  /\ OwnPhotos \subseteq jpg
  /\ \A r \in Requests : request[r].phase \in {"moved", "storing"} => r \in jpg
  /\ \A r \in webRows : request[r].phase \in {"dropping", "ended"}
  /\ webRows \subseteq jpg

\* What the wine shows is an image of the web or an own photo that came in with a bottle.
ThumbnailKnown ==
  /\ webRows = {thumb.current} \intersect Requests
  /\ thumb.web <=> thumb.current \in Requests
  /\ thumb.current \in Requests \union entered \union {NoPhoto}
  /\ thumb.previous \in entered \union {NoPhoto}
  /\ entered # {} => \E p \in entered : \A q \in entered : q <= p

\* Every file a request brought is shown, about to be stored or undone, or about to be dropped.
FilesAccountedFor ==
  faults = 0 =>
    \A f \in jpg \intersect Requests :
      \/ f \in webRows
      \/ request[f].phase \in {"moved", "storing", "undoing"}
      \/ \E r \in Requests : f \in request[r].drops

ReferenceInv ==
  /\ ReferenceTypeOK
  /\ request \in [Requests -> RequestRecords]
  /\ DropsAside /\ FilesFirst /\ ThumbnailKnown /\ FilesAccountedFor

\* A request at rest is one.
LEMMA UntouchedIsOne ==
  ASSUME NEW phase \in Phases
  PROVE  /\ Untouched(phase) \in RequestRecords /\ Unread \in Thumb
         /\ Untouched(phase).phase = phase /\ Untouched(phase).drops = {}
<1>1. Unread \in Thumb
  BY DEF Unread, Thumb
<1>2. Unread \in Thumb => Untouched(phase) \in RequestRecords
  BY DEF Untouched, RequestRecords
<1> QED
  BY <1>1, <1>2 DEF Untouched

\* At the start there are only the files of own photos.
LEMMA ReferenceInitInv == ReferenceInit => ReferenceInv
<1> SUFFICES ASSUME ReferenceInit PROVE ReferenceInv
  OBVIOUS
<1>0. "idle" \in Phases
  BY DEF Phases
<1>1. Untouched("idle") \in RequestRecords /\ Unread \in Thumb
      /\ Untouched("idle").phase = "idle" /\ Untouched("idle").drops = {}
  BY <1>0, UntouchedIsOne
<1>2. request \in [Requests -> RequestRecords]
  BY <1>1 DEF ReferenceInit
<1>3. \A r \in Requests : request[r].phase = "idle" /\ request[r].drops = {}
  BY <1>1 DEF ReferenceInit
<1>4. ReferenceTypeOK
  <2>1. \A r \in Requests : request[r].phase \in Phases /\ request[r].takes \subseteq Candidates /\ request[r].drops \subseteq Requests
    BY <1>2 DEF RequestRecords
  <2> QED
    BY <2>1, <1>1 DEF ReferenceInit, ReferenceTypeOK
<1>5. DropsAside /\ FilesFirst
  BY <1>3 DEF ReferenceInit, DropsAside, FilesFirst
<1>6. ThumbnailKnown
  BY ReferenceAssumption DEF ReferenceInit, ThumbnailKnown, Unread
<1>7. FilesAccountedFor
  BY ReferenceAssumption DEF ReferenceInit, FilesAccountedFor
<1> QED
  BY <1>2, <1>4, <1>5, <1>6, <1>7 DEF ReferenceInv

\* What a request becomes leaves the others as they are.
LEMMA RequestMoves ==
  ASSUME request \in [Requests -> RequestRecords], NEW r \in Requests, NEW new \in RequestRecords,
         request' = [request EXCEPT ![r] = new]
  PROVE  /\ request' \in [Requests -> RequestRecords]
         /\ request'[r] = new
         /\ \A t \in Requests \ {r} : request'[t] = request[t]
         /\ \A t \in Requests : /\ request'[t].phase \in Phases
                                /\ request'[t].takes \subseteq Candidates
                                /\ request'[t].drops \subseteq Requests
<1>1. /\ request' \in [Requests -> RequestRecords]
      /\ request'[r] = new
      /\ \A t \in Requests \ {r} : request'[t] = request[t]
  OBVIOUS
<1>2. \A t \in Requests : request'[t] \in RequestRecords
  BY <1>1
<1> QED
  BY <1>1, <1>2 DEF RequestRecords

\* A request that has nothing to drop, nor a file to account for, goes on.
LEMMA GoingOnKeeps ==
  ASSUME ReferenceInv, NEW r \in Requests, NEW new \in RequestRecords,
         request' = [request EXCEPT ![r] = new], new.drops = {},
         request[r].phase \notin {"dropping", "ended"}, new.phase # "dropping",
         new.phase \in {"moved", "storing"} => r \in jpg,
         request[r].phase \in {"moved", "storing", "undoing"} => new.phase \in {"moved", "storing", "undoing"},
         UNCHANGED <<thumb, webRows, jpg, entered, faults>>,
         image' \subseteq Candidates, meta' \subseteq Candidates,
         stage' \in [Candidates -> {"unknown", "writing", "told", "aged"}]
  PROVE  ReferenceInv'
<1> USE DEF ReferenceInv
<1>1. /\ request' \in [Requests -> RequestRecords]
      /\ request'[r] = new
      /\ \A t \in Requests \ {r} : request'[t] = request[t]
      /\ \A t \in Requests : /\ request'[t].phase \in Phases
                             /\ request'[t].takes \subseteq Candidates
                             /\ request'[t].drops \subseteq Requests
  BY RequestMoves
<1>2. ReferenceTypeOK'
  BY <1>1 DEF ReferenceTypeOK
<1>3. r \notin webRows /\ request[r].drops = {} /\ \A t \in Requests : r \notin request[t].drops
  BY DEF FilesFirst, DropsAside
<1>4. DropsAside'
  BY <1>1, <1>3 DEF DropsAside, ReferenceTypeOK
<1>5. FilesFirst'
  BY <1>1, <1>3 DEF FilesFirst, ReferenceTypeOK
<1>6. ThumbnailKnown'
  BY DEF ThumbnailKnown
<1>7. FilesAccountedFor'
  <2> SUFFICES ASSUME faults = 0, NEW f \in jpg \intersect Requests, f \notin webRows
               PROVE  request'[f].phase \in {"moved", "storing", "undoing"} \/ \E t \in Requests : f \in request'[t].drops
    BY DEF FilesAccountedFor
  <2>1. CASE request[f].phase \in {"moved", "storing", "undoing"}
    BY <2>1, <1>1
  <2>2. CASE \E t \in Requests : f \in request[t].drops
    BY <2>2, <1>1, <1>3
  <2> QED
    BY <2>1, <2>2 DEF FilesAccountedFor
<1> QED
  BY <1>1, <1>2, <1>4, <1>5, <1>6, <1>7

\* A step of a request keeps the invariant.
LEMMA RequestKeeps ==
  ASSUME ReferenceInv, NEW r \in Requests, RequestStep(r) \/ DropFails(r)
  PROVE  ReferenceInv'
<1> USE DEF ReferenceInv
<1>0. /\ \A phase \in Phases : Untouched(phase) \in RequestRecords /\ Untouched(phase).phase = phase /\ Untouched(phase).drops = {}
      /\ "ended" \in Phases /\ "dropping" \in Phases
      /\ request[r] \in RequestRecords /\ thumb \in Thumb
  BY UntouchedIsOne DEF Phases, ReferenceTypeOK
<1>1. ASSUME Get(r) PROVE ReferenceInv'
  <2>1. PICK c \in Candidates : request' = [request EXCEPT ![r] = [@ EXCEPT !.phase = "got", !.takes = {c}, !.seen = thumb]]
                                \/ End(r)
    BY <1>1 DEF Get
  <2>2. request[r].phase = "idle"
    BY <1>1 DEF Get, At
  <2>3. PICK new \in RequestRecords : request' = [request EXCEPT ![r] = new] /\ new.drops = {} /\ new.phase \in {"got", "ended"}
    <3>1. CASE End(r)
      BY <3>1, <1>0 DEF End
    <3>2. CASE request' = [request EXCEPT ![r] = [@ EXCEPT !.phase = "got", !.takes = {c}, !.seen = thumb]]
      <4> DEFINE new == [request[r] EXCEPT !.phase = "got", !.takes = {c}, !.seen = thumb]
      <4>1. new \in RequestRecords /\ new.phase = "got" /\ new.drops = request[r].drops
        BY <1>0 DEF RequestRecords, Phases
      <4>2. new.drops = {}
        BY <4>1, <2>2 DEF DropsAside
      <4>3. request' = [request EXCEPT ![r] = new]
        BY <3>2
      <4> QED
        BY <4>1, <4>2, <4>3
    <3> QED
      BY <2>1, <3>1, <3>2
  <2>4. UNCHANGED <<thumb, webRows, jpg, entered, faults, image, meta, stage>>
    BY <1>1 DEF Get, store
  <2> QED
    BY <2>2, <2>3, <2>4, GoingOnKeeps DEF ReferenceTypeOK
<1>2. ASSUME NEW phase \in Phases, Reach(r, phase)
      PROVE  \E new \in RequestRecords : request' = [request EXCEPT ![r] = new] /\ new.drops = request[r].drops /\ new.phase = phase
  <2> DEFINE new == [request[r] EXCEPT !.phase = phase]
  <2>1. new \in RequestRecords /\ new.phase = phase /\ new.drops = request[r].drops
    BY <1>0 DEF RequestRecords
  <2>2. request' = [request EXCEPT ![r] = new]
    BY <1>2 DEF Reach
  <2> QED
    BY <2>1, <2>2
<1>3. ASSUME Forget(r) \/ StoreFails(r) PROVE ReferenceInv'
  <2>1. PICK phase \in {"storing", "undoing"} : Reach(r, phase)
    BY <1>3 DEF Forget, StoreFails
  <2>2. request[r].phase \in {"moved", "storing"} /\ request[r].drops = {} /\ r \in jpg
    BY <1>3 DEF Forget, StoreFails, At, DropsAside, FilesFirst
  <2>3. PICK new \in RequestRecords : request' = [request EXCEPT ![r] = new] /\ new.drops = request[r].drops /\ new.phase = phase
    BY <1>2, <2>1 DEF Phases
  <2>4. UNCHANGED <<thumb, webRows, jpg, entered, faults, image, stage>> /\ meta' \subseteq Candidates
    BY <1>3 DEF Forget, StoreFails, store, ReferenceTypeOK
  <2> QED
    BY <2>2, <2>3, <2>4, GoingOnKeeps DEF ReferenceTypeOK
<1>4. ASSUME AskReturn(r) PROVE ReferenceInv'
  <2> DEFINE new == [request[r] EXCEPT !.phase = "returning", !.seen = thumb]
  <2>1. new \in RequestRecords /\ new.phase = "returning" /\ new.drops = request[r].drops
    BY <1>0 DEF RequestRecords, Phases
  <2>2. request[r].phase = "idle" /\ request[r].drops = {}
    BY <1>4 DEF AskReturn, At, DropsAside
  <2>3. request' = [request EXCEPT ![r] = new]
    BY <1>4 DEF AskReturn
  <2>4. UNCHANGED <<thumb, webRows, jpg, entered, faults, image, meta, stage>>
    BY <1>4 DEF AskReturn, store
  <2> HIDE DEF new
  <2> QED
    BY <2>1, <2>2, <2>3, <2>4, GoingOnKeeps DEF ReferenceTypeOK
<1>5. ASSUME At(r, "got") \/ At(r, "returning"), End(r),
             UNCHANGED <<thumb, webRows, jpg, entered, faults, image, meta, stage>>
      PROVE  ReferenceInv'
  <2>1. request[r].phase \in {"got", "returning"}
    BY <1>5 DEF At
  <2>2. request' = [request EXCEPT ![r] = Untouched("ended")]
    BY <1>5 DEF End
  <2> QED
    BY <1>0, <1>5, <2>1, <2>2, GoingOnKeeps DEF ReferenceTypeOK
<1>6. ASSUME Take(r) PROVE ReferenceInv'
  <2>1. CASE End(r) /\ UNCHANGED <<image, jpg>>
    BY <1>5, <1>6, <2>1 DEF Take
  <2>2. CASE image' = image \ request[r].takes /\ jpg' = jpg \union {r} /\ Reach(r, "moved")
    <3>1. PICK new \in RequestRecords : request' = [request EXCEPT ![r] = new] /\ new.drops = request[r].drops /\ new.phase = "moved"
      BY <1>2, <2>2 DEF Phases
    <3>2. /\ request' \in [Requests -> RequestRecords]
          /\ request'[r] = new
          /\ \A t \in Requests \ {r} : request'[t] = request[t]
          /\ \A t \in Requests : /\ request'[t].phase \in Phases
                                 /\ request'[t].takes \subseteq Candidates
                                 /\ request'[t].drops \subseteq Requests
      BY <3>1, RequestMoves
    <3>3. request[r].phase = "got" /\ request[r].drops = {} /\ UNCHANGED <<thumb, webRows, meta, stage, entered, faults>>
      BY <1>6 DEF Take, At, DropsAside
    <3>4. ReferenceTypeOK'
      BY <3>2, <3>3, <2>2 DEF ReferenceTypeOK
    <3>5. r \notin webRows /\ \A t \in Requests : r \notin request[t].drops
      BY <3>3 DEF FilesFirst, DropsAside
    <3>6. DropsAside'
      BY <3>1, <3>2, <3>3, <3>5 DEF DropsAside, ReferenceTypeOK
    <3>7. FilesFirst'
      BY <3>1, <3>2, <3>3, <3>5, <2>2 DEF FilesFirst, ReferenceTypeOK
    <3>8. ThumbnailKnown'
      BY <3>3 DEF ThumbnailKnown
    <3>9. FilesAccountedFor'
      <4> SUFFICES ASSUME faults = 0, NEW f \in jpg' \intersect Requests, f \notin webRows
                   PROVE  request'[f].phase \in {"moved", "storing", "undoing"} \/ \E t \in Requests : f \in request'[t].drops
        BY <3>3 DEF FilesAccountedFor
      <4>1. CASE f = r
        BY <4>1, <3>1, <3>2
      <4>2. CASE f # r
        <5>1. f \in jpg
          BY <4>2, <2>2
        <5>2. request[f].phase \in {"moved", "storing", "undoing"} \/ \E t \in Requests : f \in request[t].drops
          BY <5>1 DEF FilesAccountedFor
        <5> QED
          BY <5>2, <4>2, <3>1, <3>2, <3>3
      <4> QED
        BY <4>1, <4>2
    <3> QED
      BY <3>2, <3>4, <3>6, <3>7, <3>8, <3>9
  <2> QED
    BY <1>6, <2>1, <2>2 DEF Take
<1>7. ASSUME NEW drops \in SUBSET Requests
      PROVE  [Untouched("dropping") EXCEPT !.drops = drops] \in RequestRecords
             /\ [Untouched("dropping") EXCEPT !.drops = drops].drops = drops
             /\ [Untouched("dropping") EXCEPT !.drops = drops].phase = "dropping"
  BY <1>0 DEF RequestRecords
<1>8. ASSUME Store(r) PROVE ReferenceInv'
  <2> DEFINE new == [Untouched(IF Replaced(thumb) = {} THEN "ended" ELSE "dropping") EXCEPT !.drops = Replaced(thumb)]
  <2>1. new \in RequestRecords /\ new.drops = Replaced(thumb) /\ new.phase = IF Replaced(thumb) = {} THEN "ended" ELSE "dropping"
    <3>1. Replaced(thumb) \in SUBSET Requests
      BY DEF Replaced, ReferenceTypeOK
    <3>2. CASE Replaced(thumb) = {}
      <4>1. [Untouched("ended") EXCEPT !.drops = {}] = Untouched("ended")
        BY DEF Untouched
      <4>2. new = [Untouched("ended") EXCEPT !.drops = {}]
        BY <3>2
      <4>3. new = Untouched("ended")
        BY <4>1, <4>2
      <4> HIDE DEF new
      <4> QED
        BY <3>2, <4>3, <1>0
    <3>3. CASE Replaced(thumb) # {}
      BY <3>1, <3>3, <1>7
    <3> QED
      BY <3>2, <3>3
  <2>2. /\ thumb' = [current |-> r, previous |-> Remembered(thumb), web |-> TRUE]
        /\ webRows' = (webRows \union {r}) \ Replaced(thumb)
        /\ request' = [request EXCEPT ![r] = new]
        /\ UNCHANGED <<jpg, image, meta, stage, entered, faults>>
    BY <1>8 DEF Store, Locked, store
  <2> HIDE DEF new
  <2>3. /\ request' \in [Requests -> RequestRecords]
        /\ request'[r] = new
        /\ \A t \in Requests \ {r} : request'[t] = request[t]
        /\ \A t \in Requests : /\ request'[t].phase \in Phases
                               /\ request'[t].takes \subseteq Candidates
                               /\ request'[t].drops \subseteq Requests
    BY <2>1, <2>2, RequestMoves
  <2>4. request[r].phase = "storing" /\ request[r].drops = {} /\ r \in jpg /\ r \notin webRows
        /\ \A t \in Requests : r \notin request[t].drops
    BY <1>8 DEF Store, At, DropsAside, FilesFirst
  <2>5. Replaced(thumb) = webRows /\ webRows' = {r} /\ webRows \subseteq Requests
    BY <2>2, <2>4 DEF ThumbnailKnown, Replaced
  <2>6. Remembered(thumb) \in entered \union {NoPhoto}
    BY <2>5 DEF Remembered, ThumbnailKnown
  <2>7. entered \subseteq OwnPhotos
    BY DEF ReferenceTypeOK
  <2>8. ReferenceTypeOK'
    <3>1. thumb' \in Thumb
      BY <2>2, <2>6, <2>7 DEF Thumb
    <3> QED
      BY <3>1, <2>2, <2>3, <2>5 DEF ReferenceTypeOK
  <2>9. DropsAside'
    <3> SUFFICES ASSUME NEW t \in Requests
                 PROVE  /\ request'[t].phase # "dropping" => request'[t].drops = {}
                        /\ \A d \in request'[t].drops : d # r /\ request'[d].phase \in {"dropping", "ended"}
      BY <2>5 DEF DropsAside
    <3>1. \A d \in Requests : request[d].phase \in {"dropping", "ended"} => d # r /\ request'[d] = request[d]
      BY <2>3, <2>4
    <3>2. CASE t = r
      BY <3>1, <3>2, <2>1, <2>3, <2>4, <2>5 DEF FilesFirst
    <3>3. CASE t # r
      BY <3>1, <3>3, <2>3 DEF DropsAside, ReferenceTypeOK
    <3> QED
      BY <3>2, <3>3
  <2>10. FilesFirst'
    BY <2>1, <2>2, <2>3, <2>4, <2>5 DEF FilesFirst
  <2>11. ThumbnailKnown'
    BY <2>2, <2>5, <2>6 DEF ThumbnailKnown
  <2>12. FilesAccountedFor'
    <3> SUFFICES ASSUME faults = 0, NEW f \in jpg \intersect Requests, f # r
                 PROVE  request'[f].phase \in {"moved", "storing", "undoing"} \/ \E t \in Requests : f \in request'[t].drops
      BY <2>2, <2>5 DEF FilesAccountedFor
    <3>1. CASE f \in webRows
      BY <3>1, <2>1, <2>3, <2>5
    <3>2. CASE request[f].phase \in {"moved", "storing", "undoing"}
      BY <3>2, <2>3
    <3>3. CASE \E t \in Requests : f \in request[t].drops
      BY <3>3, <2>3, <2>4
    <3> QED
      BY <3>1, <3>2, <3>3 DEF FilesAccountedFor
  <2> QED
    BY <2>3, <2>8, <2>9, <2>10, <2>11, <2>12
<1>9. ASSUME Return(r) PROVE ReferenceInv'
  <2>1. CASE thumb.current \notin webRows
    BY <2>1, <1>5, <1>9 DEF Return, Locked, store
  <2>2. CASE thumb.current \in webRows
    <3> DEFINE new == [Untouched("dropping") EXCEPT !.drops = {thumb.current}]
               back == IF thumb.previous # NoPhoto THEN thumb.previous ELSE Latest
    <3>1. webRows = {thumb.current} /\ thumb.current \in Requests
      BY <2>2 DEF ThumbnailKnown
    <3>2. new \in RequestRecords /\ new.drops = webRows /\ new.phase = "dropping"
      BY <3>1, <1>7
    <3>3. /\ thumb' = [current |-> back, previous |-> NoPhoto, web |-> FALSE]
          /\ webRows' = {}
          /\ request' = [request EXCEPT ![r] = new]
          /\ UNCHANGED <<jpg, image, meta, stage, entered, faults>>
      BY <1>9, <2>2, <3>1 DEF Return, Locked, store
    <3>4. back \in entered \union {NoPhoto}
      <4>1. CASE entered = {}
        BY <4>1 DEF Latest, ThumbnailKnown
      <4>2. CASE entered # {}
        <5>1. Latest \in entered
          BY <4>2 DEF Latest, ThumbnailKnown
        <5> QED
          BY <5>1 DEF ThumbnailKnown
      <4> QED
        BY <4>1, <4>2
    <3> HIDE DEF new, back
    <3>5. /\ request' \in [Requests -> RequestRecords]
          /\ request'[r] = new
          /\ \A t \in Requests \ {r} : request'[t] = request[t]
          /\ \A t \in Requests : /\ request'[t].phase \in Phases
                                 /\ request'[t].takes \subseteq Candidates
                                 /\ request'[t].drops \subseteq Requests
      BY <3>2, <3>3, RequestMoves
    <3>6. request[r].phase = "returning" /\ request[r].drops = {} /\ r \notin webRows
          /\ \A t \in Requests : r \notin request[t].drops
      BY <1>9 DEF Return, At, DropsAside, FilesFirst
    <3>7. entered \subseteq OwnPhotos
      BY DEF ReferenceTypeOK
    <3>8. ReferenceTypeOK'
      <4>1. thumb' \in Thumb
        BY <3>3, <3>4, <3>7 DEF Thumb
      <4> QED
        BY <4>1, <3>3, <3>5 DEF ReferenceTypeOK
    <3>9. DropsAside'
      <4> SUFFICES ASSUME NEW t \in Requests
                   PROVE  /\ request'[t].phase # "dropping" => request'[t].drops = {}
                          /\ \A d \in request'[t].drops : request'[d].phase \in {"dropping", "ended"}
        BY <3>3 DEF DropsAside
      <4>1. \A d \in Requests : request[d].phase \in {"dropping", "ended"} => d # r /\ request'[d] = request[d]
        BY <3>5, <3>6
      <4>2. CASE t = r
        BY <4>1, <4>2, <3>1, <3>2, <3>5 DEF FilesFirst
      <4>3. CASE t # r
        BY <4>1, <4>3, <3>5 DEF DropsAside, ReferenceTypeOK
      <4> QED
        BY <4>2, <4>3
    <3>10. FilesFirst'
      BY <3>2, <3>3, <3>5 DEF FilesFirst
    <3>11. ThumbnailKnown'
      BY <3>3, <3>4, <3>7, ReferenceAssumption DEF ThumbnailKnown
    <3>12. FilesAccountedFor'
      <4> SUFFICES ASSUME faults = 0, NEW f \in jpg \intersect Requests
                   PROVE  request'[f].phase \in {"moved", "storing", "undoing"} \/ \E t \in Requests : f \in request'[t].drops
        BY <3>3 DEF FilesAccountedFor
      <4>1. CASE f \in webRows
        BY <4>1, <3>2, <3>5
      <4>2. CASE request[f].phase \in {"moved", "storing", "undoing"}
        BY <4>2, <3>5, <3>6
      <4>3. CASE \E t \in Requests : f \in request[t].drops
        BY <4>3, <3>5, <3>6
      <4> QED
        BY <4>1, <4>2, <4>3 DEF FilesAccountedFor
    <3> QED
      BY <3>5, <3>8, <3>9, <3>10, <3>11, <3>12
  <2> QED
    BY <2>1, <2>2
<1>10. ASSUME Undo(r) \/ Drop(r) \/ DropFails(r) PROVE ReferenceInv'
  <2> DEFINE gone == IF At(r, "undoing") THEN {r} ELSE request[r].drops
  <2>1. /\ request[r].phase \in {"undoing", "dropping"}
        /\ request' = [request EXCEPT ![r] = Untouched("ended")]
        /\ UNCHANGED <<thumb, webRows, image, meta, stage, entered>>
        /\ (jpg' = jpg \ gone /\ faults' = faults) \/ (jpg' = jpg /\ faults' = faults + 1)
    BY <1>10 DEF Undo, Drop, DropFails, At, End, store
  <2>2. /\ request' \in [Requests -> RequestRecords]
        /\ request'[r] = Untouched("ended")
        /\ \A t \in Requests \ {r} : request'[t] = request[t]
        /\ \A t \in Requests : /\ request'[t].phase \in Phases
                               /\ request'[t].takes \subseteq Candidates
                               /\ request'[t].drops \subseteq Requests
    BY <1>0, <2>1, RequestMoves
  <2>3. gone \subseteq Requests /\ gone \intersect webRows = {}
        /\ \A d \in gone : request[d].phase \notin {"moved", "storing"}
    BY <2>1 DEF At, FilesFirst, DropsAside, ReferenceTypeOK
  <2>4. ReferenceTypeOK'
    BY <2>1, <2>2 DEF ReferenceTypeOK
  <2>5. DropsAside'
    <3>1. \A t \in Requests : request'[t] = request[t] \/ (t = r /\ request'[t].drops = {} /\ request'[t].phase = "ended")
      BY <2>2, <1>0
    <3> QED
      BY <3>1, <2>1 DEF DropsAside, ReferenceTypeOK
  <2>6. FilesFirst'
    <3>1. gone \intersect OwnPhotos = {}
      BY <2>3, ReferenceAssumption
    <3>2. OwnPhotos \subseteq jpg' /\ webRows' \subseteq jpg'
      BY <3>1, <2>1, <2>3 DEF FilesFirst
    <3>3. request'[r].phase = "ended" /\ \A t \in Requests \ {r} : request'[t] = request[t]
      BY <1>0, <2>2
    <3>4. \A t \in Requests : request'[t].phase \in {"moved", "storing"} => t \in jpg'
      <4> SUFFICES ASSUME NEW t \in Requests, request'[t].phase \in {"moved", "storing"} PROVE t \in jpg'
        OBVIOUS
      <4>1. t # r /\ request[t].phase \in {"moved", "storing"}
        BY <3>3
      <4>2. t \in jpg /\ t \notin gone
        BY <4>1, <2>3 DEF FilesFirst
      <4> QED
        BY <4>2, <2>1
    <3>5. \A t \in webRows' : request'[t].phase \in {"dropping", "ended"}
      BY <3>3, <2>1 DEF FilesFirst, ReferenceTypeOK
    <3> QED
      BY <3>2, <3>4, <3>5 DEF FilesFirst
  <2>7. ThumbnailKnown'
    BY <2>1 DEF ThumbnailKnown
  <2>8. FilesAccountedFor'
    <3> SUFFICES ASSUME faults' = 0, NEW f \in jpg' \intersect Requests, f \notin webRows
                 PROVE  request'[f].phase \in {"moved", "storing", "undoing"} \/ \E t \in Requests : f \in request'[t].drops
      BY <2>1 DEF FilesAccountedFor
    <3>1. faults = 0 /\ jpg' = jpg \ gone
      BY <2>1 DEF ReferenceTypeOK
    <3>2. f \in jpg /\ f \notin gone
      BY <3>1
    <3>3. CASE request[f].phase \in {"moved", "storing", "undoing"}
      <4>1. f # r
        BY <3>2, <3>3, <2>1 DEF At
      <4> QED
        BY <4>1, <3>3, <2>2
    <3>4. CASE \E t \in Requests : f \in request[t].drops
      <4>1. PICK t \in Requests : f \in request[t].drops
        BY <3>4
      <4>2. t # r
        BY <4>1, <3>2, <2>1 DEF At, DropsAside
      <4> QED
        BY <4>1, <4>2, <2>2
    <3> QED
      BY <3>1, <3>2, <3>3, <3>4 DEF FilesAccountedFor
  <2> QED
    BY <2>2, <2>4, <2>5, <2>6, <2>7, <2>8
<1> QED
  BY <1>1, <1>3, <1>4, <1>6, <1>8, <1>9, <1>10 DEF RequestStep

\* Candidates, entries, stops and steps of others keep it too.
LEMMA ReferenceStepInv == ReferenceInv /\ [ReferenceNext \/ ReferenceFault]_refVars => ReferenceInv'
<1> SUFFICES ASSUME ReferenceInv, [ReferenceNext \/ ReferenceFault]_refVars PROVE ReferenceInv'
  OBVIOUS
<1> USE DEF ReferenceInv
<1>1. ASSUME NEW c \in Candidates, CandidateStep(c) PROVE ReferenceInv'
  <2>1. UNCHANGED <<thumb, webRows, jpg, entered, request, faults>> /\ image' \subseteq Candidates /\ meta' \subseteq Candidates
        /\ stage' \in [Candidates -> {"unknown", "writing", "told", "aged"}]
    BY <1>1 DEF CandidateStep, AddImage, AddMeta, Age, Sweep, ReferenceTypeOK
  <2> QED
    BY <2>1 DEF ReferenceTypeOK, DropsAside, FilesFirst, ThumbnailKnown, FilesAccountedFor
<1>2. ASSUME NEW p \in OwnPhotos, Enter(p) PROVE ReferenceInv'
  <2>1. entered' = entered \union {p} /\ UNCHANGED <<webRows, jpg, image, meta, stage, request, faults>>
        /\ thumb' = IF thumb.current = NoPhoto THEN [thumb EXCEPT !.current = p] ELSE thumb
    BY <1>2 DEF Enter, store
  <2>2. thumb' \in Thumb /\ thumb'.web = thumb.web /\ thumb'.previous = thumb.previous
        /\ thumb'.current = IF thumb.current = NoPhoto THEN p ELSE thumb.current
    BY <2>1 DEF ReferenceTypeOK, Thumb
  <2>3. ReferenceTypeOK'
    BY <2>1, <2>2 DEF ReferenceTypeOK
  <2>4. DropsAside' /\ FilesFirst' /\ FilesAccountedFor'
    BY <2>1 DEF DropsAside, FilesFirst, FilesAccountedFor
  <2>5. \E top \in entered' : \A q \in entered' : q <= top
    <3>1. p \in Nat /\ \A q \in entered : q \in Nat
      BY ReferenceAssumption DEF ReferenceTypeOK
    <3>2. CASE entered = {}
      BY <3>1, <3>2, <2>1
    <3>3. CASE entered # {}
      <4>1. PICK top \in entered : \A q \in entered : q <= top
        BY <3>3 DEF ThumbnailKnown
      <4>2. CASE p <= top
        BY <4>1, <4>2, <3>1, <2>1
      <4>3. CASE ~ (p <= top)
        <5>1. \A q \in entered' : q <= p
          BY <4>1, <4>3, <3>1, <2>1
        <5> QED
          BY <5>1, <2>1
      <4> QED
        BY <4>2, <4>3
    <3> QED
      BY <3>2, <3>3
  <2>6. ThumbnailKnown'
    BY <2>1, <2>2, <2>5, ReferenceAssumption DEF ThumbnailKnown
  <2> QED
    BY <2>1, <2>3, <2>4, <2>6
<1>3. ASSUME ReferenceApiStops PROVE ReferenceInv'
  <2>1. faults' = faults + 1 /\ UNCHANGED <<thumb, webRows, jpg, image, meta, stage, entered>>
        /\ request' = [r \in Requests |-> IF Ongoing(r) THEN Untouched("ended") ELSE request[r]]
    BY <1>3 DEF ReferenceApiStops, store
  <2>2. Untouched("ended") \in RequestRecords /\ Untouched("ended").phase = "ended" /\ Untouched("ended").drops = {}
    BY UntouchedIsOne DEF Phases
  <2>3. \A r \in Requests : request'[r].phase \in {"idle", "ended"} /\ request'[r].drops = {}
        /\ (request[r].phase = "ended" => request'[r].phase = "ended")
        /\ (request[r].phase = "dropping" => request'[r].phase = "ended")
    BY <2>1, <2>2 DEF Ongoing, At, DropsAside
  <2>4. request' \in [Requests -> RequestRecords]
    BY <2>1, <2>2
  <2>5. \A r \in Requests : request'[r].phase \in Phases /\ request'[r].takes \subseteq Candidates
    BY <2>4 DEF RequestRecords
  <2>6. ReferenceTypeOK'
    BY <2>1, <2>3, <2>5 DEF ReferenceTypeOK
  <2>7. DropsAside' /\ FilesFirst' /\ ThumbnailKnown'
    BY <2>1, <2>3 DEF DropsAside, FilesFirst, ThumbnailKnown, ReferenceTypeOK
  <2>8. faults' # 0
    BY <2>1 DEF ReferenceTypeOK
  <2> QED
    BY <2>4, <2>6, <2>7, <2>8 DEF FilesAccountedFor
<1>4. CASE UNCHANGED refVars
  BY <1>4 DEF refVars, ReferenceTypeOK, DropsAside, FilesFirst, ThumbnailKnown, FilesAccountedFor
<1> QED
  BY <1>1, <1>2, <1>3, <1>4, RequestKeeps DEF ReferenceNext, ReferenceFault

\* What searches, removals and entries about the thumbnail of a wine keep, the api stopping
\* where it may (image-search.service.ts).
THEOREM ReferenceInvariance == ReferenceSpec => []ReferenceInv
  BY ReferenceInitInv, ReferenceStepInv, PTL DEF ReferenceSpec

\* What the wine shows can be shown, and without a stop or a file that resists no image of
\* the web is forgotten on the disk, for every number of requests that cross.
THEOREM ImagesAreAccountedFor == ReferenceSpec => []ImagesAccountedFor
<1>1. ReferenceInv => ImagesAccountedFor
  <2> SUFFICES ASSUME ReferenceInv PROVE ImagesAccountedFor
    OBVIOUS
  <2>1. \A p \in {thumb.current, thumb.previous} \ {NoPhoto} : p \in (webRows \union OwnPhotos) \intersect jpg
    BY DEF ReferenceInv, ThumbnailKnown, FilesFirst, ReferenceTypeOK
  <2>2. ASSUME faults = 0, NEW f \in jpg \intersect Requests, f \notin webRows, ~Ongoing(f)
        PROVE  \E r \in Requests : At(r, "dropping") /\ f \in request[r].drops
    <3>1. \E r \in Requests : f \in request[r].drops
      BY <2>2 DEF ReferenceInv, FilesAccountedFor, Ongoing, At
    <3> QED
      BY <3>1 DEF ReferenceInv, DropsAside, At
  <2> QED
    BY <2>1, <2>2 DEF ReferenceInv, ThumbnailKnown, ImagesAccountedFor
<1> QED
  BY <1>1, ReferenceInvariance, PTL

\* The user's own photo is remembered when an image of the web takes its place and comes
\* back when asked for, whatever is searched, entered or effaced in between.
THEOREM OwnPhotosComeBack == ReferenceSpec => OwnPhotoRemembered
<1> DEFINE Back ==
      /\ thumb.current \in OwnPhotos /\ thumb'.web => thumb'.previous = thumb.current
      /\ thumb.web /\ thumb'.web => thumb'.previous = thumb.previous
      /\ thumb.web /\ ~thumb'.web /\ entered # {} => thumb'.current \in entered
<1>1. ReferenceInv /\ [ReferenceNext \/ ReferenceFault]_refVars => [Back]_refVars
  <2> SUFFICES ASSUME ReferenceInv, ReferenceNext \/ ReferenceFault PROVE Back
    OBVIOUS
  <2> USE DEF ReferenceInv
  <2>0. thumb.current \in OwnPhotos => ~thumb.web
    BY ReferenceAssumption DEF ThumbnailKnown
  <2>1. CASE thumb' = thumb
    BY <2>0, <2>1
  <2>2. ASSUME NEW r \in Requests, Store(r) PROVE Back
    <3>1. thumb' = [current |-> r, previous |-> Remembered(thumb), web |-> TRUE]
      BY <2>2 DEF Store, Locked
    <3>2. thumb.web => Replaced(thumb) # {}
      BY DEF Replaced, ThumbnailKnown
    <3>3. thumb.current \in OwnPhotos => Replaced(thumb) = {}
      BY ReferenceAssumption DEF Replaced, ThumbnailKnown
    <3> QED
      BY <3>1, <3>2, <3>3 DEF Remembered
  <2>3. ASSUME NEW r \in Requests, Return(r), thumb' # thumb PROVE Back
    <3>1. thumb' = [current |-> IF thumb.previous # NoPhoto THEN thumb.previous ELSE Latest, previous |-> NoPhoto, web |-> FALSE]
          /\ thumb.current \in webRows
      BY <2>3 DEF Return, Locked
    <3>2. thumb.current \notin OwnPhotos
      BY <3>1, ReferenceAssumption DEF ReferenceTypeOK
    <3>3. entered # {} => Latest \in entered
      BY DEF Latest, ThumbnailKnown
    <3> QED
      BY <3>1, <3>2, <3>3 DEF ThumbnailKnown
  <2>4. ASSUME NEW p \in OwnPhotos, Enter(p) PROVE Back
    <3>1. thumb' = IF thumb.current = NoPhoto THEN [thumb EXCEPT !.current = p] ELSE thumb
      BY <2>4 DEF Enter
    <3>2. thumb'.web = thumb.web /\ thumb'.previous = thumb.previous
      BY <3>1 DEF ReferenceTypeOK, Thumb
    <3> QED
      BY <3>2, <2>0
  <2>5. \/ thumb' = thumb
        \/ \E r \in Requests : Store(r) \/ Return(r)
        \/ \E p \in OwnPhotos : Enter(p)
    BY DEF ReferenceNext, ReferenceFault, RequestStep, CandidateStep, Get, Take, Forget, StoreFails, Undo, AskReturn, Drop,
           DropFails, AddImage, AddMeta, Age, Sweep, ReferenceApiStops
  <2> QED
    BY <2>1, <2>2, <2>3, <2>4, <2>5
<1> QED
  BY <1>1, ReferenceInvariance, PTL DEF ReferenceSpec, OwnPhotoRemembered

-----------------------------------------------------------------------------
(* Accounts and cellars *)

AccountsSpec == AccountsInit /\ [][AccountsGoOn \/ AccountsRequest]_accountVars

LoginRecords == [at : {"idle", "read", "new", "counted", "claim", "claiming"},
                 who : Persons, seen : Account_, invited : BOOLEAN]
AdderRecords == [at : {"idle", "read"}, cave : Caves \union {0}, who : Persons, seen : Account_]

AccountsTyped ==
  /\ user \in [Persons -> Account_]
  /\ owner \in [Caves -> Persons \union {Nobody, "absent"}]
  /\ rows \in [Caves -> [Persons -> SUBSET Kinds]]
  /\ login \in [Logins -> LoginRecords]
  /\ adder \in [Adders -> AdderRecords]
  /\ locked \subseteq Persons /\ rewound \subseteq Persons /\ crossed \subseteq Caves \X Persons

\* The owner of a cellar, and nobody else, has its OWNER row, and no other row of a member;
\* a cellar that is not there has no rows.
OwnersRows ==
  \A c \in Caves, p \in Persons :
    /\ ("OWNER" \in rows[c][p]) = (owner[c] = p)
    /\ ~ ("OWNER" \in rows[c][p] /\ "VIEWER" \in rows[c][p])
    /\ owner[c] = "absent" => rows[c][p] = {}

\* A member is added to a cellar that is there.
AddersMeetACave == \A a \in Adders : adder[a].at = "read" => adder[a].cave \in Caves /\ owner[adder[a].cave] # "absent"

\* An account in waiting has no cellar, and one that no sign-in set back has one at most.
OneCaveEach ==
  \A p \in Persons :
    /\ ~Exists(p) => Owned(p) = {}
    /\ p \notin rewound => /\ user[p].status = "PENDING" => Owned(p) = {}
                           /\ \A c, d \in Owned(p) : c = d

\* A sign-in takes a cellar over alone for its account, which it holds and which has none.
ClaimsAlone ==
  /\ \A l \in Logins, p \in Persons : login[l].who = p /\ login[l].at \in {"claim", "claiming"} =>
       Exists(p) /\ (user[p].status = "PENDING" => p \in rewound)
  /\ \A l \in Logins, p \in Persons : login[l].who = p /\ login[l].at = "claiming" => p \in locked /\ Owned(p) = {}
  /\ \A l, m \in Logins : login[l].at = "claiming" /\ login[m].at = "claiming" /\ login[l].who = login[m].who => l = m

\* What a sign-in has read is of an account that is there.
ReadersExist ==
  \A l \in Logins : login[l].at = "read" =>
    /\ Exists(login[l].who) /\ login[l].seen.status # "none"
    /\ login[l].who \in Configured => login[l].seen.status = "ACTIVE"

\* Nobody is an administrator, or was seen as one, before a listed one is; who is never
\* in waiting nor blocked.
ListedFirst ==
  /\ \A p \in Configured : user[p].status \in {"none", "ACTIVE"}
  /\ (\E p \in Persons : user[p].admin) \/ (\E l \in Logins : login[l].seen.admin) =>
       \E p \in Configured : Administers(p)

Invitations == \A c \in Caves, p \in Persons : Exists(p) /\ "INVITED" \in rows[c][p] => <<c, p>> \in crossed

AccountsInv ==
  /\ AccountsTyped /\ OwnersRows /\ AddersMeetACave /\ OneCaveEach
  /\ ClaimsAlone /\ ReadersExist /\ ListedFirst /\ Invitations

\* The oldest of some cellars is one of them.
LEMMA OldestIsOne ==
  ASSUME NEW cs \in SUBSET Caves, cs # {}
  PROVE  Oldest(cs) \in cs
<1>1. cs \subseteq Nat
  BY AccountsAssumption
<1>2. PICK x \in cs : \A y \in cs : ~ (<<y, x>> \in OpToRel(<, Nat))
  BY <1>1, WFMin, NatLessThanWellFounded
<1>3. \A y \in cs : ~ (y < x)
  BY <1>1, <1>2 DEF OpToRel
<1>4. \A y \in cs : x \in Nat /\ y \in Nat
  BY <1>1
<1>5. \A y \in cs : x <= y
  BY <1>3, <1>4
<1> QED
  BY <1>5 DEF Oldest

\* The records of an account that is not there, and of a sign-in at rest.
LEMMA RestingRecords ==
  /\ NoAccount \in Account_ /\ NoAccount.status = "none" /\ ~NoAccount.admin
  /\ Idle \in LoginRecords /\ Idle.at = "idle" /\ Idle.seen = NoAccount
  /\ Resting \in AdderRecords /\ Resting.at = "idle"
<1> DEFINE no == FALSE
<1>1. no \in BOOLEAN /\ ~no /\ NoAccount = [status |-> "none", admin |-> no]
      /\ Idle = [at |-> "idle", who |-> BreakGlass, seen |-> NoAccount, invited |-> no]
  BY DEF NoAccount, Account, Idle
<1> HIDE DEF no
<1>2. NoAccount \in Account_ /\ NoAccount.status = "none" /\ ~NoAccount.admin
  BY <1>1 DEF Account_
<1>3. Idle \in LoginRecords /\ Idle.at = "idle" /\ Idle.seen = NoAccount
  BY <1>1, <1>2, AccountsAssumption DEF LoginRecords
<1>4. Resting \in AdderRecords /\ Resting.at = "idle"
  BY <1>2, AccountsAssumption DEF AdderRecords, Resting
<1> QED
  BY <1>2, <1>3, <1>4

\* What a sign-in becomes leaves the others as they are.
LEMMA LoginMoves ==
  ASSUME AccountsTyped, NEW l \in Logins, NEW new \in LoginRecords, login' = [login EXCEPT ![l] = new]
  PROVE  /\ login' \in [Logins -> LoginRecords]
         /\ login'[l] = new
         /\ \A m \in Logins \ {l} : login'[m] = login[m]
  BY DEF AccountsTyped

\* A migrated base has one cellar, without owner.
LEMMA AccountsInitInv == AccountsInit => AccountsInv
<1> SUFFICES ASSUME AccountsInit PROVE AccountsInv
  OBVIOUS
<1> DEFINE no == FALSE
           active == [status |-> "ACTIVE", admin |-> no]
<1>1. PICK known \in SUBSET (Persons \ {BreakGlass}) :
       /\ user = [p \in Persons |-> IF p \in known \union {BreakGlass} THEN active ELSE NoAccount]
       /\ rows = [c \in Caves |-> [p \in Persons |->
                    IF c = Oldest(Caves) /\ p \in known THEN {"VIEWER"} ELSE {}]]
  BY DEF AccountsInit, Account
<1>2. no \in BOOLEAN /\ ~no
  OBVIOUS
<1> HIDE DEF no
<1>3. active \in Account_ /\ active.status = "ACTIVE" /\ ~active.admin
  BY <1>2 DEF Account_, Statuses
<1> HIDE DEF active
<1>4. user \in [Persons -> Account_] /\ \A p \in Persons : user[p].status \in {"none", "ACTIVE"} /\ ~user[p].admin
  BY <1>1, <1>3, RestingRecords
<1>5. rows \in [Caves -> [Persons -> SUBSET Kinds]] /\ \A c \in Caves, p \in Persons :
        "OWNER" \notin rows[c][p] /\ "INVITED" \notin rows[c][p] /\ (c # Oldest(Caves) => rows[c][p] = {})
  BY <1>1 DEF Kinds
<1>6. /\ owner = [c \in Caves |-> IF c = Oldest(Caves) THEN Nobody ELSE "absent"]
      /\ login = [l \in Logins |-> Idle] /\ adder = [a \in Adders |-> Resting]
      /\ locked = {} /\ rewound = {} /\ crossed = {}
  BY DEF AccountsInit
<1>7. /\ owner \in [Caves -> Persons \union {Nobody, "absent"}]
      /\ \A c \in Caves, p \in Persons : owner[c] # p /\ (owner[c] = "absent" => c # Oldest(Caves))
  BY <1>6, AccountsAssumption
<1>8. \A l \in Logins : login[l].at = "idle" /\ ~login[l].seen.admin
  BY <1>6, RestingRecords
<1>9. AccountsTyped
  BY <1>4, <1>5, <1>6, <1>7, RestingRecords DEF AccountsTyped
<1>10. OwnersRows
  BY <1>5, <1>7 DEF OwnersRows
<1>11. AddersMeetACave
  BY <1>6, RestingRecords DEF AddersMeetACave
<1>12. OneCaveEach
  BY <1>7 DEF OneCaveEach, Owned
<1>13. ClaimsAlone /\ ReadersExist
  BY <1>8 DEF ClaimsAlone, ReadersExist
<1>14. ListedFirst
  BY <1>4, <1>8, AccountsAssumption DEF ListedFirst
<1>15. Invitations
  BY <1>5 DEF Invitations
<1> QED
  BY <1>9, <1>10, <1>11, <1>12, <1>13, <1>14, <1>15 DEF AccountsInv

\* A sign-in that writes nothing keeps the invariant.
LEMMA SigningInKeeps ==
  ASSUME AccountsInv, NEW l \in Logins, NEW new \in LoginRecords, login' = [login EXCEPT ![l] = new],
         UNCHANGED <<user, owner, rows, adder, locked, rewound, crossed>>,
         new.at \notin {"claim", "claiming"},
         new.at = "read" => Exists(new.who) /\ new.seen = user[new.who],
         new.seen.admin => \E p \in Persons : user[p].admin
  PROVE  AccountsInv'
<1> USE DEF AccountsInv
<1>1. /\ login' \in [Logins -> LoginRecords]
      /\ login'[l] = new
      /\ \A m \in Logins \ {l} : login'[m] = login[m]
  BY LoginMoves
<1>2. AccountsTyped'
  BY <1>1 DEF AccountsTyped
<1>3. OwnersRows' /\ AddersMeetACave' /\ OneCaveEach' /\ Invitations'
  BY DEF OwnersRows, AddersMeetACave, OneCaveEach, Invitations, Owned, Exists
<1>4. ClaimsAlone'
  BY <1>1 DEF ClaimsAlone, Owned, Exists
<1>5. ReadersExist'
  <2>1. new.at = "read" => new.seen.status # "none" /\ (new.who \in Configured => new.seen.status = "ACTIVE")
    BY AccountsAssumption DEF Exists, ListedFirst
  <2> QED
    BY <1>1, <2>1 DEF ReadersExist, Exists
<1>6. ListedFirst'
  BY <1>1 DEF ListedFirst, Administers
<1> QED
  BY <1>2, <1>3, <1>4, <1>5, <1>6

\* After it has written an account a sign-in ends, or goes on to claim a cellar for it.
LEMMA AfterWriteMoves ==
  ASSUME AccountsTyped, NEW l \in Logins, NEW p \in Persons, NEW written \in Account_, AfterWrite(l, p, written)
  PROVE  \E new \in LoginRecords :
           /\ login' = [login EXCEPT ![l] = new]
           /\ new.at \in {"idle", "claim"} /\ new.seen = NoAccount
           /\ new.at = "claim" => new.who = p /\ written.status = "ACTIVE"
<1>1. CASE login' = [login EXCEPT ![l] = Idle]
  BY <1>1, RestingRecords
<1>2. CASE written.status = "ACTIVE" /\ login' = [login EXCEPT ![l] = [Idle EXCEPT !.at = "claim", !.who = p]]
  <2> DEFINE new == [Idle EXCEPT !.at = "claim", !.who = p]
  <2>1. new \in LoginRecords /\ new.at = "claim" /\ new.who = p /\ new.seen = Idle.seen
    BY RestingRecords DEF LoginRecords
  <2> QED
    BY <1>2, <2>1, RestingRecords
<1> QED
  BY <1>1, <1>2 DEF AfterWrite, Settled

\* What a sign-in writes of an account it has read.
LEMMA UpdateKeeps ==
  ASSUME AccountsInv, NEW l \in Logins, LoginUpdate(l)
  PROVE  AccountsInv'
<1> USE DEF AccountsInv
<1> DEFINE p == login[l].who
           seen == login[l].seen
           admin == ResolveIsAdmin(p, seen.admin)
           written == [status |-> ResolveStatus(admin, seen.status), admin |-> admin]
<1>1. /\ login[l].at = "read" /\ login[l] \in LoginRecords
      /\ user' = [user EXCEPT ![p] = written]
      /\ rewound' = IF user[p].status # seen.status THEN rewound \union {p} ELSE rewound
      /\ AfterWrite(l, p, written)
      /\ UNCHANGED <<owner, rows, adder, locked, crossed>>
  BY DEF LoginUpdate, Account, AccountsTyped
<1>2. p \in Persons /\ seen \in Account_ /\ seen.status # "none" /\ Exists(p) /\ (p \in Configured => seen.status = "ACTIVE")
  BY <1>1 DEF LoginRecords, ReadersExist
<1>3. admin \in BOOLEAN /\ (p \in Configured => admin) /\ (admin => p \in Configured \/ seen.admin)
  BY <1>2 DEF ResolveIsAdmin, Account_
<1> HIDE DEF admin
<1>4. ResolveStatus(admin, seen.status) \in Statuses
      /\ (ResolveStatus(admin, seen.status) = "PENDING" => seen.status = "PENDING")
      /\ (p \in Configured => ResolveStatus(admin, seen.status) = "ACTIVE")
  BY <1>2, <1>3 DEF ResolveStatus, Account_, Statuses
<1>5. /\ written \in Account_ /\ written.admin = admin /\ written.status # "none"
      /\ written.status = "PENDING" => seen.status = "PENDING"
      /\ p \in Configured => written.status = "ACTIVE"
  BY <1>3, <1>4 DEF Account_, Statuses
<1> HIDE DEF written
<1>6. PICK new \in LoginRecords :
        /\ login' = [login EXCEPT ![l] = new]
        /\ new.at \in {"idle", "claim"} /\ new.seen = NoAccount
        /\ new.at = "claim" => new.who = p /\ written.status = "ACTIVE"
  BY <1>1, <1>2, <1>5, AfterWriteMoves
<1>7. /\ login' \in [Logins -> LoginRecords]
      /\ login'[l] = new
      /\ \A m \in Logins \ {l} : login'[m] = login[m]
  BY <1>6, LoginMoves
<1>8. /\ user' \in [Persons -> Account_]
      /\ user'[p] = written
      /\ \A q \in Persons \ {p} : user'[q] = user[q]
  BY <1>1, <1>2, <1>5 DEF AccountsTyped
<1>9. rewound \subseteq rewound' /\ rewound' \subseteq Persons
      /\ (written.status = "PENDING" => p \in rewound' \/ user[p].status = "PENDING")
  BY <1>1, <1>2, <1>5 DEF AccountsTyped
<1>10. \A q \in Persons : Exists(q)' = Exists(q)
  BY <1>2, <1>5, <1>8 DEF Exists
<1>11. AccountsTyped'
  BY <1>1, <1>7, <1>8, <1>9 DEF AccountsTyped
<1>12. OwnersRows' /\ AddersMeetACave' /\ Invitations'
  BY <1>1, <1>10 DEF OwnersRows, AddersMeetACave, Invitations
<1>13. OneCaveEach'
  <2>1. \A q \in Persons : Owned(q)' = Owned(q)
    BY <1>1 DEF Owned
  <2>2. \A q \in Persons : q \notin rewound' /\ user'[q].status = "PENDING" => q \notin rewound /\ user[q].status = "PENDING"
    BY <1>8, <1>9
  <2> QED
    BY <1>9, <1>10, <2>1, <2>2 DEF OneCaveEach
<1>14. ClaimsAlone'
  <2>1. \A q \in Persons : Owned(q)' = Owned(q)
    BY <1>1 DEF Owned
  <2>2. \A q \in Persons : user'[q].status = "PENDING" => q \in rewound' \/ user[q].status = "PENDING"
    BY <1>8, <1>9
  <2>3. \A m \in Logins : login[m].who \in Persons
    BY DEF AccountsTyped, LoginRecords
  <2>4. new.at = "claim" => user'[new.who].status # "PENDING" /\ \A q \in Persons : new.who = q => Exists(q)'
    BY <1>2, <1>6, <1>8, <1>10
  <2>5. \A m \in Logins, q \in Persons : login'[m].who = q /\ login'[m].at \in {"claim", "claiming"} =>
           Exists(q)' /\ (user'[q].status = "PENDING" => q \in rewound')
    BY <1>2, <1>6, <1>7, <1>9, <1>10, <2>2, <2>4 DEF ClaimsAlone
  <2>6. \A m \in Logins : login'[m].at = "claiming" => login'[m] = login[m]
    BY <1>6, <1>7
  <2> QED
    BY <1>1, <2>1, <2>3, <2>5, <2>6 DEF ClaimsAlone
<1>15. ReadersExist'
  <2>1. \A m \in Logins : login'[m].at = "read" => login'[m] = login[m]
    BY <1>6, <1>7
  <2>2. \A m \in Logins : login[m].who \in Persons
    BY DEF AccountsTyped, LoginRecords
  <2> QED
    BY <1>10, <2>1, <2>2 DEF ReadersExist
<1>16. ListedFirst'
  <2>1. ~NoAccount.admin
    BY RestingRecords
  <2>2. ASSUME (\E q \in Persons : user'[q].admin) \/ (\E m \in Logins : login'[m].seen.admin)
        PROVE  \E q \in Configured : Administers(q)'
    <3>1. CASE p \in Configured
      BY <3>1, <1>2, <1>3, <1>5, <1>8 DEF Administers
    <3>2. CASE p \notin Configured
      <4>1. (\E q \in Persons : user[q].admin) \/ (\E m \in Logins : login[m].seen.admin)
        BY <2>1, <2>2, <3>2, <1>3, <1>5, <1>6, <1>7, <1>8
      <4>2. PICK q \in Configured : Administers(q)
        BY <4>1 DEF ListedFirst
      <4> QED
        BY <4>2, <3>2, <1>8, AccountsAssumption DEF Administers
    <3> QED
      BY <3>1, <3>2
  <2>3. \A q \in Configured : user'[q].status \in {"none", "ACTIVE"}
    BY <1>5, <1>8, AccountsAssumption DEF ListedFirst
  <2> QED
    BY <2>2, <2>3 DEF ListedFirst
<1> QED
  BY <1>11, <1>12, <1>13, <1>14, <1>15, <1>16

\* A new account, active when it is listed or invited, takes the place of its address.
LEMMA CreateKeeps ==
  ASSUME AccountsInv, NEW l \in Logins, CreateGoogleUser(l)
  PROVE  AccountsInv'
<1> USE DEF AccountsInv
<1> DEFINE p == login[l].who
           invited == login[l].invited
           admin == ResolveIsAdmin(p, FALSE)
           written == [status |-> IF admin \/ invited THEN "ACTIVE" ELSE "PENDING", admin |-> admin]
<1>1. login[l].at = "counted" /\ login[l] \in LoginRecords /\ UNCHANGED <<owner, adder, locked, rewound>> /\ p \in Persons /\ invited \in BOOLEAN
  BY DEF CreateGoogleUser, AccountsTyped, LoginRecords
<1>2. CASE Exists(p)
  <2>1. login' = [login EXCEPT ![l] = Idle] /\ UNCHANGED <<user, rows, crossed>>
    BY <1>2 DEF CreateGoogleUser, Settled
  <2> QED
    BY <1>1, <2>1, RestingRecords, SigningInKeeps
<1>3. CASE ~Exists(p)
  <2>1. /\ user' = [user EXCEPT ![p] = written]
        /\ rows' = IF invited THEN [c \in Caves |-> [rows[c] EXCEPT ![p] = Attached(@)]] ELSE rows
        /\ crossed' = IF invited THEN crossed
                      ELSE crossed \union {<<c, p>> : c \in {d \in Caves : "INVITED" \in rows[d][p]}}
        /\ AfterWrite(l, p, written)
    BY <1>3 DEF CreateGoogleUser, Account
  <2>2. admin \in BOOLEAN /\ (admin <=> p \in Configured)
    BY DEF ResolveIsAdmin
  <2> HIDE DEF admin
  <2>3. /\ written \in Account_ /\ written.admin = admin /\ written.status # "none"
        /\ p \in Configured => written.status = "ACTIVE"
    BY <2>2 DEF Account_, Statuses
  <2> HIDE DEF written, invited
  <2>4. PICK new \in LoginRecords :
          /\ login' = [login EXCEPT ![l] = new]
          /\ new.at \in {"idle", "claim"} /\ new.seen = NoAccount
          /\ new.at = "claim" => new.who = p /\ written.status = "ACTIVE"
    BY <1>1, <2>1, <2>3, AfterWriteMoves
  <2>5. /\ login' \in [Logins -> LoginRecords]
        /\ login'[l] = new
        /\ \A m \in Logins \ {l} : login'[m] = login[m]
    BY <2>4, LoginMoves
  <2>6. /\ user' \in [Persons -> Account_]
        /\ user'[p] = written
        /\ \A q \in Persons \ {p} : user'[q] = user[q]
    BY <1>1, <2>1, <2>3 DEF AccountsTyped
  <2>7. \A q \in Persons : Exists(q)' <=> (Exists(q) \/ q = p)
    BY <2>3, <2>6, <1>1 DEF Exists
  <2>8. Owned(p) = {} /\ \A q \in Persons : Owned(q)' = Owned(q)
    BY <1>1, <1>3 DEF OneCaveEach, Owned
  <2>9. \A c \in Caves : owner[c] # p /\ "OWNER" \notin rows[c][p]
    BY <2>8, <1>1 DEF Owned, OwnersRows
  <2>10. /\ rows' \in [Caves -> [Persons -> SUBSET Kinds]]
         /\ \A c \in Caves : \A q \in Persons \ {p} : rows'[c][q] = rows[c][q]
         /\ \A c \in Caves : rows'[c][p] = IF invited THEN Attached(rows[c][p]) ELSE rows[c][p]
    <3>1. \A c \in Caves : rows[c] \in [Persons -> SUBSET Kinds] /\ Attached(rows[c][p]) \in SUBSET Kinds
      BY <1>1 DEF AccountsTyped, Attached, Kinds
    <3> HIDE DEF p
    <3>2. CASE invited
      <4>1. rows' = [c \in Caves |-> [rows[c] EXCEPT ![p] = Attached(rows[c][p])]]
        BY <2>1, <3>2
      <4>2. \A c \in Caves : rows'[c] = [rows[c] EXCEPT ![p] = Attached(rows[c][p])]
        BY <4>1
      <4>3. ASSUME NEW c \in Caves PROVE rows'[c] \in [Persons -> SUBSET Kinds]
        <5>1. rows[c] \in [Persons -> SUBSET Kinds] /\ Attached(rows[c][p]) \in SUBSET Kinds
          BY <3>1
        <5>2. rows'[c] = [rows[c] EXCEPT ![p] = Attached(rows[c][p])]
          BY <4>2
        <5> QED
          BY <5>1, <5>2
      <4>4. rows' \in [Caves -> [Persons -> SUBSET Kinds]]
        BY <4>1, <4>2, <4>3
      <4> QED
        BY <3>1, <3>2, <4>2, <4>4, <1>1
    <3>3. CASE ~invited
      BY <2>1, <3>3 DEF AccountsTyped
    <3> QED
      BY <3>2, <3>3
  <2>11. \A c \in Caves : /\ "OWNER" \notin rows'[c][p]
                          /\ rows[c][p] = {} => rows'[c][p] = {}
                          /\ "INVITED" \in rows'[c][p] => <<c, p>> \in crossed'
    BY <2>1, <2>9, <2>10 DEF Attached
  <2>12. crossed \subseteq crossed' /\ crossed' \subseteq Caves \X Persons
    BY <1>1, <2>1 DEF AccountsTyped
  <2>13. AccountsTyped'
    BY <1>1, <2>5, <2>6, <2>10, <2>12 DEF AccountsTyped
  <2>14. OwnersRows'
    <3> SUFFICES ASSUME NEW c \in Caves, NEW q \in Persons
                 PROVE  /\ ("OWNER" \in rows'[c][q]) = (owner[c] = q)
                        /\ ~ ("OWNER" \in rows'[c][q] /\ "VIEWER" \in rows'[c][q])
                        /\ owner[c] = "absent" => rows'[c][q] = {}
      BY <1>1 DEF OwnersRows
    <3>1. CASE q = p
      <4>1. owner[c] = "absent" => rows[c][p] = {}
        BY <1>1 DEF OwnersRows
      <4>2. "OWNER" \notin rows'[c][q] /\ owner[c] # q
        BY <3>1, <2>9, <2>11
      <4>3. owner[c] = "absent" => rows'[c][q] = {}
        BY <3>1, <4>1, <2>11
      <4> HIDE DEF p
      <4> QED
        BY <4>2, <4>3
    <3>2. CASE q # p
      BY <3>2, <2>10 DEF OwnersRows
    <3> QED
      BY <3>1, <3>2
  <2>15. AddersMeetACave'
    BY <1>1 DEF AddersMeetACave
  <2>16. OneCaveEach'
    BY <1>1, <2>6, <2>7, <2>8 DEF OneCaveEach
  <2>17. ClaimsAlone'
    <3>1. \A m \in Logins : login[m].at \in {"claim", "claiming"} => login[m].who # p
      BY <1>1, <1>3 DEF ClaimsAlone
    <3>2. new.at = "claim" => user'[new.who].status # "PENDING" /\ \A q \in Persons : new.who = q => Exists(q)'
      BY <2>4, <2>6, <2>7, <1>1
    <3>3. \A m \in Logins : login'[m].at = "claiming" => login'[m] = login[m]
      BY <2>4, <2>5
    <3>4. \A m \in Logins, q \in Persons : login'[m].who = q /\ login'[m].at \in {"claim", "claiming"} =>
            Exists(q)' /\ (user'[q].status = "PENDING" => q \in rewound')
      <4> SUFFICES ASSUME NEW m \in Logins, NEW q \in Persons, login'[m].who = q, login'[m].at \in {"claim", "claiming"}
                   PROVE  Exists(q)' /\ (user'[q].status = "PENDING" => q \in rewound')
        OBVIOUS
      <4>1. CASE m = l
        BY <4>1, <3>2, <2>4, <2>5
      <4>2. CASE m # l
        <5>1. login[m].who = q /\ login[m].at \in {"claim", "claiming"} /\ q # p
          BY <4>2, <3>1, <2>5
        <5>2. Exists(q) /\ (user[q].status = "PENDING" => q \in rewound)
          BY <5>1 DEF ClaimsAlone
        <5> QED
          BY <5>1, <5>2, <1>1, <2>6, <2>7
      <4> QED
        BY <4>1, <4>2
    <3> QED
      BY <1>1, <2>8, <3>3, <3>4 DEF ClaimsAlone
  <2>18. ReadersExist'
    <3>1. \A m \in Logins : login'[m].at = "read" => login'[m] = login[m]
      BY <2>4, <2>5
    <3>2. \A m \in Logins : login[m].who \in Persons
      BY DEF AccountsTyped, LoginRecords
    <3> QED
      BY <2>7, <3>1, <3>2 DEF ReadersExist
  <2>19. ListedFirst'
    <3>1. ~NoAccount.admin
      BY RestingRecords
    <3>2. ASSUME (\E q \in Persons : user'[q].admin) \/ (\E m \in Logins : login'[m].seen.admin)
          PROVE  \E q \in Configured : Administers(q)'
      <4>1. CASE p \in Configured
        BY <4>1, <1>1, <2>2, <2>3, <2>6 DEF Administers
      <4>2. CASE p \notin Configured
        <5>1. (\E q \in Persons : user[q].admin) \/ (\E m \in Logins : login[m].seen.admin)
          BY <3>1, <3>2, <4>2, <2>2, <2>3, <2>4, <2>5, <2>6
        <5>2. PICK q \in Configured : Administers(q)
          BY <5>1 DEF ListedFirst
        <5> QED
          BY <5>2, <4>2, <2>6, AccountsAssumption DEF Administers
      <4> QED
        BY <4>1, <4>2
    <3>3. \A q \in Configured : user'[q].status \in {"none", "ACTIVE"}
      BY <2>3, <2>6, AccountsAssumption DEF ListedFirst
    <3> QED
      BY <3>2, <3>3 DEF ListedFirst
  <2>20. Invitations'
    BY <2>7, <2>10, <2>11, <2>12 DEF Invitations
  <2> QED
    BY <2>13, <2>14, <2>15, <2>16, <2>17, <2>18, <2>19, <2>20
<1> QED
  BY <1>2, <1>3

\* The other steps of a sign-in: its readings, the lock of its account, the cellar it takes.
LEMMA SignInKeeps ==
  ASSUME AccountsInv, NEW l \in Logins, SignIn(l)
  PROVE  AccountsInv'
<1> USE DEF AccountsInv
<1>0. login[l] \in LoginRecords /\ login[l].who \in Persons
  BY DEF AccountsTyped, LoginRecords
<1>1. ASSUME LoginRead(l) PROVE AccountsInv'
  <2> DEFINE no == FALSE
  <2>1. UNCHANGED <<user, owner, rows, adder, locked, rewound, crossed>>
        /\ \E p \in Persons : login' = [login EXCEPT ![l] =
                 [at |-> IF Exists(p) THEN "read" ELSE "new", who |-> p, seen |-> user[p], invited |-> no]]
    BY <1>1 DEF LoginRead
  <2>2. no \in BOOLEAN
    OBVIOUS
  <2> HIDE DEF no
  <2>3. PICK p \in Persons : login' = [login EXCEPT ![l] =
                 [at |-> IF Exists(p) THEN "read" ELSE "new", who |-> p, seen |-> user[p], invited |-> no]]
    BY <2>1
  <2> DEFINE new == [at |-> IF Exists(p) THEN "read" ELSE "new", who |-> p, seen |-> user[p], invited |-> no]
  <2>4. /\ new \in LoginRecords /\ new.who = p /\ new.seen = user[p] /\ new.at \in {"read", "new"}
        /\ new.at = "read" => Exists(p)
    BY <2>2 DEF LoginRecords, AccountsTyped
  <2>5. login' = [login EXCEPT ![l] = new]
    BY <2>3
  <2> HIDE DEF new
  <2> QED
    BY <2>1, <2>4, <2>5, SigningInKeeps
<1>2. ASSUME CountInvitations(l) PROVE AccountsInv'
  <2> DEFINE found == \E c \in Caves : "INVITED" \in rows[c][login[l].who]
             one == [login[l] EXCEPT !.at = "counted"]
             new == [one EXCEPT !.invited = found]
  <2>1. login' = [login EXCEPT ![l] = new] /\ UNCHANGED <<user, owner, rows, adder, locked, rewound, crossed>>
    BY <1>2, <1>0 DEF CountInvitations, AccountsTyped
  <2>2. found \in BOOLEAN
    OBVIOUS
  <2> HIDE DEF found
  <2>3. one \in LoginRecords /\ one.at = "counted" /\ one.seen = login[l].seen
    BY <1>0 DEF LoginRecords
  <2> HIDE DEF one
  <2>4. new \in LoginRecords /\ new.at = "counted" /\ new.seen = login[l].seen
    BY <2>2, <2>3 DEF LoginRecords
  <2> HIDE DEF new
  <2>5. login[l].seen.admin => \E p \in Persons : user[p].admin
    BY AccountsAssumption DEF ListedFirst, Administers
  <2> QED
    BY <2>1, <2>4, <2>5, SigningInKeeps
<1>3. ASSUME ClaimLock(l) PROVE AccountsInv'
  <2> DEFINE p == login[l].who
             new == [login[l] EXCEPT !.at = "claiming"]
  <2>1. /\ login[l].at = "claim" /\ p \notin locked /\ UNCHANGED <<user, owner, rows, adder, rewound, crossed>>
        /\ \/ Owned(p) = {} /\ locked' = locked \union {p} /\ login' = [login EXCEPT ![l] = new]
           \/ login' = [login EXCEPT ![l] = Idle] /\ UNCHANGED locked
    BY <1>3 DEF ClaimLock, LacksCave, Go, Settled
  <2>2. CASE login' = [login EXCEPT ![l] = Idle] /\ UNCHANGED locked
    BY <2>1, <2>2, RestingRecords, SigningInKeeps
  <2>3. CASE Owned(p) = {} /\ locked' = locked \union {p} /\ login' = [login EXCEPT ![l] = new]
    <3>1. new \in LoginRecords /\ new.at = "claiming" /\ new.who = p /\ new.seen = login[l].seen
      BY <1>0 DEF LoginRecords
    <3> HIDE DEF new
    <3>2. /\ login' \in [Logins -> LoginRecords]
          /\ login'[l] = new
          /\ \A m \in Logins \ {l} : login'[m] = login[m]
      BY <2>3, <3>1, LoginMoves
    <3>3. AccountsTyped'
      BY <1>0, <2>1, <2>3, <3>2 DEF AccountsTyped
    <3>4. OwnersRows' /\ AddersMeetACave' /\ OneCaveEach' /\ Invitations'
      BY <2>1 DEF OwnersRows, AddersMeetACave, OneCaveEach, Invitations, Owned, Exists
    <3>5. ClaimsAlone'
      <4>1. \A m \in Logins : login[m].at = "claiming" => login[m].who # p
        BY <1>0, <2>1 DEF ClaimsAlone
      <4>2. \A q \in Persons : Owned(q)' = Owned(q) /\ Exists(q)' = Exists(q)
        BY <2>1 DEF Owned, Exists
      <4>3. \A m \in Logins : login'[m].who = login[m].who
        BY <3>1, <3>2
      <4>4. \A m \in Logins : login'[m].at \in {"claim", "claiming"} => login[m].at \in {"claim", "claiming"}
        BY <2>1, <3>1, <3>2
      <4>5. \A m \in Logins : login'[m].at = "claiming" => m = l \/ login[m].at = "claiming"
        BY <3>2
      <4>6. \A m \in Logins, q \in Persons : login'[m].who = q /\ login'[m].at \in {"claim", "claiming"} =>
              Exists(q)' /\ (user'[q].status = "PENDING" => q \in rewound')
        BY <2>1, <4>2, <4>3, <4>4 DEF ClaimsAlone
      <4>7. \A m \in Logins, q \in Persons : login'[m].who = q /\ login'[m].at = "claiming" => q \in locked' /\ Owned(q) = {}
        BY <2>3, <4>3, <4>5 DEF ClaimsAlone
      <4>8. \A m, n \in Logins : login'[m].at = "claiming" /\ login'[n].at = "claiming" /\ login'[m].who = login'[n].who => m = n
        BY <4>1, <4>3, <4>5 DEF ClaimsAlone
      <4> QED
        BY <4>2, <4>6, <4>7, <4>8 DEF ClaimsAlone
    <3>6. ReadersExist'
      BY <2>1, <3>1, <3>2 DEF ReadersExist, Exists
    <3>7. ListedFirst'
      BY <2>1, <3>1, <3>2 DEF ListedFirst, Administers
    <3> QED
      BY <3>3, <3>4, <3>5, <3>6, <3>7
  <2> QED
    BY <2>1, <2>2, <2>3
<1>4. ASSUME ClaimTake(l) PROVE AccountsInv'
  <2> DEFINE p == login[l].who
             takeable == {c \in Caves : owner[c] = Nobody}
  <2>1. /\ login[l].at = "claiming" /\ locked' = locked \ {p} /\ login' = [login EXCEPT ![l] = Idle]
        /\ UNCHANGED <<user, adder, rewound, crossed>>
        /\ \/ UNCHANGED <<owner, rows>>
           \/ /\ takeable # {}
              /\ owner' = [owner EXCEPT ![Oldest(takeable)] = p]
              /\ rows' = [rows EXCEPT ![Oldest(takeable)][p] = Promoted(@)]
    BY <1>4 DEF ClaimTake, Takeable, Settled
  <2>2. /\ login' \in [Logins -> LoginRecords]
        /\ login'[l] = Idle
        /\ \A m \in Logins \ {l} : login'[m] = login[m]
    BY <2>1, RestingRecords, LoginMoves
  <2>3. Exists(p) /\ (user[p].status = "PENDING" => p \in rewound) /\ Owned(p) = {}
        /\ \A m \in Logins \ {l} : login[m].at = "claiming" => login[m].who # p
    BY <1>0, <2>1 DEF ClaimsAlone
  <2>4. ReadersExist' /\ ListedFirst'
    BY <2>1, <2>2, RestingRecords DEF ReadersExist, ListedFirst, Exists, Administers
  <2>5. \A q \in Persons : Exists(q)' = Exists(q)
    BY <2>1 DEF Exists
  <2>6. \A m \in Logins : login'[m].at \in {"claim", "claiming"} => m # l /\ login'[m] = login[m]
    BY <2>2, RestingRecords
  <2>7. \A m \in Logins : login[m].who \in Persons
    BY DEF AccountsTyped, LoginRecords
  <2>8. ASSUME \A q \in Persons \ {p} : Owned(q)' = Owned(q) PROVE ClaimsAlone'
    <3>1. \A m \in Logins, q \in Persons : login'[m].who = q /\ login'[m].at \in {"claim", "claiming"} =>
            Exists(q)' /\ (user'[q].status = "PENDING" => q \in rewound')
      BY <2>1, <2>5, <2>6 DEF ClaimsAlone
    <3>2. \A m \in Logins, q \in Persons : login'[m].who = q /\ login'[m].at = "claiming" => q \in locked' /\ Owned(q) = {} /\ q # p
      BY <2>1, <2>3, <2>6 DEF ClaimsAlone
    <3>3. \A m, n \in Logins : login'[m].at = "claiming" /\ login'[n].at = "claiming" /\ login'[m].who = login'[n].who => m = n
      BY <2>6 DEF ClaimsAlone
    <3>4. \A m \in Logins, q \in Persons : login'[m].who = q /\ login'[m].at = "claiming" => q \in locked' /\ Owned(q)' = {}
      BY <3>2, <2>8
    <3> QED
      BY <3>1, <3>3, <3>4 DEF ClaimsAlone
  <2>9. CASE UNCHANGED <<owner, rows>>
    <3>1. AccountsTyped' /\ OwnersRows' /\ AddersMeetACave' /\ OneCaveEach' /\ Invitations'
      BY <2>1, <2>2, <2>9 DEF AccountsTyped, OwnersRows, AddersMeetACave, OneCaveEach, Invitations, Owned, Exists
    <3>2. \A q \in Persons : Owned(q)' = Owned(q)
      BY <2>9 DEF Owned
    <3> QED
      BY <2>4, <2>8, <3>1, <3>2
  <2>10. CASE /\ takeable # {}
              /\ owner' = [owner EXCEPT ![Oldest(takeable)] = p]
              /\ rows' = [rows EXCEPT ![Oldest(takeable)][p] = Promoted(@)]
    <3> DEFINE c == Oldest(takeable)
    <3>1. c \in Caves /\ owner[c] = Nobody
      <4>1. c \in takeable
        BY <2>10, OldestIsOne
      <4> QED
        BY <4>1
    <3>2. owner' = [owner EXCEPT ![c] = p] /\ rows' = [rows EXCEPT ![c][p] = Promoted(rows[c][p])]
      BY <2>10
    <3> HIDE DEF c, takeable
    <3>3. /\ owner' \in [Caves -> Persons \union {Nobody, "absent"}] /\ owner'[c] = p
          /\ \A d \in Caves \ {c} : owner'[d] = owner[d]
      BY <1>0, <3>1, <3>2 DEF AccountsTyped
    <3>4. rows[c] \in [Persons -> SUBSET Kinds] /\ Promoted(rows[c][p]) \in SUBSET Kinds
      BY <1>0, <3>1 DEF AccountsTyped, Promoted, Kinds
    <3>5. /\ rows' \in [Caves -> [Persons -> SUBSET Kinds]]
          /\ rows'[c][p] = Promoted(rows[c][p])
          /\ \A q \in Persons \ {p} : rows'[c][q] = rows[c][q]
          /\ \A d \in Caves \ {c} : rows'[d] = rows[d]
      BY <1>0, <3>1, <3>2, <3>4 DEF AccountsTyped
    <3>6. AccountsTyped'
      BY <2>1, <2>2, <3>3, <3>5 DEF AccountsTyped
    <3>7. OwnersRows'
      <4> SUFFICES ASSUME NEW d \in Caves, NEW q \in Persons
                   PROVE  /\ ("OWNER" \in rows'[d][q]) = (owner'[d] = q)
                          /\ ~ ("OWNER" \in rows'[d][q] /\ "VIEWER" \in rows'[d][q])
                          /\ owner'[d] = "absent" => rows'[d][q] = {}
        BY DEF OwnersRows
      <4>1. CASE d # c
        BY <4>1, <3>3, <3>5 DEF OwnersRows
      <4>2. CASE d = c /\ q # p
        BY <4>2, <1>0, <3>1, <3>3, <3>5, AccountsAssumption DEF OwnersRows
      <4>3. CASE d = c /\ q = p
        <5>1. "OWNER" \in Promoted(rows[c][p]) /\ "VIEWER" \notin Promoted(rows[c][p])
          BY DEF Promoted
        <5>2. owner'[d] = q /\ owner'[d] # "absent" /\ rows'[d][q] = Promoted(rows[c][p])
          BY <4>3, <3>3, <3>5, AccountsAssumption
        <5> HIDE DEF p
        <5> QED
          BY <5>1, <5>2
      <4> QED
        BY <4>1, <4>2, <4>3
    <3>8. AddersMeetACave'
      BY <1>0, <2>1, <3>3, AccountsAssumption DEF AddersMeetACave
    <3>9. /\ \A q \in Persons : q = p => Owned(q)' = {c}
          /\ \A q \in Persons \ {p} : Owned(q)' = Owned(q)
      <4> SUFFICES ASSUME NEW q \in Persons
                   PROVE  Owned(q)' = IF q = p THEN {c} ELSE Owned(q)
        OBVIOUS
      <4>1. \A d \in Caves : owner'[d] = q <=> (d = c /\ q = p) \/ (d # c /\ owner[d] = q)
        BY <3>1, <3>3
      <4>2. q = p => \A d \in Caves : owner[d] # q
        BY <1>0, <2>3 DEF Owned
      <4>3. owner[c] # q
        BY <3>1, AccountsAssumption
      <4>4. \A d \in Caves : owner'[d] = q <=> IF q = p THEN d = c ELSE owner[d] = q
        BY <4>1, <4>2, <4>3
      <4>5. Owned(q) = {d \in Caves : owner[d] = q} /\ Owned(q)' = {d \in Caves : owner'[d] = q}
        BY DEF Owned
      <4> HIDE DEF p
      <4>6. CASE q = p
        BY <4>4, <4>5, <4>6, <3>1
      <4>7. CASE q # p
        BY <4>4, <4>5, <4>7
      <4> QED
        BY <4>6, <4>7
    <3>10. OneCaveEach'
      <4> SUFFICES ASSUME NEW q \in Persons
                   PROVE  /\ ~Exists(q) => Owned(q)' = {}
                          /\ q \notin rewound => /\ user[q].status = "PENDING" => Owned(q)' = {}
                                                 /\ \A d, e \in Owned(q)' : d = e
        BY <2>1, <2>5 DEF OneCaveEach
      <4>1. CASE q = p
        <5>1. Owned(q)' = {c} /\ Exists(q) /\ (user[q].status = "PENDING" => q \in rewound)
          BY <4>1, <2>3, <3>9
        <5> QED
          BY <5>1
      <4>2. CASE q # p
        <5>1. Owned(q)' = Owned(q)
          BY <4>2, <3>9
        <5> QED
          BY <5>1 DEF OneCaveEach
      <4> QED
        BY <4>1, <4>2
    <3>11. Invitations'
      <4> SUFFICES ASSUME NEW d \in Caves, NEW q \in Persons, "INVITED" \in rows'[d][q]
                   PROVE  "INVITED" \in rows[d][q]
        BY <2>1, <2>5 DEF Invitations
      <4> HIDE DEF p
      <4>1. CASE d = c /\ q = p
        <5>1. "INVITED" \in Promoted(rows[c][p])
          BY <4>1, <3>5
        <5> QED
          BY <4>1, <5>1 DEF Promoted
      <4>2. CASE ~ (d = c /\ q = p)
        BY <4>2, <3>5
      <4> QED
        BY <4>1, <4>2
    <3> QED
      BY <2>4, <2>8, <3>6, <3>7, <3>8, <3>9, <3>10, <3>11
  <2> QED
    BY <2>1, <2>9, <2>10
<1> QED
  BY <1>1, <1>2, <1>3, <1>4, UpdateKeeps, CreateKeeps DEF SignIn

\* A cellar somebody answers for is there.
LEMMA OwnedIsThere ==
  ASSUME AccountsInv, NEW o \in Persons, NEW c \in Caves, Owns(o, c)
  PROVE  owner[c] \in Persons
<1> USE DEF AccountsInv
<1>1. CASE "OWNER" \in rows[c][o]
  BY <1>1 DEF OwnersRows
<1>2. CASE c \in MainCaves
  <2>1. PICK p \in Persons : Owned(p) # {} /\ c = Oldest(Owned(p))
    BY <1>2 DEF MainCaves
  <2>2. Owned(p) \in SUBSET Caves
    BY DEF Owned
  <2>3. c \in Owned(p)
    BY <2>1, <2>2, OldestIsOne
  <2> QED
    BY <2>3 DEF Owned
<1> QED
  BY <1>1, <1>2 DEF Owns

\* Accounts that stay there, with a status that only leaves the waiting, keep the rest.
LEMMA StatusKeeps ==
  ASSUME AccountsInv, NEW p \in Persons, NEW written \in Account_, user' = [user EXCEPT ![p] = written],
         Exists(p), written.status # "none", written.status = "PENDING" => user[p].status = "PENDING",
         p \in Configured => written.status = "ACTIVE" /\ (user[p].admin => written.admin),
         written.admin => user[p].admin \/ \E q \in Persons : user[q].admin,
         UNCHANGED <<login, locked, rewound>>
  PROVE  /\ user' \in [Persons -> Account_]
         /\ \A q \in Persons : Exists(q)' = Exists(q) /\ (user'[q].status = "PENDING" => user[q].status = "PENDING")
         /\ ReadersExist' /\ ListedFirst'
         /\ owner' = owner => ClaimsAlone'
<1> USE DEF AccountsInv
<1>1. /\ user' \in [Persons -> Account_]
      /\ user'[p] = written
      /\ \A q \in Persons \ {p} : user'[q] = user[q]
  BY DEF AccountsTyped
<1>2. \A q \in Persons : Exists(q)' = Exists(q) /\ (user'[q].status = "PENDING" => user[q].status = "PENDING")
  BY <1>1 DEF Exists
<1>3. \A l \in Logins : login[l].who \in Persons
  BY DEF AccountsTyped, LoginRecords
<1>4. ReadersExist'
  BY <1>2, <1>3 DEF ReadersExist
<1>5. ListedFirst'
  <2>1. ASSUME (\E q \in Persons : user'[q].admin) \/ (\E l \in Logins : login[l].seen.admin)
        PROVE  \E q \in Configured : Administers(q)'
    <3>1. (\E q \in Persons : user[q].admin) \/ (\E l \in Logins : login[l].seen.admin)
      BY <2>1, <1>1
    <3>2. PICK q \in Configured : Administers(q)
      BY <3>1 DEF ListedFirst
    <3>3. q \in Persons
      BY AccountsAssumption
    <3> QED
      BY <3>2, <3>3, <1>1 DEF Administers
  <2>2. \A q \in Configured : user'[q].status \in {"none", "ACTIVE"}
    BY <1>1, AccountsAssumption DEF ListedFirst
  <2> QED
    BY <2>1, <2>2 DEF ListedFirst
<1>6. ASSUME owner' = owner PROVE ClaimsAlone'
  <2>1. \A q \in Persons : Owned(q)' = Owned(q)
    BY <1>6 DEF Owned
  <2> QED
    BY <1>2, <2>1 DEF ClaimsAlone
<1> QED
  BY <1>1, <1>2, <1>4, <1>5, <1>6

\* Members that come and go.
LEMMA MembersKeep ==
  ASSUME AccountsInv,
         \/ \E a \in Adders : AddRead(a) \/ AddWrite(a)
         \/ \E c \in Caves, p \in Persons, kind \in Kinds : RemoveMember(c, p, kind)
  PROVE  AccountsInv'
<1> USE DEF AccountsInv
<1>1. ASSUME NEW a \in Adders, AddRead(a) PROVE AccountsInv'
  <2>1. PICK c \in Caves, p \in Persons :
          /\ \E o \in Persons : Owns(o, c)
          /\ adder' = [adder EXCEPT ![a] = [at |-> "read", cave |-> c, who |-> p, seen |-> user[p]]]
    BY <1>1 DEF AddRead
  <2>2. owner[c] # "absent" /\ UNCHANGED <<user, owner, rows, login, locked, rewound, crossed>>
    BY <1>1, <2>1, OwnedIsThere, AccountsAssumption DEF AddRead
  <2>3. [at |-> "read", cave |-> c, who |-> p, seen |-> user[p]] \in AdderRecords
    BY DEF AdderRecords, AccountsTyped
  <2>4. AccountsTyped'
    BY <2>1, <2>2, <2>3 DEF AccountsTyped
  <2>5. AddersMeetACave'
    BY <2>1, <2>2 DEF AddersMeetACave, AccountsTyped
  <2> QED
    BY <2>2, <2>4, <2>5 DEF OwnersRows, OneCaveEach, ClaimsAlone, ReadersExist, ListedFirst, Invitations, Owned, Exists, Administers
<1>2. ASSUME NEW a \in Adders, AddWrite(a) PROVE AccountsInv'
  <2> DEFINE c == adder[a].cave
             p == adder[a].who
             seen == adder[a].seen
             kind == IF seen = NoAccount THEN "INVITED" ELSE "VIEWER"
             active == [user[p] EXCEPT !.status = "ACTIVE"]
  <2>1. /\ adder[a].at = "read" /\ UNCHANGED <<owner, login, locked, rewound>>
        /\ adder' = [adder EXCEPT ![a] = Resting]
        /\ \/ UNCHANGED <<user, rows, crossed>>
           \/ /\ ~AlreadyThere(a)
              /\ user' = IF seen # NoAccount /\ Activated(p, seen) THEN [user EXCEPT ![p].status = "ACTIVE"] ELSE user
              /\ rows' = [rows EXCEPT ![c][p] = @ \union {kind}]
              /\ crossed' = IF seen = NoAccount /\ Exists(p) THEN crossed \union {<<c, p>>} ELSE crossed
    BY <1>2 DEF AddWrite
  <2>2. p \in Persons /\ c \in Caves /\ owner[c] # "absent"
    BY <2>1 DEF AccountsTyped, AdderRecords, AddersMeetACave
  <2>3. /\ adder' \in [Adders -> AdderRecords]
        /\ \A b \in Adders : adder'[b].at = "read" => adder'[b] = adder[b]
    BY <2>1, RestingRecords DEF AccountsTyped
  <2>4. AddersMeetACave'
    BY <2>1, <2>3 DEF AddersMeetACave
  <2>5. CASE UNCHANGED <<user, rows, crossed>>
    BY <2>1, <2>3, <2>4, <2>5
    DEF AccountsTyped, OwnersRows, OneCaveEach, ClaimsAlone, ReadersExist, ListedFirst, Invitations, Owned, Exists, Administers
  <2>6. CASE /\ ~AlreadyThere(a)
             /\ user' = IF seen # NoAccount /\ Activated(p, seen) THEN [user EXCEPT ![p].status = "ACTIVE"] ELSE user
             /\ rows' = [rows EXCEPT ![c][p] = @ \union {kind}]
             /\ crossed' = IF seen = NoAccount /\ Exists(p) THEN crossed \union {<<c, p>>} ELSE crossed
    <3>1. kind \in Kinds \ {"OWNER"} /\ (kind = "VIEWER" => "VIEWER" \notin rows[c][p] /\ "OWNER" \notin rows[c][p])
      BY <2>6 DEF AlreadyThere, Kinds
    <3>2. kind = "INVITED" /\ Exists(p) => <<c, p>> \in crossed'
      BY <2>6
    <3>3. crossed \subseteq crossed' /\ crossed' \subseteq Caves \X Persons
      BY <2>2, <2>6 DEF AccountsTyped
    <3>4. /\ user' \in [Persons -> Account_]
          /\ \A q \in Persons : Exists(q)' = Exists(q) /\ (user'[q].status = "PENDING" => user[q].status = "PENDING")
          /\ ReadersExist' /\ ListedFirst' /\ ClaimsAlone'
      <4>1. CASE Activated(p, seen) /\ seen # NoAccount
        <5>1. user' = [user EXCEPT ![p] = active] /\ user[p].status = "PENDING"
          BY <4>1, <2>6, <2>2 DEF Activated, AccountsTyped
        <5>2. user[p] \in Account_
          BY <2>2 DEF AccountsTyped
        <5>3. active \in Account_ /\ active.status = "ACTIVE" /\ active.admin = user[p].admin
          BY <5>2 DEF Account_, Statuses
        <5>4. Exists(p) /\ p \notin Configured
          BY <5>1 DEF Exists, ListedFirst
        <5> HIDE DEF active, p
        <5> QED
          BY <5>1, <5>3, <5>4, <2>1, <2>2, StatusKeeps
      <4>2. CASE ~ (Activated(p, seen) /\ seen # NoAccount)
        BY <4>2, <2>1, <2>6 DEF AccountsTyped, ReadersExist, ListedFirst, ClaimsAlone, Owned, Exists, Administers
      <4> QED
        BY <4>1, <4>2
    <3> HIDE DEF kind
    <3>5. /\ rows' \in [Caves -> [Persons -> SUBSET Kinds]]
          /\ rows'[c][p] = rows[c][p] \union {kind}
          /\ \A q \in Persons \ {p} : rows'[c][q] = rows[c][q]
          /\ \A d \in Caves \ {c} : rows'[d] = rows[d]
      <4>1. rows[c] \in [Persons -> SUBSET Kinds] /\ rows[c][p] \union {kind} \in SUBSET Kinds
        BY <2>2, <3>1 DEF AccountsTyped
      <4> HIDE DEF c, p
      <4> QED
        BY <4>1, <2>2, <2>6 DEF AccountsTyped
    <3>6. AccountsTyped'
      BY <2>1, <2>3, <3>3, <3>4, <3>5 DEF AccountsTyped
    <3> HIDE DEF c, p, seen
    <3>7. OwnersRows'
      <4> SUFFICES ASSUME NEW d \in Caves, NEW q \in Persons
                   PROVE  /\ ("OWNER" \in rows'[d][q]) = (owner[d] = q)
                          /\ ~ ("OWNER" \in rows'[d][q] /\ "VIEWER" \in rows'[d][q])
                          /\ owner[d] = "absent" => rows'[d][q] = {}
        BY <2>1 DEF OwnersRows
      <4>1. CASE d = c /\ q = p
        <5>1. "OWNER" \in rows'[d][q] <=> "OWNER" \in rows[d][q]
          BY <4>1, <3>1, <3>5
        <5>2. "VIEWER" \in rows'[d][q] => "VIEWER" \in rows[d][q] \/ kind = "VIEWER"
          BY <4>1, <3>5
        <5>3. ("OWNER" \in rows[d][q]) = (owner[d] = q) /\ ~ ("OWNER" \in rows[d][q] /\ "VIEWER" \in rows[d][q])
          BY DEF OwnersRows
        <5> QED
          BY <4>1, <5>1, <5>2, <5>3, <2>2, <3>1
      <4>2. CASE ~ (d = c /\ q = p)
        <5>1. rows'[d][q] = rows[d][q]
          BY <4>2, <3>5
        <5> QED
          BY <5>1 DEF OwnersRows
      <4> QED
        BY <4>1, <4>2
    <3>8. OneCaveEach'
      BY <2>1, <3>4 DEF OneCaveEach, Owned
    <3>9. Invitations'
      <4> SUFFICES ASSUME NEW d \in Caves, NEW q \in Persons, Exists(q), "INVITED" \in rows'[d][q]
                   PROVE  <<d, q>> \in crossed'
        BY <3>4 DEF Invitations
      <4>1. CASE "INVITED" \in rows[d][q]
        BY <4>1, <3>3 DEF Invitations
      <4>2. CASE "INVITED" \notin rows[d][q]
        <5>1. d = c /\ q = p
          BY <4>2, <3>5
        <5>2. kind = "INVITED"
          BY <5>1, <4>2, <3>5
        <5> QED
          BY <5>1, <5>2, <3>2
      <4> QED
        BY <4>1, <4>2
    <3> QED
      BY <2>4, <3>4, <3>6, <3>7, <3>8, <3>9
  <2> QED
    BY <2>1, <2>5, <2>6
<1>3. ASSUME NEW c \in Caves, NEW p \in Persons, NEW kind \in Kinds, RemoveMember(c, p, kind) PROVE AccountsInv'
  <2>1. UNCHANGED <<user, owner, login, adder, locked, rewound, crossed>> /\ kind # "OWNER"
        /\ rows' = [rows EXCEPT ![c][p] = @ \ {kind}]
    BY <1>3 DEF RemoveMember, RemovableKind
  <2>2. /\ rows' \in [Caves -> [Persons -> SUBSET Kinds]]
        /\ \A d \in Caves, q \in Persons : rows'[d][q] \subseteq rows[d][q] /\ ("OWNER" \in rows[d][q] => "OWNER" \in rows'[d][q])
    <3>1. rows[c] \in [Persons -> SUBSET Kinds] /\ rows[c][p] \ {kind} \in SUBSET Kinds
      BY DEF AccountsTyped
    <3> QED
      BY <3>1, <2>1 DEF AccountsTyped
  <2>3. OwnersRows'
    BY <2>1, <2>2 DEF OwnersRows
  <2>4. Invitations'
    BY <2>1, <2>2 DEF Invitations, Exists
  <2> QED
    BY <2>1, <2>2, <2>3, <2>4 DEF AccountsTyped, AddersMeetACave, OneCaveEach, ClaimsAlone, ReadersExist, ListedFirst, Owned, Exists, Administers
<1> QED
  BY <1>1, <1>2, <1>3

\* A cellar made for an account that has none, or was set back.
LEMMA OwnedCaveKeeps ==
  ASSUME AccountsInv, NEW p \in Persons, CreateOwnedCave(p), Exists(p), p \notin locked,
         p \in rewound \/ Owned(p) = {},
         UNCHANGED <<login, adder, locked, rewound, crossed>>,
         user' \in [Persons -> Account_],
         \A q \in Persons : Exists(q)' = Exists(q) /\ (user'[q].status = "PENDING" => user[q].status = "PENDING"),
         user'[p].status = "PENDING" => p \in rewound,
         ReadersExist', ListedFirst'
  PROVE  AccountsInv'
<1> USE DEF AccountsInv
<1> DEFINE free == {d \in Caves : owner[d] = "absent"}
           c == Oldest(free)
<1>1. /\ c \in Caves /\ owner[c] = "absent"
      /\ owner' = [owner EXCEPT ![c] = p] /\ rows' = [rows EXCEPT ![c][p] = @ \union {"OWNER"}]
  <2>1. free # {} /\ owner' = [owner EXCEPT ![c] = p] /\ rows' = [rows EXCEPT ![c][p] = @ \union {"OWNER"}]
    BY DEF CreateOwnedCave
  <2>2. c \in free
    BY <2>1, OldestIsOne
  <2> QED
    BY <2>1, <2>2
<1> HIDE DEF c
<1>2. /\ owner' \in [Caves -> Persons \union {Nobody, "absent"}] /\ owner'[c] = p
      /\ \A d \in Caves \ {c} : owner'[d] = owner[d]
  BY <1>1 DEF AccountsTyped
<1>3. /\ rows' \in [Caves -> [Persons -> SUBSET Kinds]]
      /\ rows'[c][p] = rows[c][p] \union {"OWNER"}
      /\ \A q \in Persons \ {p} : rows'[c][q] = rows[c][q]
      /\ \A d \in Caves \ {c} : rows'[d] = rows[d]
  <2>1. rows[c] \in [Persons -> SUBSET Kinds] /\ rows[c][p] \union {"OWNER"} \in SUBSET Kinds
    BY <1>1 DEF AccountsTyped, Kinds
  <2> QED
    BY <2>1, <1>1 DEF AccountsTyped
<1>4. AccountsTyped'
  BY <1>2, <1>3 DEF AccountsTyped
<1>5. \A q \in Persons : rows[c][q] = {}
  BY <1>1 DEF OwnersRows
<1>6. OwnersRows'
  <2> SUFFICES ASSUME NEW d \in Caves, NEW q \in Persons
               PROVE  /\ ("OWNER" \in rows'[d][q]) = (owner'[d] = q)
                      /\ ~ ("OWNER" \in rows'[d][q] /\ "VIEWER" \in rows'[d][q])
                      /\ owner'[d] = "absent" => rows'[d][q] = {}
    BY DEF OwnersRows
  <2>1. CASE d # c
    BY <2>1, <1>2, <1>3 DEF OwnersRows
  <2>2. CASE d = c /\ q # p
    BY <2>2, <1>2, <1>3, <1>5, AccountsAssumption
  <2>3. CASE d = c /\ q = p
    BY <2>3, <1>2, <1>3, <1>5, AccountsAssumption
  <2> QED
    BY <2>1, <2>2, <2>3
<1>7. AddersMeetACave'
  BY <1>1, <1>2, AccountsAssumption DEF AddersMeetACave
<1>8. \A q \in Persons : q # p => Owned(q)' = Owned(q)
  <2> SUFFICES ASSUME NEW q \in Persons, q # p PROVE Owned(q)' = Owned(q)
    OBVIOUS
  <2>1. \A d \in Caves : owner'[d] = q <=> owner[d] = q
    BY <1>1, <1>2, AccountsAssumption
  <2> QED
    BY <2>1 DEF Owned
<1>9. Owned(p)' = Owned(p) \union {c}
  <2>1. \A d \in Caves : owner'[d] = p <=> owner[d] = p \/ d = c
    BY <1>1, <1>2
  <2> QED
    BY <1>1, <2>1 DEF Owned
<1>10. OneCaveEach'
  <2> SUFFICES ASSUME NEW q \in Persons
               PROVE  /\ ~Exists(q) => Owned(q)' = {}
                      /\ q \notin rewound => /\ user'[q].status = "PENDING" => Owned(q)' = {}
                                             /\ \A d, e \in Owned(q)' : d = e
    BY DEF OneCaveEach
  <2>1. CASE q = p
    BY <2>1, <1>9
  <2>2. CASE q # p
    BY <2>2, <1>8 DEF OneCaveEach
  <2> QED
    BY <2>1, <2>2
<1>11. ClaimsAlone'
  <2>1. \A l \in Logins, q \in Persons : login[l].who = q /\ login[l].at = "claiming" => q # p
    BY DEF ClaimsAlone
  <2>2. \A l \in Logins, q \in Persons : login[l].who = q /\ login[l].at = "claiming" => q \in locked /\ Owned(q)' = {}
    BY <2>1, <1>8 DEF ClaimsAlone
  <2> QED
    BY <2>2 DEF ClaimsAlone
<1>12. Invitations'
  <2> SUFFICES ASSUME NEW d \in Caves, NEW q \in Persons, Exists(q), "INVITED" \in rows'[d][q]
               PROVE  <<d, q>> \in crossed
    BY DEF Invitations
  <2>1. "INVITED" \in rows[d][q]
    BY <1>3
  <2> QED
    BY <2>1 DEF Invitations
<1> QED
  BY <1>4, <1>6, <1>7, <1>10, <1>11, <1>12

\* The decisions of the administrators.
LEMMA AdministrationKeeps ==
  ASSUME AccountsInv, NEW p \in Persons, Administration(p)
  PROVE  AccountsInv'
<1> USE DEF AccountsInv
<1>0. user[p] \in Account_
  BY DEF AccountsTyped
<1>1. ASSUME NEW written \in Account_, user' = [user EXCEPT ![p] = written],
             Exists(p), written.status # "none", written.status = "PENDING" => user[p].status = "PENDING",
             p \in Configured => written.status = "ACTIVE" /\ (user[p].admin => written.admin),
             written.admin => user[p].admin \/ \E q \in Persons : user[q].admin,
             UNCHANGED <<owner, rows, login, adder, locked, rewound, crossed>>
      PROVE  AccountsInv'
  <2>1. /\ user' \in [Persons -> Account_]
        /\ \A q \in Persons : Exists(q)' = Exists(q) /\ (user'[q].status = "PENDING" => user[q].status = "PENDING")
        /\ ReadersExist' /\ ListedFirst' /\ ClaimsAlone'
    BY <1>1, StatusKeeps
  <2>2. OwnersRows' /\ AddersMeetACave' /\ Invitations'
    BY <1>1, <2>1 DEF OwnersRows, AddersMeetACave, Invitations
  <2>3. OneCaveEach'
    BY <1>1, <2>1 DEF OneCaveEach, Owned
  <2> QED
    BY <1>1, <2>1, <2>2, <2>3 DEF AccountsTyped
<1>2. ASSUME NEW status \in {"ACTIVE", "BLOCKED"}
      PROVE  /\ [user[p] EXCEPT !.status = status] \in Account_
             /\ [user[p] EXCEPT !.status = status].status = status
             /\ [user[p] EXCEPT !.status = status].admin = user[p].admin
  BY <1>0 DEF Account_, Statuses
<1>3. CASE RefuseRegistration(p)
  <2> DEFINE written == [user[p] EXCEPT !.status = "BLOCKED"]
  <2>1. user' = [user EXCEPT ![p] = written] /\ user[p].status = "PENDING" /\ UNCHANGED <<owner, rows, login, adder, locked, rewound, crossed>>
    BY <1>3 DEF RefuseRegistration, AccountsTyped
  <2>2. written \in Account_ /\ written.status = "BLOCKED" /\ written.admin = user[p].admin
    BY <1>2
  <2>3. Exists(p) /\ p \notin Configured
    BY <2>1 DEF Exists, ListedFirst
  <2> HIDE DEF written
  <2> QED
    BY <1>1, <2>1, <2>2, <2>3
<1>4. CASE ValidateRegistration(p)
  <2> DEFINE written == [user[p] EXCEPT !.status = "ACTIVE"]
  <2>1. user' = [user EXCEPT ![p] = written] /\ user[p].status = "PENDING" /\ p \notin locked /\ CreateOwnedCave(p)
        /\ UNCHANGED <<login, adder, locked, rewound, crossed>>
    BY <1>4 DEF ValidateRegistration, AccountsTyped
  <2>2. written \in Account_ /\ written.status = "ACTIVE" /\ written.admin = user[p].admin
    BY <1>2
  <2>3. Exists(p) /\ p \notin Configured /\ (p \in rewound \/ Owned(p) = {})
    BY <2>1 DEF Exists, ListedFirst, OneCaveEach
  <2> HIDE DEF written
  <2>4. /\ user' \in [Persons -> Account_]
        /\ \A q \in Persons : Exists(q)' = Exists(q) /\ (user'[q].status = "PENDING" => user[q].status = "PENDING")
        /\ ReadersExist' /\ ListedFirst'
    BY <2>1, <2>2, <2>3, StatusKeeps
  <2>5. user'[p].status # "PENDING"
    BY <2>1, <2>2 DEF AccountsTyped
  <2> QED
    BY <2>1, <2>3, <2>4, <2>5, OwnedCaveKeeps
<1>5. CASE CreateCaveFor(p)
  <2>1. p \notin locked /\ user[p].status = "ACTIVE" /\ Owned(p) = {} /\ CreateOwnedCave(p)
        /\ UNCHANGED <<user, login, adder, locked, rewound, crossed>>
    BY <1>5 DEF CreateCaveFor, LacksCave
  <2>2. \A q \in Persons : Exists(q)' = Exists(q)
    BY <2>1 DEF Exists
  <2>3. ReadersExist' /\ ListedFirst'
    BY <2>1 DEF ReadersExist, ListedFirst, Exists, Administers
  <2> QED
    BY <2>1, <2>2, <2>3, OwnedCaveKeeps DEF Exists, AccountsTyped
<1>6. CASE UpdateUser(p)
  <2>1. PICK q \in Persons : Administers(q)
    BY <1>6 DEF UpdateUser
  <2>2. PICK status \in {user[p].status, "ACTIVE", "BLOCKED"}, admin \in BOOLEAN :
          Allowed(p, status, admin) /\ user' = [user EXCEPT ![p] = [status |-> status, admin |-> admin]]
    BY <1>6 DEF UpdateUser, Account
  <2> DEFINE written == [status |-> status, admin |-> admin]
  <2>3. Exists(p) /\ UNCHANGED <<owner, rows, login, adder, locked, rewound, crossed>>
    BY <1>6 DEF UpdateUser
  <2>4. written \in Account_ /\ written.status = status /\ written.admin = admin
    BY <1>0 DEF Account_, Statuses
  <2>5. p \in Configured => status = "ACTIVE" /\ (user[p].admin => admin)
    BY <2>2, <2>3 DEF Allowed, ListedFirst, Exists
  <2>6. status # "none" /\ (status = "PENDING" => user[p].status = "PENDING")
    BY <2>3 DEF Exists
  <2>7. user' = [user EXCEPT ![p] = written]
    BY <2>2
  <2> HIDE DEF written
  <2> QED
    BY <1>1, <2>1, <2>3, <2>4, <2>5, <2>6, <2>7 DEF Administers
<1> QED
  BY <1>3, <1>4, <1>5, <1>6 DEF Administration

\* So every step keeps it.
LEMMA AccountsStepInv == AccountsInv /\ [AccountsGoOn \/ AccountsRequest]_accountVars => AccountsInv'
<1> SUFFICES ASSUME AccountsInv, [AccountsGoOn \/ AccountsRequest]_accountVars PROVE AccountsInv'
  OBVIOUS
<1>1. CASE UNCHANGED accountVars
  BY <1>1 DEF accountVars, AccountsInv, AccountsTyped, OwnersRows, AddersMeetACave, OneCaveEach, ClaimsAlone, ReadersExist, ListedFirst,
              Invitations, Owned, Exists, Administers
<1>2. CASE AccountsGoOn
  BY <1>2, SignInKeeps, MembersKeep DEF AccountsGoOn
<1>3. CASE AccountsRequest
  BY <1>3, MembersKeep, AdministrationKeeps DEF AccountsRequest
<1> QED
  BY <1>1, <1>2, <1>3

\* What sign-ins, invitations, transfers of a cellar and the administration of accounts
\* keep, whatever crosses whom (auth.service.ts, caves.service.ts, admin.service.ts).
THEOREM AccountsInvariance == AccountsSpec => []AccountsInv
  BY AccountsInitInv, AccountsStepInv, PTL DEF AccountsSpec

\* The owner of a cellar has its OWNER row and nobody else does, an account has one cellar
\* unless a sign-in rewound it, and an existing account is not left among the invitations.
THEOREM OwnersKeepTheirRows == AccountsSpec => []RowsMatchOwners
<1>1. AccountsInv => RowsMatchOwners
  <2> SUFFICES ASSUME AccountsInv PROVE RowsMatchOwners
    OBVIOUS
  <2>1. ASSUME NEW p \in Persons, p \notin rewound PROVE ~ (Cardinality(Owned(p)) > 1)
    <3>1. \A c, d \in Owned(p) : c = d
      BY <2>1 DEF AccountsInv, OneCaveEach
    <3>2. CASE Owned(p) = {}
      <4>1. Cardinality(Owned(p)) = 0
        BY <3>2, FS_EmptySet
      <4> QED
        BY <4>1
    <3>3. CASE Owned(p) # {}
      <4>1. PICK c \in Owned(p) : TRUE
        BY <3>3
      <4>2. Owned(p) = {c}
        BY <3>1, <4>1
      <4>3. Cardinality({c}) = 1
        BY FS_Singleton
      <4>4. Cardinality(Owned(p)) = 1
        BY <4>2, <4>3
      <4> QED
        BY <4>4
    <3> QED
      BY <3>2, <3>3
  <2> QED
    BY <2>1 DEF AccountsInv, OwnersRows, Invitations, RowsMatchOwners
<1> QED
  BY <1>1, AccountsInvariance, PTL

\* A cellar that has an owner keeps it, and once somebody administers no sequence of
\* sign-ins and decisions leaves nobody who does.
THEOREM SomebodyAdministers == AccountsSpec => NobodyIsLockedOut
<1> DEFINE Stays ==
      /\ \A c \in Caves : owner[c] \in Persons => owner'[c] = owner[c]
      /\ (\E p \in Persons : Administers(p)) => (\E p \in Persons : Administers(p))'
<1>1. AccountsInv /\ AccountsInv' /\ [AccountsGoOn \/ AccountsRequest]_accountVars => [Stays]_accountVars
  <2> SUFFICES ASSUME AccountsInv, AccountsInv', AccountsGoOn \/ AccountsRequest PROVE Stays
    OBVIOUS
  <2> USE DEF AccountsInv
  <2>1. \/ owner' = owner
        \/ \E p \in Persons : CreateOwnedCave(p)
        \/ \E l \in Logins : ClaimTake(l)
    BY DEF AccountsGoOn, AccountsRequest, SignIn, Administration, LoginRead, LoginUpdate, CountInvitations, CreateGoogleUser,
           ClaimLock, AddRead, AddWrite, RemoveMember, ValidateRegistration, RefuseRegistration, CreateCaveFor, UpdateUser
  <2>2. ASSUME NEW p \in Persons, CreateOwnedCave(p), NEW c \in Caves, owner[c] \in Persons
        PROVE  owner'[c] = owner[c]
    <3> DEFINE free == {d \in Caves : owner[d] = "absent"}
    <3>1. free # {} /\ owner' = [owner EXCEPT ![Oldest(free)] = p]
      BY <2>2 DEF CreateOwnedCave
    <3>2. Oldest(free) \in free
      BY <3>1, OldestIsOne
    <3>3. Oldest(free) # c
      BY <2>2, <3>2, AccountsAssumption
    <3> HIDE DEF free
    <3> QED
      BY <3>1, <3>3 DEF AccountsTyped
  <2>3. ASSUME NEW l \in Logins, ClaimTake(l), NEW c \in Caves, owner[c] \in Persons
        PROVE  owner'[c] = owner[c]
    <3> DEFINE takeable == {d \in Caves : owner[d] = Nobody}
    <3>1. owner' = owner \/ (takeable # {} /\ owner' = [owner EXCEPT ![Oldest(takeable)] = login[l].who])
      BY <2>3 DEF ClaimTake, Takeable
    <3>2. CASE takeable # {} /\ owner' = [owner EXCEPT ![Oldest(takeable)] = login[l].who]
      <4>1. Oldest(takeable) \in takeable
        BY <3>2, OldestIsOne
      <4>2. Oldest(takeable) # c
        BY <2>3, <4>1, AccountsAssumption
      <4> HIDE DEF takeable
      <4> QED
        BY <3>2, <4>2 DEF AccountsTyped
    <3> QED
      BY <3>1, <3>2
  <2>4. ASSUME NEW p \in Persons, Administers(p) PROVE (\E q \in Persons : Administers(q))'
    <3>1. PICK q \in Configured : Administers(q)
      BY <2>4 DEF ListedFirst, Administers
    <3>2. q \in Persons /\ user[q].status = "ACTIVE" /\ user[q].admin /\ user[q] \in Account_
      BY <3>1, AccountsAssumption DEF Administers, AccountsTyped
    <3>3. ASSUME user'[q] # user[q] PROVE Administers(q)'
      <4>1. ASSUME NEW l \in Logins, LoginUpdate(l) PROVE Administers(q)'
        <5> DEFINE admin == ResolveIsAdmin(login[l].who, login[l].seen.admin)
                   status == ResolveStatus(admin, login[l].seen.status)
        <5>1. user' = [user EXCEPT ![login[l].who] = [status |-> status, admin |-> admin]] /\ login[l].at = "read"
          BY <4>1 DEF LoginUpdate, Account
        <5>2. login[l].who = q
          BY <3>3, <5>1 DEF AccountsTyped
        <5>3. login[l].seen.status = "ACTIVE"
          BY <3>1, <5>1, <5>2 DEF ReadersExist
        <5>4. admin \in BOOLEAN /\ admin
          BY <3>1, <5>2 DEF ResolveIsAdmin
        <5> HIDE DEF admin
        <5>5. status = "ACTIVE"
          BY <5>3 DEF ResolveStatus
        <5> HIDE DEF status
        <5>6. user'[q] = [status |-> status, admin |-> admin]
          BY <3>2, <5>1, <5>2 DEF AccountsTyped
        <5> QED
          BY <5>4, <5>5, <5>6 DEF Administers
      <4>2. ASSUME NEW l \in Logins, CreateGoogleUser(l) PROVE FALSE
        <5>1. ~Exists(login[l].who) /\ \E w : user' = [user EXCEPT ![login[l].who] = w]
          BY <3>3, <4>2 DEF CreateGoogleUser
        <5> QED
          BY <3>2, <3>3, <5>1 DEF Exists, AccountsTyped
      <4>3. ASSUME NEW a \in Adders, AddWrite(a) PROVE FALSE
        <5>1. user[adder[a].who].status = "PENDING" /\ user' = [user EXCEPT ![adder[a].who].status = "ACTIVE"]
          BY <3>3, <4>3 DEF AddWrite, Activated
        <5> QED
          BY <3>2, <3>3, <5>1 DEF AccountsTyped
      <4>4. ASSUME NEW someone \in Persons, ValidateRegistration(someone) \/ RefuseRegistration(someone) PROVE FALSE
        <5>1. user[someone].status = "PENDING" /\ \E status : user' = [user EXCEPT ![someone].status = status]
          BY <4>4 DEF ValidateRegistration, RefuseRegistration
        <5> QED
          BY <3>2, <3>3, <5>1 DEF AccountsTyped
      <4>5. ASSUME NEW someone \in Persons, UpdateUser(someone) PROVE Administers(q)'
        <5>1. PICK status \in {user[someone].status, "ACTIVE", "BLOCKED"}, admin \in BOOLEAN :
                Allowed(someone, status, admin) /\ user' = [user EXCEPT ![someone] = [status |-> status, admin |-> admin]]
          BY <4>5 DEF UpdateUser, Account
        <5>2. someone = q
          BY <3>3, <5>1 DEF AccountsTyped
        <5>3. status = "ACTIVE" /\ admin
          BY <3>1, <3>2, <5>1, <5>2 DEF Allowed
        <5>4. user'[q] = [status |-> status, admin |-> admin]
          BY <3>2, <5>1, <5>2 DEF AccountsTyped
        <5> QED
          BY <5>3, <5>4 DEF Administers
      <4>6. \/ \E l \in Logins : LoginUpdate(l) \/ CreateGoogleUser(l)
            \/ \E a \in Adders : AddWrite(a)
            \/ \E someone \in Persons : ValidateRegistration(someone) \/ RefuseRegistration(someone) \/ UpdateUser(someone)
        BY <3>3 DEF AccountsGoOn, AccountsRequest, SignIn, Administration, LoginRead, CountInvitations, ClaimLock, ClaimTake,
                    AddRead, RemoveMember, CreateCaveFor
      <4> QED
        BY <4>1, <4>2, <4>3, <4>4, <4>5, <4>6
    <3> QED
      BY <3>1, <3>2, <3>3 DEF Administers
  <2> QED
    BY <2>1, <2>2, <2>3, <2>4
<1> QED
  BY <1>1, AccountsInvariance, PTL DEF AccountsSpec, NobodyIsLockedOut

-----------------------------------------------------------------------------
(* Rows two requests create at once *)

SharedRowsSpec == SharedRowsInit /\ [][SharedRowsStep]_sharedVars

Card(c, d) == [cellar |-> c, key |-> computeMatchKey(d), appellation |-> AppellationOf(d), label |-> LabelOf(d)]
KnownCards == {Card(c, d) : c \in Cellars, d \in Drafts}

EntrantRecords == [cellar : Cellars, draft : Drafts, at : {"find", "create", "created", "again", "found", "error"}, card : SUBSET KnownCards]
SetterRecords  == [scope : Scopes, span : Spans, at : {"find", "again", "create", "update", "set", "error"}, row : Nat]

SharedRowsTypeOK ==
  /\ wines \subseteq KnownCards
  /\ entrant \in [Entrants -> EntrantRecords]
  /\ overrides \subseteq [id : Nat, scope : Scopes, span : Spans] /\ IsFiniteSet(overrides)
  /\ setter \in [Setters -> SetterRecords]
  /\ removals \in Nat

\* A cellar has one card of each key; an entry has that of its bottle, or none yet.
CardsUnique ==
  /\ \A v, w \in wines : v.cellar = w.cellar /\ v.key = w.key => v = w
  /\ \A e \in Entrants :
       /\ entrant[e].at # "error"
       /\ entrant[e].at \in {"find", "create", "again"} <=> entrant[e].card = NoCard
       /\ entrant[e].card # NoCard => entrant[e].card = Cards(e)
       /\ entrant[e].at = "again" => Cards(e) # {}
  /\ \A e, f \in Entrants :
       entrant[e].at = "created" /\ entrant[f].at = "created" /\ Cards(e) = Cards(f) => e = f

\* A scope has one window; while none was removed the one a request has found is there.
WindowsUnique ==
  /\ \A o, p \in overrides : o.scope = p.scope => o = p
  /\ removals = 0 => \A s \in Setters :
       /\ setter[s].at # "error"
       /\ setter[s].at = "again" => WindowRow(s) # {}
       /\ setter[s].at = "update" => \E o \in overrides : o.id = setter[s].row

SharedRowsInv == SharedRowsTypeOK /\ CardsUnique /\ WindowsUnique

\* A text keeps its length when it is normalised.
LEMMA NormalisedLength ==
  ASSUME NEW text \in Seq(DOMAIN Plain)
  PROVE  normalizeLabel(text) = << >> <=> text = << >>
<1>1. DOMAIN normalizeLabel(text) = DOMAIN text
  BY DEF normalizeLabel
<1>2. text = << >> => normalizeLabel(text) = << >>
  BY DEF normalizeLabel
<1>3. normalizeLabel(text) = << >> => DOMAIN text = {}
  BY <1>1
<1>4. DOMAIN text = {} => text = << >>
  OBVIOUS
<1> QED
  BY <1>2, <1>3, <1>4

\* What a bottle's appellation is told by the label its key holds.
LEMMA AppellationTold ==
  ASSUME NEW d \in Drafts
  PROVE  AppellationOf(d) = LET text == normalizeLabel(LabelOf(d)) IN
                            IF text = << >> \/ Kind(Nearest[text]) = "none" THEN << >> ELSE Nearest[text].name
<1> DEFINE match == Resolve(d.label)
           text  == normalizeLabel(LabelOf(d))
<1>1. CASE Kind(match) = "exact"
  <2>1. LabelOf(d) = match.name /\ AppellationOf(d) = match.name
    BY <1>1 DEF LabelOf, AppellationOf
  <2>2. match.name \in Seq(DOMAIN Plain) /\ match.name # << >>
        /\ Nearest[normalizeLabel(match.name)].name = match.name
        /\ Kind(Nearest[normalizeLabel(match.name)]) # "none"
    BY <1>1, SharedRowsAssumption
  <2>3. normalizeLabel(match.name) # << >>
    BY <2>2, NormalisedLength
  <2> HIDE DEF match
  <2> QED
    BY <2>1, <2>2, <2>3
<1>2. CASE Kind(match) # "exact"
  <2>1. LabelOf(d) = d.label /\ AppellationOf(d) = IF Kind(match) = "none" THEN << >> ELSE match.name
    BY <1>2 DEF LabelOf, AppellationOf
  <2>2. d.label \in Seq(DOMAIN Plain)
    BY SharedRowsAssumption
  <2>3. CASE d.label = << >>
    <3>1. Kind(match) = "none"
      BY <2>3 DEF Resolve, NoneAlike, Kind
    <3>2. normalizeLabel(d.label) = << >>
      BY <2>2, <2>3, NormalisedLength
    <3> QED
      BY <2>1, <3>1, <3>2
  <2>4. CASE d.label # << >>
    <3>1. match = Nearest[normalizeLabel(d.label)]
      BY <2>4 DEF Resolve
    <3>2. normalizeLabel(d.label) # << >>
      BY <2>2, <2>4, NormalisedLength
    <3> QED
      BY <2>1, <3>1, <3>2
  <2> QED
    BY <2>3, <2>4
<1> QED
  BY <1>1, <1>2

\* Bottles of one key have one appellation.
LEMMA KeysTellAppellations ==
  ASSUME NEW d \in Drafts, NEW b \in Drafts, computeMatchKey(d) = computeMatchKey(b)
  PROVE  AppellationOf(d) = AppellationOf(b)
<1>1. normalizeLabel(LabelOf(d)) = normalizeLabel(LabelOf(b))
  BY DEF computeMatchKey
<1> QED
  BY <1>1, AppellationTold

\* What an entry becomes leaves the others as they are.
LEMMA EntrantMoves ==
  ASSUME SharedRowsTypeOK, NEW e \in Entrants,
         NEW at \in {"find", "create", "created", "again", "found", "error"}, NEW card \in SUBSET KnownCards,
         \/ entrant' = [entrant EXCEPT ![e].at = at, ![e].card = card]
         \/ entrant' = [entrant EXCEPT ![e].at = at] /\ card = entrant[e].card
  PROVE  /\ entrant' \in [Entrants -> EntrantRecords]
         /\ entrant'[e].at = at /\ entrant'[e].card = card
         /\ \A f \in Entrants : entrant'[f].cellar = entrant[f].cellar /\ entrant'[f].draft = entrant[f].draft
         /\ \A f \in Entrants \ {e} : entrant'[f] = entrant[f]
<1> DEFINE one == [entrant[e] EXCEPT !.at = at]
           new == [one EXCEPT !.card = card]
<1>1. entrant[e] \in EntrantRecords
  BY DEF SharedRowsTypeOK
<1>2. one \in EntrantRecords /\ one.at = at /\ one.cellar = entrant[e].cellar /\ one.draft = entrant[e].draft
  BY <1>1 DEF EntrantRecords
<1>5. CASE entrant' = [entrant EXCEPT ![e].at = at] /\ card = entrant[e].card
  <2>1. entrant' = [entrant EXCEPT ![e] = one]
    BY <1>5
  <2>2. one.card = card
    BY <1>1, <1>5 DEF EntrantRecords
  <2> HIDE DEF one
  <2> QED
    BY <2>1, <2>2, <1>2 DEF SharedRowsTypeOK
<1>6. CASE entrant' = [entrant EXCEPT ![e].at = at, ![e].card = card]
  <2>3. entrant' = [entrant EXCEPT ![e] = new]
    BY <1>6 DEF SharedRowsTypeOK
  <2> HIDE DEF one
  <2>4. new \in EntrantRecords /\ new.at = at /\ new.card = card /\ new.cellar = entrant[e].cellar /\ new.draft = entrant[e].draft
    BY <1>2 DEF EntrantRecords
  <2> HIDE DEF new
  <2> QED
    BY <2>3, <2>4 DEF SharedRowsTypeOK
<1> QED
  BY <1>5, <1>6

\* At the start there are neither cards nor windows.
LEMMA SharedRowsInitInv == SharedRowsInit => SharedRowsInv
<1> SUFFICES ASSUME SharedRowsInit PROVE SharedRowsInv
  OBVIOUS
<1>1. entrant \in [Entrants -> EntrantRecords] /\ \A e \in Entrants : entrant[e].at = "find" /\ entrant[e].card = NoCard
  BY DEF SharedRowsInit, EntrantRecords, NoCard
<1>2. setter \in [Setters -> SetterRecords] /\ \A s \in Setters : setter[s].at = "find"
  BY DEF SharedRowsInit, SetterRecords
<1>3. SharedRowsTypeOK
  BY <1>1, <1>2, FS_EmptySet DEF SharedRowsInit, SharedRowsTypeOK
<1>4. CardsUnique
  BY <1>1 DEF SharedRowsInit, CardsUnique
<1>5. WindowsUnique
  BY <1>2 DEF SharedRowsInit, WindowsUnique
<1> QED
  BY <1>3, <1>4, <1>5 DEF SharedRowsInv

\* The card an entry makes is of its key.
LEMMA CardsKnown ==
  ASSUME SharedRowsTypeOK, NEW e \in Entrants
  PROVE  /\ Card(entrant[e].cellar, entrant[e].draft) \in KnownCards
         /\ Cards(e) \in SUBSET KnownCards /\ Cards(e) \subseteq wines
         /\ entrant[e].cellar \in Cellars /\ entrant[e].draft \in Drafts
  BY DEF SharedRowsTypeOK, EntrantRecords, KnownCards, Cards

\* Entries keep the cards as they are.
LEMMA EntriesKeep ==
  ASSUME SharedRowsInv, NEW e \in Entrants, MatchFind(e) \/ MatchCreate(e) \/ MatchAgain(e)
  PROVE  SharedRowsInv'
<1> USE DEF SharedRowsInv
<1> DEFINE card == Card(entrant[e].cellar, entrant[e].draft)
<1>1. /\ card \in KnownCards /\ Cards(e) \in SUBSET KnownCards /\ {} \in SUBSET KnownCards
      /\ card.cellar = entrant[e].cellar /\ card.key = computeMatchKey(entrant[e].draft)
  BY CardsKnown DEF Card
<1>2. UNCHANGED <<overrides, setter, removals>>
  BY DEF MatchFind, MatchCreate, MatchAgain
<1>3. WindowsUnique'
  BY <1>2 DEF WindowsUnique, WindowRow
<1>4. ASSUME wines' = wines,
             NEW at \in {"find", "create", "created", "again", "found", "error"}, NEW new \in SUBSET KnownCards,
             \/ entrant' = [entrant EXCEPT ![e].at = at, ![e].card = new]
             \/ entrant' = [entrant EXCEPT ![e].at = at] /\ new = entrant[e].card,
             \/ at = "create" /\ new = {}
             \/ at = "again" /\ new = {} /\ Cards(e) # {}
             \/ at = "found" /\ new = Cards(e) /\ Cards(e) # {}
      PROVE  SharedRowsInv'
  <2>1. /\ entrant' \in [Entrants -> EntrantRecords]
        /\ entrant'[e].at = at /\ entrant'[e].card = new
        /\ \A f \in Entrants : entrant'[f].cellar = entrant[f].cellar /\ entrant'[f].draft = entrant[f].draft
        /\ \A f \in Entrants \ {e} : entrant'[f] = entrant[f]
    BY <1>4, EntrantMoves
  <2>2. \A f \in Entrants : Cards(f)' = Cards(f)
    BY <2>1, <1>4 DEF Cards
  <2>3. SharedRowsTypeOK'
    BY <2>1, <1>2, <1>4 DEF SharedRowsTypeOK
  <2>4. \A f \in Entrants : entrant'[f].at = "created" => f # e /\ entrant[f].at = "created"
    BY <2>1, <1>4
  <2>5. CardsUnique'
    BY <2>1, <2>2, <2>4, <1>4 DEF CardsUnique, NoCard
  <2> QED
    BY <2>3, <2>5, <1>3
<1>5. CASE MatchFind(e)
  <2>1. entrant[e].card = {} /\ wines' = wines
    BY <1>5 DEF MatchFind, CardsUnique, NoCard
  <2>2. CASE Cards(e) = {}
    <3>1. entrant' = [entrant EXCEPT ![e].at = "create"]
      BY <1>5, <2>2 DEF MatchFind
    <3> QED
      BY <3>1, <2>1, <1>1, <1>4
  <2>3. CASE Cards(e) # {}
    <3>1. entrant' = [entrant EXCEPT ![e].at = "found", ![e].card = Cards(e)]
      BY <1>5, <2>3 DEF MatchFind
    <3> QED
      BY <3>1, <2>1, <2>3, <1>1, <1>4
  <2> QED
    BY <2>2, <2>3
<1>6. CASE MatchAgain(e)
  <2>1. Cards(e) # {} /\ wines' = wines /\ entrant' = [entrant EXCEPT ![e].at = "found", ![e].card = Cards(e)]
    BY <1>6 DEF MatchAgain, CardsUnique
  <2> QED
    BY <2>1, <1>1, <1>4
<1>7. CASE MatchCreate(e)
  <2>1. entrant[e].at = "create" /\ entrant[e].card = {}
    BY <1>7 DEF MatchCreate, CardsUnique, NoCard
  <2>2. CASE Cards(e) # {}
    <3>1. wines' = wines /\ entrant' = [entrant EXCEPT ![e].at = "again"]
      BY <1>7, <2>2 DEF MatchCreate, Beaten
    <3> QED
      BY <3>1, <2>1, <2>2, <1>1, <1>4
  <2>3. CASE Cards(e) = {}
    <3>1. wines' = wines \union {card} /\ entrant' = [entrant EXCEPT ![e].at = "created", ![e].card = {card}]
      BY <1>7, <2>3 DEF MatchCreate, Card
    <3>2. {card} \in SUBSET KnownCards
      BY <1>1
    <3> HIDE DEF card
    <3>3. /\ entrant' \in [Entrants -> EntrantRecords]
          /\ entrant'[e].at = "created" /\ entrant'[e].card = {card}
          /\ \A f \in Entrants : entrant'[f].cellar = entrant[f].cellar /\ entrant'[f].draft = entrant[f].draft
          /\ \A f \in Entrants \ {e} : entrant'[f] = entrant[f]
      BY <3>1, <3>2, EntrantMoves
    <3>4. SharedRowsTypeOK'
      BY <3>1, <3>3, <1>1, <1>2 DEF SharedRowsTypeOK
    <3>5. \A w \in wines : ~ (w.cellar = card.cellar /\ w.key = card.key)
      BY <2>3, <1>1 DEF Cards
    <3>6. card \notin wines
      BY <3>5
    <3>7. \A f \in Entrants : Cards(f)' = IF card.cellar = entrant[f].cellar /\ card.key = computeMatchKey(entrant[f].draft)
                                         THEN Cards(f) \union {card} ELSE Cards(f)
      BY <3>1, <3>3 DEF Cards
    <3>8. \A f \in Entrants : Cards(f) # {} => Cards(f)' = Cards(f)
      BY <3>5, <3>7 DEF Cards
    <3>9. Cards(e)' = {card}
      BY <3>7, <2>3, <1>1
    <3>10. \A v, w \in wines' : v.cellar = w.cellar /\ v.key = w.key => v = w
      BY <3>1, <3>5 DEF CardsUnique
    <3>11. ASSUME NEW f \in Entrants
           PROVE  /\ entrant'[f].at # "error"
                  /\ entrant'[f].at \in {"find", "create", "again"} <=> entrant'[f].card = NoCard
                  /\ entrant'[f].card # NoCard => entrant'[f].card = Cards(f)'
                  /\ entrant'[f].at = "again" => Cards(f)' # {}
      <4>1. CASE f = e
        BY <4>1, <3>3, <3>9 DEF NoCard
      <4>2. CASE f # e
        BY <4>2, <3>3, <3>8 DEF CardsUnique, NoCard
      <4> QED
        BY <4>1, <4>2
    <3>12. ASSUME NEW f \in Entrants, f # e, entrant[f].at = "created"
           PROVE  Cards(f)' = Cards(f) /\ Cards(f)' # {card}
      <4>1. entrant[f].card # NoCard /\ entrant[f].card = Cards(f)
        BY <3>12 DEF CardsUnique
      <4>2. Cards(f)' = Cards(f)
        BY <4>1, <3>8 DEF NoCard
      <4>3. Cards(f) \subseteq wines
        BY DEF Cards
      <4> QED
        BY <4>2, <4>3, <3>6
    <3>13. ASSUME NEW f \in Entrants, NEW g \in Entrants,
                  entrant'[f].at = "created", entrant'[g].at = "created", Cards(f)' = Cards(g)'
           PROVE  f = g
      <4>1. CASE f = e
        BY <4>1, <3>13, <3>3, <3>9, <3>12
      <4>2. CASE g = e
        BY <4>2, <3>13, <3>3, <3>9, <3>12
      <4>3. CASE f # e /\ g # e
        <5>1. entrant[f].at = "created" /\ entrant[g].at = "created"
          BY <4>3, <3>13, <3>3
        <5>2. Cards(f) = Cards(g)
          BY <4>3, <5>1, <3>12, <3>13
        <5> QED
          BY <5>1, <5>2 DEF CardsUnique
      <4> QED
        BY <4>1, <4>2, <4>3
    <3>14. CardsUnique'
      BY <3>10, <3>11, <3>13 DEF CardsUnique
    <3> QED
      BY <3>4, <3>14, <1>3
  <2> QED
    BY <2>2, <2>3
<1> QED
  BY <1>5, <1>6, <1>7

\* What a request for a window becomes leaves the others as they are.
LEMMA SetterMoves ==
  ASSUME SharedRowsTypeOK, NEW s \in Setters,
         NEW at \in {"find", "again", "create", "update", "set", "error"}, NEW found \in Nat,
         setter' = [setter EXCEPT ![s].at = at, ![s].row = found]
  PROVE  /\ setter' \in [Setters -> SetterRecords]
         /\ setter'[s].at = at /\ setter'[s].row = found
         /\ \A t \in Setters : setter'[t].scope = setter[t].scope
         /\ \A t \in Setters \ {s} : setter'[t] = setter[t]
<1> DEFINE one == [setter[s] EXCEPT !.at = at]
           new == [one EXCEPT !.row = found]
<1>1. setter[s] \in SetterRecords
  BY DEF SharedRowsTypeOK
<1>2. one \in SetterRecords /\ one.at = at /\ one.scope = setter[s].scope /\ one.row = setter[s].row
  BY <1>1 DEF SetterRecords
<1>3. setter' = [setter EXCEPT ![s] = new]
  BY DEF SharedRowsTypeOK
<1> HIDE DEF one
<1>4. new \in SetterRecords /\ new.at = at /\ new.row = found /\ new.scope = setter[s].scope
  BY <1>2 DEF SetterRecords
<1> HIDE DEF new
<1> QED
  BY <1>3, <1>4 DEF SharedRowsTypeOK

\* Requests for a window keep the windows as they are.
LEMMA WindowsKeep ==
  ASSUME SharedRowsInv, NEW s \in Setters, FindWindow(s) \/ CreateWindow(s) \/ UpdateWindow(s)
  PROVE  SharedRowsInv'
<1> USE DEF SharedRowsInv
<1>1. UNCHANGED <<wines, entrant, removals>>
  BY DEF FindWindow, CreateWindow, UpdateWindow
<1>2. CardsUnique'
  BY <1>1 DEF CardsUnique, Cards
<1>3. setter[s] \in SetterRecords /\ setter[s].row \in Nat /\ setter[s].scope \in Scopes /\ setter[s].span \in Spans
  BY DEF SharedRowsTypeOK, SetterRecords
<1>4. ASSUME NEW at \in {"find", "again", "create", "update", "set", "error"}, NEW found \in Nat,
             \/ setter' = [setter EXCEPT ![s].at = at, ![s].row = found]
             \/ setter' = [setter EXCEPT ![s].at = at] /\ found = setter[s].row,
             overrides' \subseteq [id : Nat, scope : Scopes, span : Spans], IsFiniteSet(overrides'),
             \A o, p \in overrides' : o.scope = p.scope => o = p,
             \A o \in overrides : \E p \in overrides' : p.id = o.id /\ p.scope = o.scope,
             at \notin {"find", "error"} \/ removals # 0,
             at = "again" => \E p \in overrides' : p.scope = setter[s].scope,
             at = "update" => \E p \in overrides' : p.id = found
      PROVE  SharedRowsInv'
  <2>1. /\ setter' \in [Setters -> SetterRecords]
        /\ setter'[s].at = at /\ setter'[s].row = found
        /\ \A t \in Setters : setter'[t].scope = setter[t].scope
        /\ \A t \in Setters \ {s} : setter'[t] = setter[t]
    <3>1. SharedRowsTypeOK
      OBVIOUS
    <3>2. CASE setter' = [setter EXCEPT ![s].at = at, ![s].row = found]
      BY <3>1, <3>2, <1>4, SetterMoves
    <3>3. CASE setter' = [setter EXCEPT ![s].at = at] /\ found = setter[s].row
      <4> DEFINE one == [setter[s] EXCEPT !.at = at]
      <4>1. setter' = [setter EXCEPT ![s] = one]
        BY <3>3
      <4>2. at \in {"find", "again", "create", "update", "set", "error"}
        BY <1>4
      <4>3. one \in SetterRecords /\ one.at = at /\ one.scope = setter[s].scope /\ one.row = setter[s].row
        BY <1>3, <4>2 DEF SetterRecords
      <4> HIDE DEF one
      <4> QED
        BY <4>1, <4>3, <3>1, <3>3 DEF SharedRowsTypeOK
    <3> QED
      BY <3>2, <3>3, <1>4
  <2>2. SharedRowsTypeOK'
    BY <2>1, <1>1, <1>4 DEF SharedRowsTypeOK
  <2>3. ASSUME removals = 0, NEW t \in Setters
        PROVE  /\ setter'[t].at # "error"
               /\ setter'[t].at = "again" => \E p \in overrides' : p.scope = setter'[t].scope
               /\ setter'[t].at = "update" => \E p \in overrides' : p.id = setter'[t].row
    <3>1. CASE t = s
      BY <3>1, <2>1, <2>3, <1>4
    <3>2. CASE t # s
      BY <3>2, <2>1, <2>3, <1>4 DEF WindowsUnique, WindowRow
    <3> QED
      BY <3>1, <3>2
  <2>4. WindowsUnique'
    BY <2>3, <1>1, <1>4 DEF WindowsUnique, WindowRow
  <2> QED
    BY <2>2, <2>4, <1>2
<1>5. /\ overrides \subseteq [id : Nat, scope : Scopes, span : Spans] /\ IsFiniteSet(overrides)
      /\ \A o, p \in overrides : o.scope = p.scope => o = p
  BY DEF SharedRowsTypeOK, WindowsUnique
<1>6. CASE FindWindow(s)
  <2>1. overrides' = overrides /\ setter[s].at \in {"find", "again"}
    BY <1>6 DEF FindWindow
  <2>2. CASE WindowRow(s) # {}
    <3> DEFINE found == CHOOSE o \in WindowRow(s) : TRUE
    <3>1. found \in WindowRow(s)
      BY <2>2
    <3>2. found \in overrides /\ found.id \in Nat
      BY <3>1, <1>5 DEF WindowRow
    <3>3. setter' = [setter EXCEPT ![s].at = "update", ![s].row = found.id]
      BY <1>6, <2>2 DEF FindWindow
    <3> HIDE DEF found
    <3> QED
      BY <3>2, <3>3, <2>1, <1>4, <1>5
  <2>3. CASE WindowRow(s) = {}
    <3>1. PICK at \in {"create", "error"} : setter' = [setter EXCEPT ![s].at = at] /\ (at = "error" => setter[s].at = "again")
      <4>1. setter' = [setter EXCEPT ![s].at = IF setter[s].at = "find" THEN "create" ELSE "error"]
        BY <1>6, <2>3 DEF FindWindow
      <4> QED
        BY <4>1, <2>1
    <3>2. at = "error" => removals # 0
      BY <3>1, <2>3 DEF WindowsUnique
    <3> QED
      BY <3>1, <3>2, <2>1, <1>3, <1>4, <1>5
  <2> QED
    BY <2>2, <2>3
<1>7. CASE CreateWindow(s)
  <2> DEFINE id == Cardinality(overrides) + removals + 1
             new == [id |-> id, scope |-> setter[s].scope, span |-> setter[s].span]
  <2>1. CASE WindowRow(s) = {} /\ overrides' = overrides \union {new} /\ setter' = [setter EXCEPT ![s].at = "set"]
    <3>1. id \in Nat
      BY <1>5, FS_CardinalityType DEF SharedRowsTypeOK
    <3>2. IsFiniteSet(overrides')
      BY <2>1, <1>5, FS_AddElement
    <3> HIDE DEF id
    <3>3. new \in [id : Nat, scope : Scopes, span : Spans] /\ new.scope = setter[s].scope
      BY <3>1, <1>3
    <3> HIDE DEF new
    <3>4. \A o \in overrides : o.scope # setter[s].scope
      BY <2>1 DEF WindowRow
    <3>5. /\ overrides' \subseteq [id : Nat, scope : Scopes, span : Spans]
          /\ \A o, p \in overrides' : o.scope = p.scope => o = p
          /\ \A o \in overrides : \E p \in overrides' : p.id = o.id /\ p.scope = o.scope
      BY <2>1, <3>3, <3>4, <1>5
    <3> QED
      BY <2>1, <3>2, <3>5, <1>3, <1>4
  <2>2. CASE WindowRow(s) # {} /\ overrides' = overrides /\ setter' = [setter EXCEPT ![s].at = "again"]
    <3>1. \E p \in overrides' : p.scope = setter[s].scope
      BY <2>2 DEF WindowRow
    <3> QED
      BY <2>2, <3>1, <1>3, <1>4, <1>5
  <2> QED
    BY <1>7, <2>1, <2>2 DEF CreateWindow, Beaten
<1>8. CASE UpdateWindow(s)
  <2>1. CASE (\A o \in overrides : o.id # setter[s].row) /\ overrides' = overrides /\ setter' = [setter EXCEPT ![s].at = "error"]
    <3>1. removals # 0
      BY <2>1, <1>8 DEF UpdateWindow, WindowsUnique
    <3> QED
      BY <2>1, <3>1, <1>3, <1>4, <1>5
  <2>2. ASSUME NEW o \in overrides, o.id = setter[s].row,
               overrides' = (overrides \ {o}) \union {[o EXCEPT !.span = setter[s].span]},
               setter' = [setter EXCEPT ![s].at = "set"]
        PROVE  SharedRowsInv'
    <3> DEFINE new == [o EXCEPT !.span = setter[s].span]
    <3>1. new \in [id : Nat, scope : Scopes, span : Spans] /\ new.id = o.id /\ new.scope = o.scope
      BY <1>3, <1>5
    <3>2. overrides' = (overrides \ {o}) \union {new}
      BY <2>2
    <3> HIDE DEF new
    <3>3. IsFiniteSet(overrides')
      <4>1. IsFiniteSet(overrides \ {o})
        BY <1>5, FS_RemoveElement
      <4> QED
        BY <4>1, <3>2, FS_AddElement
    <3>4. /\ overrides' \subseteq [id : Nat, scope : Scopes, span : Spans]
          /\ \A p, q \in overrides' : p.scope = q.scope => p = q
          /\ \A p \in overrides : \E q \in overrides' : q.id = p.id /\ q.scope = p.scope
      BY <3>1, <3>2, <1>5
    <3> QED
      BY <2>2, <3>3, <3>4, <1>3, <1>4
  <2> QED
    BY <1>8, <2>1, <2>2 DEF UpdateWindow
<1> QED
  BY <1>6, <1>7, <1>8

\* And a window that is removed lets its requests fail.
LEMMA SharedRowsStepInv == SharedRowsInv /\ [SharedRowsStep]_sharedVars => SharedRowsInv'
<1> SUFFICES ASSUME SharedRowsInv, [SharedRowsStep]_sharedVars PROVE SharedRowsInv'
  OBVIOUS
<1>1. CASE UNCHANGED sharedVars
  BY <1>1 DEF sharedVars, SharedRowsInv, SharedRowsTypeOK, CardsUnique, WindowsUnique, Cards, WindowRow
<1>2. ASSUME NEW o \in overrides, RemoveGuard(o) PROVE SharedRowsInv'
  <2> USE DEF SharedRowsInv
  <2>1. overrides' = overrides \ {o} /\ removals' = removals + 1 /\ UNCHANGED <<wines, entrant, setter>>
    BY <1>2 DEF RemoveGuard
  <2>2. IsFiniteSet(overrides')
    BY <2>1, FS_RemoveElement DEF SharedRowsTypeOK
  <2>3. SharedRowsTypeOK'
    BY <2>1, <2>2 DEF SharedRowsTypeOK
  <2>4. CardsUnique'
    BY <2>1 DEF CardsUnique, Cards
  <2>5. removals' # 0
    BY <2>1 DEF SharedRowsTypeOK
  <2>6. WindowsUnique'
    BY <2>1, <2>5 DEF WindowsUnique
  <2> QED
    BY <2>3, <2>4, <2>6
<1> QED
  BY <1>1, <1>2, EntriesKeep, WindowsKeep DEF SharedRowsStep

\* What two entries of one bottle and two settings of one window keep: the unique keys of
\* the database, under which the loser of a race finds the winner's row
\* (wine-matching.service.ts, apogee-admin.service.ts).
THEOREM SharedRowsInvariance == SharedRowsSpec => []SharedRowsInv
  BY SharedRowsInitInv, SharedRowsStepInv, PTL DEF SharedRowsSpec

\* Nobody loses the race to create a row: the entries of one bottle share a card, which
\* says of the appellation what each of them found, and windows fail only for a removal.
THEOREM RacesAreLostByNobody == SharedRowsSpec => []NobodyLosesARace
<1>1. SharedRowsInv => NobodyLosesARace
  <2> SUFFICES ASSUME SharedRowsInv PROVE NobodyLosesARace
    OBVIOUS
  <2> USE DEF SharedRowsInv
  <2>1. ASSUME NEW e \in Entrants, NEW w \in entrant[e].card
        PROVE  w.cellar = entrant[e].cellar /\ w.appellation = AppellationOf(entrant[e].draft)
    <3>1. w \in Cards(e)
      BY <2>1 DEF CardsUnique, NoCard
    <3>2. w \in wines /\ w.cellar = entrant[e].cellar /\ w.key = computeMatchKey(entrant[e].draft)
      BY <3>1 DEF Cards
    <3>3. PICK c \in Cellars, d \in Drafts : w = Card(c, d)
      BY <3>2 DEF SharedRowsTypeOK, KnownCards
    <3>4. w.key = computeMatchKey(d) /\ w.appellation = AppellationOf(d)
      BY <3>3 DEF Card
    <3> QED
      BY <3>2, <3>4, KeysTellAppellations, CardsKnown
  <2>2. ASSUME NEW e \in Entrants, NEW f \in Entrants, e # f,
               entrant[e].card # NoCard, entrant[f].card # NoCard, entrant[e].cellar = entrant[f].cellar,
               computeMatchKey(entrant[e].draft) = computeMatchKey(entrant[f].draft)
        PROVE  entrant[e].card = entrant[f].card /\ ~ (entrant[e].at = "created" /\ entrant[f].at = "created")
    <3>1. Cards(e) = Cards(f)
      BY <2>2 DEF Cards
    <3> QED
      BY <2>2, <3>1 DEF CardsUnique
  <2>3. /\ \A e \in Entrants : entrant[e].at # "error"
        /\ \A o, p \in overrides : o.scope = p.scope => o = p
        /\ removals = 0 => \A s \in Setters : setter[s].at # "error"
    BY DEF CardsUnique, WindowsUnique
  <2> QED
    BY <2>1, <2>2, <2>3 DEF NobodyLosesARace
<1> QED
  BY <1>1, SharedRowsInvariance, PTL

-----------------------------------------------------------------------------
(* The wine of an exit photo *)

\* Of finitely many in some order, one has none before it.
LEMMA FirstOf ==
  ASSUME NEW S, IsFiniteSet(S), S # {}, NEW R,
         \A x \in S : <<x, x>> \notin R,
         \A x, y, z \in S : <<x, y>> \in R /\ <<y, z>> \in R => <<x, z>> \in R
  PROVE  \E m \in S : \A x \in S : <<x, m>> \notin R
<1> DEFINE First(T) == \E m \in T : \A x \in T : <<x, m>> \notin R
           Bad == {T \in SUBSET S : T # {} /\ ~ First(T)}
<1> SUFFICES ASSUME Bad # {} PROVE FALSE
  OBVIOUS
<1>1. Bad \in SUBSET SUBSET S
  OBVIOUS
<1>2. PICK V \in Bad : \A W \in Bad : W \subseteq V => W = V
  <2> HIDE DEF Bad
  <2> QED
    BY <1>1, LeastSubset
<1>3. V \subseteq S /\ V # {} /\ ~ First(V)
  BY <1>2
<1>4. PICK c \in V : TRUE
  BY <1>3
<1> DEFINE W == V \ {c}
<1>5. W = {} \/ First(W)
  <2>1. W \subseteq V /\ W # V /\ W \subseteq S
    BY <1>3, <1>4
  <2>2. W \notin Bad
    <3> HIDE DEF Bad, W
    <3> QED
      BY <1>2, <2>1
  <2> QED
    BY <2>1, <2>2
<1>6. CASE W = {}
  <2>1. V = {c}
    BY <1>4, <1>6
  <2> QED
    BY <1>3, <2>1
<1>7. CASE First(W)
  <2>1. PICK m \in W : \A x \in W : <<x, m>> \notin R
    BY <1>7
  <2>2. CASE <<c, m>> \notin R
    <3>1. \A x \in V : <<x, m>> \notin R
      BY <2>1, <2>2
    <3> QED
      BY <1>3, <2>1, <3>1
  <2>3. CASE <<c, m>> \in R
    <3>1. \A x \in V : <<x, c>> \notin R
      BY <1>3, <1>4, <2>1, <2>3
    <3> QED
      BY <1>3, <1>4, <3>1
  <2> QED
    BY <2>2, <2>3
<1> QED
  BY <1>5, <1>6, <1>7

\* A likeness is at most whole, and a year read and known that is another one leaves less
\* of it than a likely wine needs.
LEMMA ScoreFacts ==
  ASSUME NEW read \in Readings, NEW w \in Cuvees
  PROVE  /\ Base(read, w) \in Nat /\ Score(read, w) \in Int
         /\ read.vintage \in Nat /\ Sheet[w].vintage \in Nat
         /\ NoYear \in {read.vintage, Sheet[w].vintage} => Score(read, w) = (Base(read, w) + 500) \div 1000
         /\ NoYear \notin {read.vintage, Sheet[w].vintage} /\ read.vintage = Sheet[w].vintage =>
              Score(read, w) = (Base(read, w) + 250500) \div 1000
         /\ NoYear \notin {read.vintage, Sheet[w].vintage} /\ read.vintage # Sheet[w].vintage => Score(read, w) < 350
<1>1. read.vintage \in Nat /\ Sheet[w].vintage \in Nat
  <2>1. read.vintage \in YearsRead \union {NoYear}
    BY DEF Readings
  <2>2. YearsRead \subseteq Nat
    BY ExitRankingAssumption
  <2>3. Sheet[w].vintage \in Nat
    BY CellarViewsAssumption
  <2>4. read.vintage \in Nat
    <3>1. CASE read.vintage \in YearsRead
      BY <2>2, <3>1
    <3>2. CASE read.vintage = NoYear
      BY <3>2 DEF NoYear
    <3> QED
      BY <2>1, <3>1, <3>2
  <2> QED
    BY <2>3, <2>4
<1> DEFINE name == IF read.name = Unreadable THEN 0 ELSE NameLikeness[read.name][w]
           appellation == AppellationLikeness[read.appellation][w]
           base == Base(read, w)
<1>0. \A l \in Thousandths : l \in Nat /\ l <= 1000
  BY DEF Thousandths
<1>2. name \in Nat /\ name <= 1000
  <2>1. read.name \in DOMAIN NameLikeness \union {Unreadable}
    BY DEF Readings
  <2> QED
    BY <1>0, <2>1, ExitRankingAssumption
<1>3. read.appellation # Unreadable => appellation \in Nat /\ appellation <= 1000
  <2>1. read.appellation \in DOMAIN AppellationLikeness \union {Unreadable}
    BY DEF Readings
  <2> QED
    BY <1>0, <2>1, ExitRankingAssumption
<1>4. base = (IF read.appellation = Unreadable THEN 1000 * name ELSE 600 * name + 400 * appellation)
  BY DEF Base
<1> HIDE DEF name, appellation, base
<1>5. base \in Nat /\ base <= 1000000
  BY <1>2, <1>3, <1>4, SMT
<1> DEFINE year == Sheet[w].vintage
           score == Score(read, w)
<1>6. CASE NoYear \in {read.vintage, year}
  <2>1. score = (base + 500) \div 1000
    BY <1>6, SMT DEF Score, base
  <2> QED
    BY <1>1, <1>5, <1>6, <2>1, SMT DEF base
<1>7. CASE NoYear \notin {read.vintage, year} /\ read.vintage = year
  <2>1. score = (base + 250000 + 500) \div 1000
    BY <1>7, SMT DEF Score, base
  <2>2. base + 250000 + 500 = base + 250500
    BY <1>5, SMT
  <2> QED
    BY <1>1, <1>5, <1>7, <2>1, <2>2, SMT DEF base
<1>8. CASE NoYear \notin {read.vintage, year} /\ read.vintage # year
  <2>1. score = ((base * 3) \div 10 + 500) \div 1000
    BY <1>8, SMT DEF Score, base
  <2>2. score \in Int /\ score < 350
    <3> HIDE DEF score
    <3> QED
      BY <1>5, <2>1, SMT
  <2> QED
    BY <1>1, <1>5, <1>8, <2>2, SMT DEF base
<1> QED
  BY <1>6, <1>7, <1>8, SMT

\* So a score is a whole number.
LEMMA ScoreTyped == \A read \in Readings, w \in Cuvees : Score(read, w) \in Int
  BY ScoreFacts, SMT

\* In the list the wines of a producer come by vintage, and those without one first.
LEMMA PrecedesInList ==
  ASSUME NEW w \in Cuvees, NEW x \in Cuvees
  PROVE  Precedes(w, x, FALSE) <=>
           \/ Sheet[w].producer < Sheet[x].producer
           \/ Sheet[w].producer = Sheet[x].producer /\ Sheet[w].vintage < Sheet[x].vintage
<1> DEFINE y == Sheet[w].vintage
           z == Sheet[x].vintage
           first == IF NoYear \in {y, z} THEN y # z /\ (y = NoYear) # FALSE ELSE y < z
<1>1. y \in Nat /\ z \in Nat
  BY CellarViewsAssumption
<1>2. Precedes(w, x, FALSE) <=>
        Sheet[w].producer < Sheet[x].producer \/ (Sheet[w].producer = Sheet[x].producer /\ first)
  BY DEF Precedes
<1> HIDE DEF y, z
<1>3. first <=> y < z
  <2>1. CASE NoYear \notin {y, z}
    BY <2>1
  <2>2. CASE y = NoYear /\ z # NoYear
    <3>1. first
      BY <2>2
    <3>2. y < z
      BY <1>1, <2>2 DEF NoYear
    <3> QED
      BY <3>1, <3>2
  <2>3. CASE z = NoYear
    <3>1. ~ first
      BY <2>3
    <3>2. ~ (y < z)
      BY <1>1, <2>3 DEF NoYear
    <3> QED
      BY <3>1, <3>2
  <2> QED
    BY <2>1, <2>2, <2>3
<1> HIDE DEF first
<1> QED
  BY <1>2, <1>3 DEF y, z

\* One of two wines is ahead of the other, for no two have a producer and a vintage in common.
LEMMA AheadOrders ==
  ASSUME NEW read \in Readings
  PROVE  /\ \A w \in Cuvees : ~ Ahead(read, w, w)
         /\ \A w, x \in Cuvees : w # x => Ahead(read, w, x) \/ Ahead(read, x, w)
         /\ \A w, x, y \in Cuvees : Ahead(read, w, x) /\ Ahead(read, x, y) => Ahead(read, w, y)
         /\ \A w, x \in Cuvees : Ahead(read, w, x) => Score(read, x) <= Score(read, w)
<1> DEFINE P(w) == Sheet[w].producer
           Y(w) == Sheet[w].vintage
           S(w) == Score(read, w)
<1>1. \A w \in Cuvees : P(w) \in Int /\ Y(w) \in Int /\ S(w) \in Int
  BY ScoreTyped, CellarViewsAssumption
<1>2. \A w, x \in Cuvees : P(w) = P(x) /\ Y(w) = Y(x) => w = x
  BY CellarViewsAssumption
<1>3. \A w, x \in Cuvees : Ahead(read, w, x) <=>
        \/ S(w) > S(x)
        \/ S(w) = S(x) /\ (P(w) < P(x) \/ (P(w) = P(x) /\ Y(w) < Y(x)))
  BY PrecedesInList DEF Ahead
<1> HIDE DEF P, Y, S
<1>4. \A w \in Cuvees : ~ Ahead(read, w, w)
  BY <1>1, <1>3
<1>5. \A w, x \in Cuvees : w # x => Ahead(read, w, x) \/ Ahead(read, x, w)
  BY <1>1, <1>2, <1>3
<1>6. \A w, x, y \in Cuvees : Ahead(read, w, x) /\ Ahead(read, x, y) => Ahead(read, w, y)
  BY <1>1, <1>3
<1>7. \A w, x \in Cuvees : Ahead(read, w, x) => S(x) <= S(w)
  BY <1>1, <1>3
<1> QED
  BY <1>4, <1>5, <1>6, <1>7 DEF S

\* Of some wines, one is ahead of the others.
LEMMA AheadOfAll ==
  ASSUME NEW read \in Readings, NEW L, L \subseteq Cuvees, L # {}
  PROVE  \E m \in L : \A x \in L : ~ Ahead(read, x, m)
<1> DEFINE R == {p \in L \X L : Ahead(read, p[1], p[2])}
<1>1. \A x, y \in L : <<x, y>> \in R <=> Ahead(read, x, y)
  OBVIOUS
<1>2. IsFiniteSet(L)
  BY CellarViewsAssumption, FS_Subset
<1> HIDE DEF R
<1>3. /\ \A x \in L : <<x, x>> \notin R
      /\ \A x, y, z \in L : <<x, y>> \in R /\ <<y, z>> \in R => <<x, z>> \in R
  BY <1>1, AheadOrders
<1>4. \E m \in L : \A x \in L : <<x, m>> \notin R
  BY <1>2, <1>3, FirstOf
<1> QED
  BY <1>1, <1>4

\* The first of the ranking is ahead of the other likely wines, the second of all but the first.
LEMMA FirstsOfRanking ==
  ASSUME NEW read \in Readings, Ranked(read) # << >>
  PROVE  LET found == Ranked(read)
             L == Likely(read)
         IN /\ found[1] \in L /\ \A x \in L \ {found[1]} : Score(read, x) <= Score(read, found[1])
            /\ Len(found) = 1 => L = {found[1]}
            /\ Len(found) # 1 =>
                 /\ found[2] \in L \ {found[1]}
                 /\ \A x \in L \ {found[1]} : Score(read, x) <= Score(read, found[2])
<1> DEFINE found == Ranked(read)
           L == Likely(read)
           n == Cardinality(L)
           Before(w) == {x \in L : Ahead(read, x, w)}
           f == found[1]
           g == found[2]
<1>1. L \subseteq Cuvees /\ IsFiniteSet(L) /\ n \in Nat
  <2>1. L \subseteq Cuvees
    BY DEF Likely
  <2> QED
    BY <2>1, CellarViewsAssumption, FS_Subset, FS_CardinalityType
<1>2. \A w \in L : IsFiniteSet(Before(w)) /\ Before(w) \subseteq L
  BY <1>1, FS_Subset
<1> DEFINE len == Min({4, n})
<1>3. len \in {4, n} /\ len <= 4 /\ len <= n
  <2> HIDE DEF n
  <2>1. \E x \in {4, n} : \A y \in {4, n} : x <= y
    BY <1>1
  <2> QED
    BY <2>1 DEF Min
<1>4. found = [k \in 1..len |-> CHOOSE w \in L : Cardinality(Before(w)) = k - 1]
  BY DEF Ranked
<1> HIDE DEF found, L, len, n, Before
<1>5. len > 0 /\ n > 0 /\ Len(found) = len
  <2>1. len \in Nat
    BY <1>1, <1>3
  <2>2. Len(found) = len
    BY <1>4, <2>1
  <2>3. len # 0
    BY <1>4, <2>1 DEF found
  <2> QED
    BY <1>1, <1>3, <2>1, <2>2, <2>3
<1>6. L # {}
  BY <1>1, <1>5, FS_EmptySet DEF n
<1>7. f \in L /\ Before(f) = {}
  <2>1. PICK m \in L : \A x \in L : ~ Ahead(read, x, m)
    BY <1>1, <1>6, AheadOfAll
  <2>2. Cardinality(Before(m)) = 1 - 1
    <3>1. Before(m) = {}
      BY <2>1 DEF Before
    <3> QED
      BY <3>1, FS_EmptySet
  <2>3. f = (CHOOSE w \in L : Cardinality(Before(w)) = 1 - 1)
    BY <1>3, <1>4, <1>5, <1>1
  <2>4. f \in L /\ Cardinality(Before(f)) = 0
    BY <2>1, <2>2, <2>3
  <2> QED
    BY <1>2, <2>4, FS_EmptySet
<1>8. \A x \in L \ {f} : Ahead(read, f, x) /\ Score(read, x) <= Score(read, f)
  BY <1>1, <1>7, AheadOrders DEF Before
<1>9. ASSUME len = 1 PROVE L = {f}
  <2>1. n = 1
    BY <1>1, <1>3, <1>9
  <2>2. \E e : L = {e}
    BY <1>1, <2>1, FS_Singleton DEF n
  <2> QED
    BY <1>7, <2>2
<1>10. ASSUME len # 1
       PROVE  g \in L \ {f} /\ \A x \in L \ {f} : Score(read, x) <= Score(read, g)
  <2> DEFINE M == L \ {f}
  <2>1. M # {} /\ M \subseteq Cuvees
    <3>1. n # 1
      BY <1>1, <1>3, <1>5, <1>10
    <3>2. L # {f}
      BY <3>1, FS_Singleton DEF n
    <3> QED
      BY <1>1, <1>7, <3>2
  <2>2. PICK m \in M : \A x \in M : ~ Ahead(read, x, m)
    <3> HIDE DEF M
    <3> QED
      BY <2>1, AheadOfAll
  <2>3. Cardinality(Before(m)) = 2 - 1
    <3>1. Before(m) = {f}
      BY <1>7, <1>8, <2>2 DEF Before
    <3>2. Cardinality({f}) = 1
      BY FS_Singleton
    <3> QED
      BY <3>1, <3>2
  <2>4. g = (CHOOSE w \in L : Cardinality(Before(w)) = 2 - 1)
    <3>1. 2 \in 1..len
      BY <1>1, <1>3, <1>5, <1>10
    <3> QED
      BY <1>4, <3>1
  <2>5. g \in L /\ Cardinality(Before(g)) = 1
    BY <2>2, <2>3, <2>4
  <2>6. g # f
    <3>1. Cardinality(Before(f)) = 0
      BY <1>7, FS_EmptySet
    <3> QED
      BY <2>5, <3>1
  <2>7. Before(g) = {f}
    <3>1. \E e : Before(g) = {e}
      BY <1>2, <2>5, FS_Singleton
    <3>2. f \in Before(g)
      BY <1>7, <1>8, <2>5, <2>6 DEF Before
    <3> QED
      BY <3>1, <3>2
  <2>8. ASSUME NEW x \in L \ {f} PROVE Score(read, x) <= Score(read, g)
    <3>1. CASE x = g
      <4>1. Score(read, g) \in Int
        BY <1>1, <2>5, ScoreTyped
      <4> QED
        BY <3>1, <4>1
    <3>2. CASE x # g
      <4>1. ~ Ahead(read, x, g)
        BY <2>7, <2>8 DEF Before
      <4> QED
        BY <1>1, <2>5, <2>8, <3>2, <4>1, AheadOrders
    <3> QED
      BY <3>1, <3>2
  <2> QED
    BY <2>5, <2>6, <2>8
<1> HIDE DEF f, g
<1> QED
  BY <1>5, <1>7, <1>8, <1>9, <1>10 DEF found, L, f, g

\* What is confirmed without a choice is the first, far enough ahead of what else is likely.
LEMMA UniqueIsAhead ==
  ASSUME NEW read \in Readings, "UNIQUE" \in Outcomes(read)
  PROVE  LET w == Ranked(read)[1]
         IN /\ w \in Likely(read) /\ Score(read, w) >= 600
            /\ \A x \in Likely(read) \ {w} : Score(read, x) + 150 <= Score(read, w)
<1> DEFINE found == Ranked(read)
           L == Likely(read)
           f == found[1]
           g == found[2]
           gap == Score(read, f) - Score(read, g)
<1>1. found # << >>
  BY DEF Outcomes
<1>2. /\ f \in L /\ \A x \in L \ {f} : Score(read, x) <= Score(read, f)
      /\ Len(found) = 1 => L = {f}
      /\ Len(found) # 1 =>
           /\ g \in L \ {f}
           /\ \A x \in L \ {f} : Score(read, x) <= Score(read, g)
  BY <1>1, FirstsOfRanking
<1>3. \A x \in L : Score(read, x) \in Int
  <2>1. L \subseteq Cuvees
    BY DEF Likely
  <2> QED
    BY <2>1, ScoreTyped
<1>4. Score(read, f) >= 600 /\ (Len(found) # 1 => gap >= 150)
  <2>1. Outcomes(read) =
          IF found = << >> \/ (read.name = Unreadable /\ read.appellation = Unreadable) THEN {"NONE"}
          ELSE CASE Score(read, f) < 600 -> {"SEVERAL"}
                 [] Score(read, f) >= 600 /\ Len(found) = 1 -> {"UNIQUE"}
                 [] OTHER -> (IF gap >= 150 THEN {"UNIQUE"} ELSE {}) \union (IF gap <= 150 THEN {"SEVERAL"} ELSE {})
    BY DEF Outcomes
  <2> HIDE DEF found, f, g, gap, L
  <2>2. "UNIQUE" \notin {"NONE"} /\ "UNIQUE" \notin {"SEVERAL"}
    OBVIOUS
  <2>3. ~ (Score(read, f) < 600)
    <3>1. ~ (found = << >> \/ (read.name = Unreadable /\ read.appellation = Unreadable))
      BY <2>1, <2>2
    <3>2. ASSUME Score(read, f) < 600 PROVE Outcomes(read) = {"SEVERAL"}
      BY <1>2, <1>3, <2>1, <3>1, <3>2
    <3> QED
      BY <2>2, <3>2
  <2>4. ASSUME Len(found) # 1 PROVE gap >= 150
    BY <2>1, <2>2, <2>3, <2>4
  <2> QED
    BY <1>2, <1>3, <2>3, <2>4
<1> HIDE DEF found, f, L
<1>5. ASSUME NEW x \in L \ {f} PROVE Score(read, x) + 150 <= Score(read, f)
  <2>1. Len(found) # 1
    BY <1>2, <1>5
  <2>2. Score(read, x) <= Score(read, g) /\ gap >= 150 /\ g \in L
    BY <1>2, <1>4, <1>5, <2>1
  <2>3. Score(read, x) \in Int /\ Score(read, g) \in Int /\ Score(read, f) \in Int
    BY <1>2, <1>3, <1>5, <2>2
  <2> QED
    BY <2>2, <2>3
<1> QED
  BY <1>2, <1>4, <1>5 DEF found, f, L

\* No exit is confirmed by a guess, whatever the cellar holds, its wines are called and the
\* model reads: a wine that is likely and of another vintage than the one read is none, and
\* of two that read alike the year that was read rules one out.
THEOREM NoExitIsGuessed == ExitNeverGuesses
<1> SUFFICES ASSUME NEW read \in Readings, NEW loaded \in {2029, 2030}, NEW answer \in Answers(read, loaded),
                    answer.outcome = "UNIQUE"
             PROVE  LET w == answer.candidates[1] IN
                      /\ Bottles(ledger, w) > 0 /\ WellFormed(read, loaded)
                      /\ NoYear \in {read.vintage, Sheet[w].vintage} \/ read.vintage = Sheet[w].vintage
                      /\ \A x \in Cuvees \ {w} : Bottles(ledger, x) > 0 /\ Alike(read, w, x) =>
                           read.vintage # NoYear /\ Sheet[x].vintage \notin {read.vintage, Sheet[w].vintage}
                      /\ \A x \in Cuvees \ {w} : Bottles(ledger, x) > 0 => Score(read, x) + 150 <= Score(read, w)
  BY DEF ExitNeverGuesses
<1> DEFINE w == Ranked(read)[1]
<1>1. WellFormed(read, loaded) /\ "UNIQUE" \in Outcomes(read) /\ answer.candidates[1] = w
  <2>1. CASE WellFormed(read, loaded)
    <3>1. answer.outcome \in Outcomes(read) /\ answer.candidates \in {Ranked(read)}
      BY <2>1 DEF Answers
    <3> QED
      BY <2>1, <3>1
  <2>2. CASE ~ WellFormed(read, loaded)
    BY <2>2 DEF Answers
  <2> QED
    BY <2>1, <2>2
<1>2. w \in Likely(read) /\ Score(read, w) >= 600 /\ \A x \in Likely(read) \ {w} : Score(read, x) + 150 <= Score(read, w)
  BY <1>1, UniqueIsAhead
<1> HIDE DEF w
<1>3. w \in Cuvees /\ Bottles(ledger, w) > 0 /\ Score(read, w) \in Int
  <2>1. w \in Cuvees /\ Bottles(ledger, w) > 0
    BY <1>2 DEF Likely
  <2> QED
    BY <2>1, ScoreTyped
<1>4. NoYear \in {read.vintage, Sheet[w].vintage} \/ read.vintage = Sheet[w].vintage
  <2>1. ~ (Score(read, w) < 350)
    BY <1>2, <1>3
  <2> QED
    BY <1>3, <2>1, ScoreFacts
<1>5. ASSUME NEW x \in Cuvees \ {w}, Bottles(ledger, x) > 0 PROVE Score(read, x) + 150 <= Score(read, w)
  <2>1. CASE x \in Likely(read)
    BY <1>2, <2>1
  <2>2. CASE x \notin Likely(read)
    <3>1. ~ (Score(read, x) >= 350) /\ Score(read, x) \in Int
      BY <1>5, <2>2, ScoreTyped DEF Likely
    <3> QED
      BY <1>2, <1>3, <3>1
  <2> QED
    BY <2>1, <2>2
<1>6. ASSUME NEW x \in Cuvees \ {w}, Bottles(ledger, x) > 0, Alike(read, w, x)
      PROVE  read.vintage # NoYear /\ Sheet[x].vintage \notin {read.vintage, Sheet[w].vintage}
  <2> DEFINE b == Base(read, w)
             c == Base(read, x)
             s == Score(read, w)
             t == Score(read, x)
             y == read.vintage
             v == Sheet[w].vintage
             u == Sheet[x].vintage
  <2>1. b = c /\ t + 150 <= s /\ b \in Nat /\ s \in Int /\ t \in Int
    BY <1>3, <1>5, <1>6, ScoreFacts DEF Alike
  <2>2. /\ NoYear \in {y, v} => s = (b + 500) \div 1000
        /\ NoYear \notin {y, v} /\ y = v => s = (b + 250500) \div 1000
        /\ NoYear \in {y, v} \/ y = v
    BY <1>3, <1>4, ScoreFacts
  <2>3. /\ NoYear \in {y, u} => t = (c + 500) \div 1000
        /\ NoYear \notin {y, u} /\ y = u => t = (c + 250500) \div 1000
    BY ScoreFacts
  <2> HIDE DEF b, c, s, t, y, v, u
  <2>4. NoYear \in {y, u} => t # s /\ t = (b + 500) \div 1000
    BY <2>1, <2>3
  <2>5. (b + 500) \div 1000 <= (b + 250500) \div 1000
    BY <2>1, SMT
  <2>6. y # NoYear
    BY <2>1, <2>2, <2>4
  <2>7. u # y
    <3>1. CASE u = y
      <4>1. t = (b + 250500) \div 1000
        BY <2>1, <2>3, <2>6, <3>1
      <4> QED
        BY <2>1, <2>2, <2>5, <4>1
    <3> QED
      BY <3>1
  <2>8. u # v
    BY <2>2, <2>4, <2>6, <2>7
  <2> QED
    BY <2>6, <2>7, <2>8 DEF y, u, v
<1> QED
  BY <1>1, <1>3, <1>4, <1>5, <1>6

-----------------------------------------------------------------------------
(* What the screens say of a cellar *)

Here == Shelves \union {NoShelf}

ViewsInit == ledger = << >> /\ manual = [w \in Cuvees |-> NoWindow] /\ quotes = << >>

\* Any bottles, places, years and quotes.
ViewsStep ==
  \/ \E w \in Cuvees, qty \in Nat, p \in Here, price \in Nat, m \in Months \union {LastMonth} : EnterBottles(w, qty, p, price, m)
  \/ \E w \in Cuvees, p \in Here : TakeBottle(w, p, LastMonth)
  \/ \E w \in Cuvees, delta \in Int, p \in Here : CountBottles(w, delta, p)
  \/ \E w \in Cuvees, p \in Here, q \in Here : ShiftBottle(w, p, q)
  \/ \E i \in DOMAIN ledger : CancelRow(ledger[i])
  \/ \E w \in Cuvees, window \in {NoWindow} \union Seq(Nat) : SetManualApogee(w, window)
  \/ \E q \in [wine : Cuvees, cote : Nat, on : Months, link : SUBSET Links] : AddQuote(q)

ViewsSpec == ViewsInit /\ [][ViewsStep]_viewVars

LedgerRow == [id : Nat, wine : Cuvees, delta : Int, type : {"IN", "OUT", "MOVE", "ADJUST"}, place : Here,
              price : Nat, month : Months, reverses : Nat]

QuoteRow == [wine : Cuvees, cote : Nat \ {0}, on : Months, link : SUBSET Links]

\* Rows are numbered as they are written, and a cancellation undoes an earlier row, which is
\* no move and none itself, whole and once.
UndoneOnce(list) ==
  /\ \A i \in DOMAIN list : list[i].id = i
  /\ \A i \in DOMAIN list : list[i].reverses # 0 =>
       /\ list[i].type = "ADJUST" /\ list[i].reverses \in 1..(i - 1)
       /\ LET m == list[list[i].reverses]
          IN m.type # "MOVE" /\ m.reverses = 0 /\ m.wine = list[i].wine /\ list[i].delta = - m.delta
  /\ \A i, k \in DOMAIN list : list[i].reverses # 0 /\ list[i].reverses = list[k].reverses => i = k

\* Movements are of wines and places of the cellar, no place holds less than nothing, no row
\* is undone twice, a quote is of some cents, and years that were typed are in order.
ViewsInv ==
  /\ ledger \in Seq(LedgerRow) /\ quotes \in Seq(QuoteRow)
  /\ \A w \in Cuvees, p \in Here : BottlesAt(ledger, w, p) >= 0
  /\ UndoneOnce(ledger)
  /\ DOMAIN manual = Cuvees
  /\ \A w \in Cuvees : manual[w] # NoWindow => InOrderOfYears(manual[w])

\* Of finitely many numbers there is a last, as there is a first.
LEMMA Ends ==
  ASSUME NEW S, S \subseteq Int, IsFiniteSet(S), S # {}
  PROVE  /\ Max(S) \in S /\ \A x \in S : x <= Max(S)
         /\ Min(S) \in S /\ \A x \in S : Min(S) <= x
         /\ \E m \in S : \A x \in S : m <= x
<1> DEFINE Up == {p \in S \X S : p[1] < p[2]}
           Down == {p \in S \X S : p[1] > p[2]}
<1>1. \A x, y \in S : (<<x, y>> \in Up <=> x < y) /\ (<<x, y>> \in Down <=> x > y)
  OBVIOUS
<1> HIDE DEF Up, Down
<1>2. /\ \A x \in S : <<x, x>> \notin Up
      /\ \A x, y, z \in S : <<x, y>> \in Up /\ <<y, z>> \in Up => <<x, z>> \in Up
  BY <1>1
<1>3. \E m \in S : \A x \in S : <<x, m>> \notin Up
  BY <1>2, FirstOf
<1>4. /\ \A x \in S : <<x, x>> \notin Down
      /\ \A x, y, z \in S : <<x, y>> \in Down /\ <<y, z>> \in Down => <<x, z>> \in Down
  BY <1>1
<1>5. \E m \in S : \A x \in S : <<x, m>> \notin Down
  BY <1>4, FirstOf
<1>6. \E m \in S : \A x \in S : m <= x
  <2>1. PICK m \in S : \A x \in S : <<x, m>> \notin Up
    BY <1>3
  <2>2. \A x \in S : ~ (x < m) /\ x \in Int /\ m \in Int
    BY <1>1, <2>1
  <2>3. \A x \in S : m <= x
    BY <2>2
  <2> QED
    BY <2>3
<1>7. \E m \in S : \A x \in S : m >= x
  <2>1. PICK m \in S : \A x \in S : <<x, m>> \notin Down
    BY <1>5
  <2>2. \A x \in S : ~ (x > m) /\ x \in Int /\ m \in Int
    BY <1>1, <2>1
  <2>3. \A x \in S : m >= x
    BY <2>2
  <2> QED
    BY <2>3
<1>8. Max(S) \in S /\ \A x \in S : Max(S) >= x
  BY <1>7 DEF Max
<1>9. Min(S) \in S /\ \A x \in S : Min(S) <= x
  BY <1>6 DEF Min
<1>10. \A x \in S : x <= Max(S)
  BY <1>8
<1> QED
  BY <1>6, <1>8, <1>9, <1>10

\* What is written now is of a month of the cellar.
LEMMA LastMonthTyped == ViewsInv => LastMonth \in Months
<1> SUFFICES ASSUME ViewsInv PROVE LastMonth \in Months
  OBVIOUS
<1>1. CASE ledger = << >>
  <2>1. Months \subseteq Int /\ IsFiniteSet(Months) /\ Months # {}
    BY CellarViewsAssumption
  <2>2. Min(Months) \in Months
    BY <2>1, Ends
  <2> QED
    BY <1>1, <2>2 DEF LastMonth
<1>2. CASE ledger # << >>
  <2>1. ledger[Len(ledger)] \in LedgerRow
    BY <1>2 DEF ViewsInv
  <2>2. LastMonth = ledger[Len(ledger)].month
    BY <1>2 DEF LastMonth, Last
  <2> QED
    BY <2>1, <2>2 DEF LedgerRow
<1> QED
  BY <1>1, <1>2

\* Rows that are written follow those there are, and leave no place with less than nothing.
LEMMA WrittenKeeps ==
  ASSUME ViewsInv, NEW new, new \in Seq(LedgerRow), UndoneOnce(ledger \o new), Written(new)
  PROVE  ViewsInv'
<1>1. ledger' = ledger \o new /\ manual' = manual /\ quotes' = quotes
  BY DEF Written
<1>2. ledger' \in Seq(LedgerRow) /\ quotes' \in Seq(QuoteRow)
  BY <1>1 DEF ViewsInv
<1>3. \A w \in Cuvees, p \in Here : BottlesAt(ledger, w, p)' >= 0
  <2>1. \A w \in Cuvees, p \in Here : BottlesAt(ledger', w, p) >= 0
    BY <1>1 DEF Written, Here
  <2> QED
    BY <2>1 DEF BottlesAt, Moved, Of
<1>4. DOMAIN manual' = Cuvees /\ \A w \in Cuvees : manual'[w] # NoWindow => InOrderOfYears(manual'[w])
  BY <1>1 DEF ViewsInv
<1>5. UndoneOnce(ledger)'
  BY <1>1 DEF UndoneOnce
<1> QED
  BY <1>2, <1>3, <1>4, <1>5 DEF ViewsInv, InOrderOfYears

\* What the journal holds after some rows were written.
LEMMA WrittenRows ==
  ASSUME ViewsInv, NEW new, new \in Seq(LedgerRow)
  PROVE  LET all == ledger \o new
             n == Len(ledger)
         IN /\ n \in Nat /\ Len(new) \in Nat /\ DOMAIN ledger = 1..n /\ DOMAIN new = 1..Len(new)
            /\ DOMAIN all = 1..(n + Len(new))
            /\ \A i \in 1..n : all[i] = ledger[i]
            /\ \A k \in 1..Len(new) : all[n + k] = new[k]
<1>1. ledger \in Seq(LedgerRow)
  BY DEF ViewsInv
<1> QED
  BY <1>1

\* Rows that cancel nothing, numbered in their turn.
LEMMA PlainRowsKeep ==
  ASSUME ViewsInv, NEW new, new \in Seq(LedgerRow), Written(new),
         \A k \in DOMAIN new : new[k].id = Len(ledger) + k /\ new[k].reverses = 0
  PROVE  ViewsInv'
<1> DEFINE all == ledger \o new
           n == Len(ledger)
           len == Len(new)
<1>1. /\ n \in Nat /\ len \in Nat /\ DOMAIN ledger = 1..n /\ DOMAIN new = 1..len /\ DOMAIN all = 1..(n + len)
      /\ \A i \in 1..n : all[i] = ledger[i]
      /\ \A k \in 1..len : all[n + k] = new[k]
  BY WrittenRows
<1>2. UndoneOnce(ledger)
  BY DEF ViewsInv
<1>3. \A k \in 1..len : new[k].id = n + k /\ new[k].reverses = 0
  BY <1>1
<1> HIDE DEF all, n, len
<1>4. \A i \in 1..(n + len) : i \in 1..n \/ (i - n \in 1..len /\ i = n + (i - n))
  BY <1>1
<1>5. ASSUME NEW i \in 1..(n + len)
      PROVE  /\ all[i].id = i
             /\ i \in 1..n => all[i] = ledger[i]
             /\ all[i].reverses # 0 => i \in 1..n
  <2>1. CASE i \in 1..n
    BY <1>1, <1>2, <2>1 DEF UndoneOnce
  <2>2. CASE i \notin 1..n
    <3>1. i - n \in 1..len /\ i = n + (i - n)
      BY <1>4, <2>2
    <3>2. all[i] = new[i - n]
      BY <1>1, <3>1
    <3> QED
      BY <1>3, <2>2, <3>1, <3>2
  <2> QED
    BY <2>1, <2>2
<1>6. ASSUME NEW i \in 1..(n + len), all[i].reverses # 0
      PROVE  /\ all[i].type = "ADJUST" /\ all[i].reverses \in 1..(i - 1)
             /\ LET m == all[all[i].reverses]
                IN m.type # "MOVE" /\ m.reverses = 0 /\ m.wine = all[i].wine /\ all[i].delta = - m.delta
  <2>1. i \in 1..n /\ all[i] = ledger[i]
    BY <1>5, <1>6
  <2>2. ledger[i].reverses \in 1..(i - 1)
    BY <1>1, <1>2, <1>6, <2>1 DEF UndoneOnce
  <2>3. ledger[i].reverses \in 1..n
    BY <1>1, <2>1, <2>2
  <2>4. all[ledger[i].reverses] = ledger[ledger[i].reverses]
    BY <1>1, <2>3
  <2> QED
    BY <1>1, <1>2, <1>6, <2>1, <2>4 DEF UndoneOnce
<1>7. ASSUME NEW i \in 1..(n + len), NEW k \in 1..(n + len), all[i].reverses # 0, all[i].reverses = all[k].reverses
      PROVE  i = k
  <2>1. i \in 1..n /\ k \in 1..n /\ all[i] = ledger[i] /\ all[k] = ledger[k]
    BY <1>5, <1>7
  <2> QED
    BY <1>1, <1>2, <1>7, <2>1 DEF UndoneOnce
<1>8. UndoneOnce(all)
  BY <1>1, <1>5, <1>6, <1>7 DEF UndoneOnce
<1> QED
  BY <1>8, WrittenKeeps DEF all

\* A row alone that cancels nothing.
LEMMA PlainRowKeeps ==
  ASSUME ViewsInv, NEW r \in LedgerRow, r.id = Len(ledger) + 1, r.reverses = 0, Written(<<r>>)
  PROVE  ViewsInv'
<1> DEFINE new == <<r>>
<1>1. new \in Seq(LedgerRow) /\ DOMAIN new = {1} /\ new[1] = r
  OBVIOUS
<1>2. \A k \in DOMAIN new : new[k].id = Len(ledger) + k /\ new[k].reverses = 0
  BY <1>1
<1>3. Written(new)
  OBVIOUS
<1> HIDE DEF new
<1> QED
  BY <1>1, <1>2, <1>3, PlainRowsKeep

\* A row that an operation writes.
LEMMA RowTyped ==
  ASSUME ViewsInv, NEW w \in Cuvees, NEW delta \in Int, NEW type \in {"IN", "OUT", "MOVE", "ADJUST"}, NEW p \in Here,
         NEW price \in Nat, NEW m \in Months, NEW reverses \in Nat
  PROVE  Row(w, delta, type, p, price, m, reverses) \in LedgerRow
<1>1. Len(ledger) + 1 \in Nat
  BY DEF ViewsInv
<1> QED
  BY <1>1 DEF Row, LedgerRow

\* With another number it is still one.
LEMMA RenumberedRow ==
  ASSUME NEW r \in LedgerRow, NEW n \in Nat
  PROVE  [r EXCEPT !.id = n] \in LedgerRow /\ [r EXCEPT !.id = n].id = n /\ [r EXCEPT !.id = n].reverses = r.reverses
BY DEF LedgerRow

\* A cancellation undoes a row that no other undoes.
LEMMA CancelKeeps == ASSUME ViewsInv, NEW j \in DOMAIN ledger, CancelRow(ledger[j]) PROVE ViewsInv'
<1> DEFINE m == ledger[j]
           r == Row(m.wine, - m.delta, "ADJUST", m.place, NoPrice, LastMonth, m.id)
           new == <<r>>
           all == ledger \o new
           n == Len(ledger)
<1>1. UndoneOnce(ledger) /\ ledger \in Seq(LedgerRow)
  BY DEF ViewsInv
<1>2. m \in LedgerRow /\ m.id = j /\ m.type # "MOVE" /\ m.reverses = 0 /\ m.id \notin Reversed(ledger) /\ Written(new)
  <2>1. m \in LedgerRow /\ m.id = j
    BY <1>1 DEF UndoneOnce
  <2> QED
    BY <2>1 DEF CancelRow
<1>3. r \in LedgerRow /\ r.id = n + 1 /\ r.wine = m.wine /\ r.delta = - m.delta /\ r.type = "ADJUST" /\ r.reverses = j
  <2> HIDE DEF m
  <2>1. m.wine \in Cuvees /\ - m.delta \in Int /\ m.place \in Here /\ m.id \in Nat
    BY <1>2 DEF LedgerRow
  <2>2. LastMonth \in Months /\ NoPrice \in Nat
    BY LastMonthTyped DEF NoPrice
  <2>3. Row(m.wine, - m.delta, "ADJUST", m.place, NoPrice, LastMonth, m.id) \in LedgerRow
    BY <2>1, <2>2, RowTyped
  <2>4. /\ r.id = n + 1 /\ r.wine = m.wine /\ r.delta = - m.delta /\ r.type = "ADJUST" /\ r.reverses = m.id
    BY DEF Row
  <2> QED
    BY <1>2, <2>3, <2>4
<1> HIDE DEF r
<1>4. new \in Seq(LedgerRow) /\ Len(new) = 1 /\ new[1] = r
  BY <1>3
<1>5. /\ n \in Nat /\ DOMAIN ledger = 1..n /\ DOMAIN all = 1..(n + 1)
      /\ \A i \in 1..n : all[i] = ledger[i]
      /\ all[n + 1] = r
  <2> HIDE DEF new
  <2>1. /\ n \in Nat /\ DOMAIN ledger = 1..n /\ DOMAIN all = 1..(n + Len(new))
        /\ \A i \in 1..n : all[i] = ledger[i]
        /\ \A k \in 1..Len(new) : all[n + k] = new[k]
    BY <1>4, WrittenRows
  <2> QED
    BY <1>4, <2>1
<1> HIDE DEF all, n
<1>6. j \in 1..n /\ j # 0 /\ \A i \in 1..n : ledger[i].reverses # j
  <2>1. j \in 1..n
    BY <1>5
  <2>2. j \notin Reversed(ledger) /\ j # 0
    BY <1>2, <1>5
  <2>3. \A i \in DOMAIN ledger : ledger[i].reverses # j
    BY <2>2 DEF Reversed
  <2> QED
    BY <1>5, <2>1, <2>2, <2>3
<1> HIDE DEF new
<1>7. \A i \in 1..(n + 1) : i \in 1..n \/ i = n + 1
  BY <1>5
<1>8. \A i \in 1..n : ledger[i].id = i /\ (ledger[i].reverses # 0 => ledger[i].reverses \in 1..n)
  <2>1. \A i \in 1..n : ledger[i].id = i /\ (ledger[i].reverses # 0 => ledger[i].reverses \in 1..(i - 1))
    BY <1>1, <1>5 DEF UndoneOnce
  <2> QED
    BY <1>5, <2>1
<1>9. \A i \in 1..(n + 1) : all[i].id = i
  BY <1>3, <1>5, <1>7, <1>8
<1>10. ASSUME NEW i \in 1..(n + 1), all[i].reverses # 0
       PROVE  /\ all[i].type = "ADJUST" /\ all[i].reverses \in 1..(i - 1)
              /\ LET c == all[all[i].reverses]
                 IN c.type # "MOVE" /\ c.reverses = 0 /\ c.wine = all[i].wine /\ all[i].delta = - c.delta
  <2>1. CASE i \in 1..n
    <3>1. all[i] = ledger[i] /\ all[ledger[i].reverses] = ledger[ledger[i].reverses]
      BY <1>5, <1>8, <1>10, <2>1
    <3> QED
      BY <1>1, <1>5, <1>10, <2>1, <3>1 DEF UndoneOnce
  <2>2. CASE i = n + 1
    <3>1. all[i] = r /\ all[r.reverses] = m
      BY <1>3, <1>5, <1>6, <2>2
    <3>2. r.reverses \in 1..(i - 1)
      BY <1>3, <1>5, <1>6, <2>2
    <3> HIDE DEF m
    <3> QED
      BY <1>2, <1>3, <3>1, <3>2
  <2> QED
    BY <1>7, <2>1, <2>2
<1>11. ASSUME NEW i \in 1..(n + 1), NEW k \in 1..(n + 1), all[i].reverses # 0, all[i].reverses = all[k].reverses
       PROVE  i = k
  <2>1. CASE i \in 1..n /\ k \in 1..n
    BY <1>1, <1>5, <1>11, <2>1 DEF UndoneOnce
  <2>2. CASE i = n + 1 \/ k = n + 1
    <3>1. all[n + 1].reverses = j /\ \A h \in 1..n : all[h].reverses # j
      BY <1>3, <1>5, <1>6
    <3> QED
      BY <1>7, <1>11, <2>2, <3>1
  <2> QED
    BY <1>7, <2>1, <2>2
<1>12. UndoneOnce(all)
  BY <1>5, <1>9, <1>10, <1>11 DEF UndoneOnce
<1> QED
  BY <1>2, <1>4, <1>12, WrittenKeeps DEF all

\* It is kept by every operation.
LEMMA ViewsInvHolds == ViewsSpec => []ViewsInv
<1>1. ViewsInit => ViewsInv
  <2> SUFFICES ASSUME ViewsInit PROVE ViewsInv
    OBVIOUS
  <2>1. ASSUME NEW w \in Cuvees, NEW p \in Here PROVE BottlesAt(ledger, w, p) >= 0
    <3> DEFINE S == {i \in Of(ledger, w) : ledger[i].place = p}
               column == [i \in S |-> ledger[i].delta]
    <3>1. S = {}
      BY DEF ViewsInit, Of
    <3>2. BottlesAt(ledger, w, p) = Whole(column)
      BY DEF BottlesAt, Moved
    <3>3. DOMAIN column = {}
      BY <3>1
    <3> HIDE DEF column
    <3>4. Whole(column) = SumOf(column, {})
      BY <3>3 DEF Whole, SumOf
    <3> QED
      BY <3>2, <3>4, SumEmpty
  <2>2. ledger = << >> /\ quotes = << >> /\ DOMAIN manual = Cuvees /\ \A w \in Cuvees : manual[w] = NoWindow
    BY DEF ViewsInit
  <2> QED
    BY <2>1, <2>2 DEF ViewsInv, UndoneOnce
<1>2. ViewsInv /\ [ViewsStep]_viewVars => ViewsInv'
  <2> SUFFICES ASSUME ViewsInv, [ViewsStep]_viewVars PROVE ViewsInv'
    OBVIOUS
  <2>0. LastMonth \in Months /\ NoPrice \in Nat /\ 0 \in Nat
    BY LastMonthTyped DEF NoPrice
  <2>1. ASSUME NEW w \in Cuvees, NEW qty \in Nat, NEW p \in Here, NEW price \in Nat,
               NEW m \in Months \union {LastMonth}, EnterBottles(w, qty, p, price, m)
        PROVE  ViewsInv'
    <3>1. m \in Months
      BY <2>0
    <3> DEFINE r == Row(w, qty, "IN", p, price, m, 0)
    <3>2. r \in LedgerRow /\ r.id = Len(ledger) + 1 /\ r.reverses = 0
      <4>1. Row(w, qty, "IN", p, price, m, 0) \in LedgerRow
        BY <2>0, <3>1, RowTyped
      <4>2. r.id = Len(ledger) + 1 /\ r.reverses = 0
        BY DEF Row
      <4> QED
        BY <4>1, <4>2
    <3>3. Written(<<r>>)
      BY <2>1 DEF EnterBottles
    <3> HIDE DEF r
    <3> QED
      BY <3>2, <3>3, PlainRowKeeps
  <2>2. ASSUME NEW w \in Cuvees, NEW p \in Here, TakeBottle(w, p, LastMonth) PROVE ViewsInv'
    <3> DEFINE r == Row(w, -1, "OUT", p, NoPrice, LastMonth, 0)
    <3>1. r \in LedgerRow /\ r.id = Len(ledger) + 1 /\ r.reverses = 0
      <4>1. Row(w, -1, "OUT", p, NoPrice, LastMonth, 0) \in LedgerRow
        BY <2>0, RowTyped
      <4>2. r.id = Len(ledger) + 1 /\ r.reverses = 0
        BY DEF Row
      <4> QED
        BY <4>1, <4>2
    <3>2. Written(<<r>>)
      BY <2>2 DEF TakeBottle
    <3> HIDE DEF r
    <3> QED
      BY <3>1, <3>2, PlainRowKeeps
  <2>3. ASSUME NEW w \in Cuvees, NEW delta \in Int, NEW p \in Here, CountBottles(w, delta, p) PROVE ViewsInv'
    <3> DEFINE r == Row(w, delta, "ADJUST", p, NoPrice, LastMonth, 0)
    <3>1. r \in LedgerRow /\ r.id = Len(ledger) + 1 /\ r.reverses = 0
      <4>1. Row(w, delta, "ADJUST", p, NoPrice, LastMonth, 0) \in LedgerRow
        BY <2>0, RowTyped
      <4>2. r.id = Len(ledger) + 1 /\ r.reverses = 0
        BY DEF Row
      <4> QED
        BY <4>1, <4>2
    <3>2. Written(<<r>>)
      BY <2>3 DEF CountBottles
    <3> HIDE DEF r
    <3> QED
      BY <3>1, <3>2, PlainRowKeeps
  <2>4. ASSUME NEW w \in Cuvees, NEW p \in Here, NEW q \in Here, ShiftBottle(w, p, q) PROVE ViewsInv'
    <3> DEFINE a == Row(w, -1, "MOVE", p, NoPrice, LastMonth, 0)
               b == [Row(w, 1, "MOVE", q, NoPrice, LastMonth, 0) EXCEPT !.id = Len(ledger) + 2]
    <3>1. a \in LedgerRow /\ a.id = Len(ledger) + 1 /\ a.reverses = 0
      <4>1. Row(w, -1, "MOVE", p, NoPrice, LastMonth, 0) \in LedgerRow
        BY <2>0, RowTyped
      <4>2. a.id = Len(ledger) + 1 /\ a.reverses = 0
        BY DEF Row
      <4> QED
        BY <4>1, <4>2
    <3>2. b \in LedgerRow /\ b.id = Len(ledger) + 2 /\ b.reverses = 0
      <4> DEFINE r == Row(w, 1, "MOVE", q, NoPrice, LastMonth, 0)
      <4>1. r \in LedgerRow
        BY <2>0, RowTyped
      <4>2. r.reverses = 0 /\ Len(ledger) + 2 \in Nat
        BY DEF Row, ViewsInv
      <4> HIDE DEF r
      <4>3. [r EXCEPT !.id = Len(ledger) + 2] \in LedgerRow /\ [r EXCEPT !.id = Len(ledger) + 2].id = Len(ledger) + 2
            /\ [r EXCEPT !.id = Len(ledger) + 2].reverses = 0
        BY <4>1, <4>2, RenumberedRow
      <4> QED
        BY <4>3 DEF r
    <3>3. Written(<<a, b>>)
      BY <2>4 DEF ShiftBottle
    <3> HIDE DEF a, b
    <3> DEFINE new == <<a, b>>
    <3>4. new \in Seq(LedgerRow) /\ DOMAIN new = {1, 2} /\ new[1] = a /\ new[2] = b
      BY <3>1, <3>2
    <3>5. \A k \in DOMAIN new : new[k].id = Len(ledger) + k /\ new[k].reverses = 0
      BY <3>1, <3>2, <3>4
    <3>6. Written(new)
      BY <3>3
    <3> HIDE DEF new
    <3> QED
      BY <3>4, <3>5, <3>6, PlainRowsKeep
  <2>5. ASSUME NEW i \in DOMAIN ledger, CancelRow(ledger[i]) PROVE ViewsInv'
    BY <2>5, CancelKeeps
  <2>6. ASSUME NEW w \in Cuvees, NEW window, SetManualApogee(w, window) PROVE ViewsInv'
    <3>1. ledger' = ledger /\ quotes' = quotes /\ manual' = [manual EXCEPT ![w] = window]
          /\ (window # NoWindow => InOrderOfYears(window))
      BY <2>6 DEF SetManualApogee
    <3>2. ASSUME NEW x \in Cuvees PROVE manual'[x] # NoWindow => InOrderOfYears(manual'[x])
      <4>1. manual'[x] = manual[x] \/ manual'[x] = window
        BY <3>1 DEF ViewsInv
      <4> QED
        BY <3>1, <4>1 DEF ViewsInv
    <3>3. DOMAIN manual' = Cuvees
      BY <3>1 DEF ViewsInv
    <3>4. \A x \in Cuvees, p \in Here : BottlesAt(ledger, x, p)' = BottlesAt(ledger, x, p)
      BY <3>1 DEF BottlesAt, Moved, Of
    <3>5. UndoneOnce(ledger)'
      BY <3>1 DEF ViewsInv, UndoneOnce
    <3> QED
      BY <3>1, <3>2, <3>3, <3>4, <3>5 DEF ViewsInv, InOrderOfYears
  <2>7. ASSUME NEW q \in [wine : Cuvees, cote : Nat, on : Months, link : SUBSET Links], AddQuote(q) PROVE ViewsInv'
    <3>1. ledger' = ledger /\ quotes' = Append(quotes, q) /\ manual' = manual
      BY <2>7 DEF AddQuote
    <3>2. quotes' \in Seq(QuoteRow)
      <4>1. QuoteAccepted(q)
        BY <2>7 DEF AddQuote
      <4>2. q.cote \in Nat \ {0}
        BY <4>1, SMT DEF QuoteAccepted
      <4>3. q \in QuoteRow
        BY <4>2 DEF QuoteRow
      <4> QED
        BY <3>1, <4>3 DEF ViewsInv
    <3>3. \A x \in Cuvees, p \in Here : BottlesAt(ledger, x, p)' = BottlesAt(ledger, x, p)
      BY <3>1 DEF BottlesAt, Moved, Of
    <3>4. UndoneOnce(ledger)'
      BY <3>1 DEF ViewsInv, UndoneOnce
    <3> QED
      BY <3>1, <3>2, <3>3, <3>4 DEF ViewsInv, InOrderOfYears
  <2>8. CASE UNCHANGED viewVars
    <3>1. ledger' = ledger /\ quotes' = quotes /\ manual' = manual
      BY <2>8 DEF viewVars
    <3>2. UndoneOnce(ledger)'
      BY <3>1 DEF ViewsInv, UndoneOnce
    <3>3. \A x \in Cuvees, p \in Here : BottlesAt(ledger, x, p)' = BottlesAt(ledger, x, p)
      BY <3>1 DEF BottlesAt, Moved, Of
    <3> QED
      BY <3>1, <3>2, <3>3 DEF ViewsInv, InOrderOfYears
  <2> QED
    BY <2>1, <2>2, <2>3, <2>4, <2>5, <2>6, <2>7, <2>8 DEF ViewsStep
<1> QED
  BY <1>1, <1>2, PTL DEF ViewsSpec

\* The whole of a column is a sum.
LEMMA WholeIsSum == ASSUME NEW column PROVE Whole(column) = SumOf(column, DOMAIN column)
  BY DEF Whole, SumOf

\* So what some movements brought is one of all the deltas, taken there.
LEMMA MovedIsSum ==
  ASSUME ViewsInv, NEW S, S \subseteq DOMAIN ledger
  PROVE  LET deltas == [i \in DOMAIN ledger |-> ledger[i].delta]
         IN /\ IsFiniteSet(S) /\ \A i \in S : deltas[i] = ledger[i].delta /\ deltas[i] \in Int
            /\ Moved(ledger, S) = SumOf(deltas, S) /\ Moved(ledger, S) \in Int
<1> DEFINE deltas == [i \in DOMAIN ledger |-> ledger[i].delta]
           column == [i \in S |-> ledger[i].delta]
<1>1. IsFiniteSet(S)
  <2>1. DOMAIN ledger = 1..Len(ledger) /\ Len(ledger) \in Nat
    BY DEF ViewsInv
  <2>2. IsFiniteSet(DOMAIN ledger)
    BY <2>1, FS_Interval
  <2> QED
    BY <2>2, FS_Subset
<1>2. \A i \in S : deltas[i] = ledger[i].delta /\ column[i] = deltas[i] /\ deltas[i] \in Int
  <2>1. \A i \in DOMAIN ledger : ledger[i] \in LedgerRow
    BY DEF ViewsInv
  <2>2. \A i \in DOMAIN ledger : ledger[i].delta \in Int
    BY <2>1 DEF LedgerRow
  <2> QED
    BY <2>2
<1>3. Moved(ledger, S) = Whole(column) /\ DOMAIN column = S
  BY DEF Moved
<1> HIDE DEF deltas, column
<1>4. Whole(column) = SumOf(column, S)
  BY <1>3, WholeIsSum
<1>5. SumOf(column, S) = SumOf(deltas, S)
  <2>1. \A i \in S : column[i] \in Int /\ column[i] = deltas[i]
    BY <1>2
  <2> QED
    BY <1>1, <2>1, SumSame
<1>6. SumOf(deltas, S) \in Int
  BY <1>1, <1>2, SumInt
<1> QED
  BY <1>1, <1>2, <1>3, <1>4, <1>5, <1>6 DEF deltas

\* The bottles of a wine are those of its places, none of which holds less than nothing.
LEMMA PlacesAddUp ==
  ASSUME ViewsInv, NEW w \in Cuvees
  PROVE  LET at == [p \in Here |-> BottlesAt(ledger, w, p)]
         IN /\ IsFiniteSet(Here) /\ IsFiniteSet(Shelves) /\ NoShelf \notin Shelves
            /\ \A p \in Here : at[p] = BottlesAt(ledger, w, p) /\ at[p] \in Nat
            /\ Bottles(ledger, w) = SumOf(at, Here) /\ Bottles(ledger, w) \in Nat
<1> DEFINE at == [p \in Here |-> BottlesAt(ledger, w, p)]
           deltas == [i \in DOMAIN ledger |-> ledger[i].delta]
           place == [i \in DOMAIN ledger |-> ledger[i].place]
           S == Of(ledger, w)
<1>1. IsFiniteSet(Shelves) /\ NoShelf \notin Shelves /\ IsFiniteSet(Here)
  BY CellarViewsAssumption, FS_AddElement DEF Here
<1>2. S \subseteq DOMAIN ledger /\ \A p \in Here : Group(S, place, p) = {i \in S : ledger[i].place = p}
  BY DEF Of, Group
<1>3. \A i \in S : place[i] \in Here
  <2>1. \A i \in DOMAIN ledger : ledger[i] \in LedgerRow
    BY DEF ViewsInv
  <2>2. \A i \in DOMAIN ledger : ledger[i].place \in Here
    BY <2>1 DEF LedgerRow
  <2> QED
    BY <1>2, <2>2
<1>4. ASSUME NEW p \in Here
      PROVE  at[p] = BottlesAt(ledger, w, p) /\ at[p] = SumOf(deltas, Group(S, place, p)) /\ at[p] \in Nat
  <2> DEFINE T == {i \in S : ledger[i].place = p}
  <2>1. at[p] = BottlesAt(ledger, w, p) /\ BottlesAt(ledger, w, p) = Moved(ledger, T) /\ Group(S, place, p) = T
    BY <1>2 DEF BottlesAt
  <2>2. T \subseteq DOMAIN ledger
    BY <1>2
  <2>3. BottlesAt(ledger, w, p) >= 0
    BY DEF ViewsInv
  <2> HIDE DEF T, deltas, place, at, S
  <2>4. Moved(ledger, T) = SumOf(deltas, T) /\ Moved(ledger, T) \in Int
    BY <2>2, MovedIsSum DEF deltas
  <2> QED
    BY <2>1, <2>3, <2>4
<1>5. Bottles(ledger, w) = Moved(ledger, S)
  BY DEF Bottles
<1> HIDE DEF at, deltas, place, S
<1>6. IsFiniteSet(S) /\ (\A i \in S : deltas[i] \in Int) /\ Moved(ledger, S) = SumOf(deltas, S)
  BY <1>2, MovedIsSum DEF deltas
<1>7. SumOf(at, Here) = SumOf(deltas, S)
  <2>1. \A p \in Here : at[p] = SumOf(deltas, Group(S, place, p))
    BY <1>4
  <2> QED
    BY <1>1, <1>3, <1>6, <2>1, SumGroups
<1>8. SumOf(at, Here) \in Nat
  BY <1>1, <1>4, SumNat
<1> QED
  BY <1>1, <1>4, <1>5, <1>6, <1>7, <1>8 DEF at

\* A page shows the places that hold the wine, each with its bottles, and all of them.
LEMMA PlacesShown ==
  ASSUME ViewsInv, NEW w \in Cuvees
  PROVE  /\ DOMAIN PlacesOf(w) = {p \in Here : BottlesAt(ledger, w, p) > 0}
         /\ Whole(PlacesOf(w)) = Bottles(ledger, w)
         /\ Unplaced(w) = BottlesAt(ledger, w, NoShelf)
<1> DEFINE at == [p \in Here |-> BottlesAt(ledger, w, p)]
           L == Located(w)
           held == [p \in L |-> BottlesAt(ledger, w, p)]
           D == L \union (IF Unplaced(w) > 0 THEN {NoShelf} ELSE {})
           shown == PlacesOf(w)
<1>1. /\ IsFiniteSet(Here) /\ IsFiniteSet(Shelves) /\ NoShelf \notin Shelves
      /\ \A p \in Here : at[p] = BottlesAt(ledger, w, p) /\ at[p] \in Nat
      /\ Bottles(ledger, w) = SumOf(at, Here) /\ Bottles(ledger, w) \in Nat
  BY PlacesAddUp
<1>2. /\ L \subseteq Shelves /\ Shelves \subseteq Here /\ NoShelf \in Here /\ Here \ {NoShelf} = Shelves
      /\ \A p \in L : BottlesAt(ledger, w, p) > 0
      /\ \A p \in Shelves \ L : ~ (BottlesAt(ledger, w, p) > 0)
  BY <1>1 DEF Located, Here
<1>3. IsFiniteSet(L)
  BY <1>1, <1>2, FS_Subset
<1>4. DOMAIN held = L /\ \A p \in L : held[p] = BottlesAt(ledger, w, p)
  OBVIOUS
<1>5. Unplaced(w) = Bottles(ledger, w) - Whole(held)
  BY DEF Unplaced
<1>6. shown = [p \in D |-> IF p = NoShelf THEN Unplaced(w) ELSE BottlesAt(ledger, w, p)]
  BY DEF PlacesOf
<1> HIDE DEF at, held, L, shown
<1>7. SumOf(at, Here) = at[NoShelf] + SumOf(at, Shelves)
  <2>1. \A p \in Here : at[p] \in Int
    BY <1>1
  <2> QED
    BY <1>1, <1>2, <2>1, SumRemove
<1>8. SumOf(at, Shelves) = SumOf(held, L) /\ SumOf(held, L) \in Int
  <2>1. \A p \in Shelves : at[p] \in Int
    BY <1>1, <1>2
  <2>2. \A p \in L : held[p] = at[p] /\ held[p] \in Int
    BY <1>1, <1>2, <1>4
  <2>3. \A p \in Shelves \ L : at[p] = 0
    BY <1>1, <1>2
  <2>4. SumOf(at, Shelves) = SumOf(held, L)
    BY <1>1, <1>2, <2>1, <2>2, <2>3, SumRestrict
  <2> QED
    BY <1>3, <2>2, <2>4, SumInt
<1>9. Whole(held) = SumOf(held, L)
  BY <1>4, WholeIsSum
<1>10. Unplaced(w) = BottlesAt(ledger, w, NoShelf) /\ BottlesAt(ledger, w, NoShelf) \in Nat
  <2>1. at[NoShelf] = BottlesAt(ledger, w, NoShelf) /\ at[NoShelf] \in Nat
    BY <1>1, <1>2
  <2> QED
    BY <1>1, <1>5, <1>7, <1>8, <1>9, <2>1
<1>11. D = {p \in Here : BottlesAt(ledger, w, p) > 0} /\ DOMAIN shown = D
  <2>1. DOMAIN shown = D
    BY <1>6
  <2>2. \A p \in Here : p \in D <=> BottlesAt(ledger, w, p) > 0
    BY <1>1, <1>2, <1>10 DEF Here
  <2>3. D \subseteq Here
    BY <1>2
  <2> QED
    BY <2>1, <2>2, <2>3
<1>12. \A p \in D : shown[p] = at[p]
  BY <1>1, <1>6, <1>10, <1>11
<1>13. SumOf(shown, D) = SumOf(at, Here)
  <2>1. D \subseteq Here /\ \A p \in Here \ D : at[p] = 0
    BY <1>1, <1>11
  <2>2. \A p \in Here : at[p] \in Int
    BY <1>1
  <2> HIDE DEF D
  <2> QED
    BY <1>1, <1>12, <2>1, <2>2, SumRestrict
<1>14. Whole(shown) = SumOf(shown, D)
  BY <1>11, WholeIsSum
<1> QED
  BY <1>1, <1>10, <1>11, <1>13, <1>14 DEF shown

\* A wine is in stock when some place holds it.
LEMMA StockIsSomewhere ==
  ASSUME ViewsInv, NEW w \in Cuvees
  PROVE  Bottles(ledger, w) = 0 <=> DOMAIN PlacesOf(w) = {}
<1> DEFINE at == [p \in Here |-> BottlesAt(ledger, w, p)]
<1>1. /\ IsFiniteSet(Here) /\ \A p \in Here : at[p] = BottlesAt(ledger, w, p) /\ at[p] \in Nat
      /\ Bottles(ledger, w) = SumOf(at, Here)
  BY PlacesAddUp
<1>2. DOMAIN PlacesOf(w) = {p \in Here : at[p] > 0}
  BY <1>1, PlacesShown
<1> HIDE DEF at
<1>3. ASSUME NEW p \in Here, at[p] > 0 PROVE SumOf(at, Here) # 0
  <2>1. (\A x \in Here : at[x] \in Int) /\ IsFiniteSet(Here \ {p}) /\ \A x \in Here \ {p} : at[x] \in Nat
    BY <1>1, FS_Subset
  <2>2. SumOf(at, Here) = at[p] + SumOf(at, Here \ {p})
    BY <1>1, <2>1, SumRemove
  <2>3. SumOf(at, Here \ {p}) \in Nat
    BY <2>1, SumNat
  <2> QED
    BY <1>1, <1>3, <2>2, <2>3
<1>4. ASSUME \A p \in Here : ~ (at[p] > 0) PROVE SumOf(at, Here) = 0
  <2>1. \A p \in Here \ {} : at[p] = 0
    BY <1>1, <1>4
  <2>2. {} \subseteq Here /\ (\A p \in Here : at[p] \in Int) /\ \A p \in {} : at[p] = at[p]
    BY <1>1
  <2>3. SumOf(at, Here) = SumOf(at, {})
    BY <1>1, <2>1, <2>2, SumRestrict
  <2> QED
    BY <2>3, SumEmpty
<1> QED
  BY <1>1, <1>2, <1>3, <1>4

\* A column of the bottles of some wines is a sum of theirs.
LEMMA BottlesSum ==
  ASSUME ViewsInv, NEW S, S \subseteq Cuvees
  PROVE  LET bottles == [w \in Cuvees |-> Bottles(ledger, w)]
         IN /\ IsFiniteSet(S) /\ \A w \in S : bottles[w] = Bottles(ledger, w) /\ bottles[w] \in Nat
            /\ Whole([w \in S |-> Bottles(ledger, w)]) = SumOf(bottles, S)
<1> DEFINE bottles == [w \in Cuvees |-> Bottles(ledger, w)]
           column == [w \in S |-> Bottles(ledger, w)]
<1>1. IsFiniteSet(S)
  BY CellarViewsAssumption, FS_Subset
<1>2. \A w \in S : bottles[w] = Bottles(ledger, w) /\ column[w] = bottles[w] /\ bottles[w] \in Nat
  BY PlacesAddUp
<1>3. DOMAIN column = S
  OBVIOUS
<1> HIDE DEF bottles, column
<1>4. Whole(column) = SumOf(column, S)
  BY <1>3, WholeIsSum
<1>5. SumOf(column, S) = SumOf(bottles, S)
  <2>1. \A w \in S : column[w] \in Int /\ column[w] = bottles[w]
    BY <1>2
  <2> QED
    BY <1>1, <2>1, SumSame
<1> QED
  BY <1>1, <1>2, <1>4, <1>5 DEF bottles, column

\* A breakdown shares out the bottles of the wines in stock, whatever it is by.
LEMMA ShareAddsUp ==
  ASSUME ViewsInv, NEW key
  PROVE  Whole(Share(ledger, key)) = Whole([w \in {x \in Cuvees : Bottles(ledger, x) > 0} |-> Bottles(ledger, w)])
<1> DEFINE stocked == {x \in Cuvees : Bottles(ledger, x) > 0}
           bottles == [w \in Cuvees |-> Bottles(ledger, w)]
           share == Share(ledger, key)
           K == {key[w] : w \in stocked}
<1>1. share = [k \in K |-> Whole([w \in {x \in stocked : key[x] = k} |-> Bottles(ledger, w)])]
  BY DEF Share
<1>2. DOMAIN share = K /\ \A k \in K : share[k] = Whole([w \in Group(stocked, key, k) |-> Bottles(ledger, w)])
  BY <1>1 DEF Group
<1>3. stocked \subseteq Cuvees
  OBVIOUS
<1>4. \A x \in stocked : key[x] \in K
  OBVIOUS
<1>5. IsFiniteSet(K)
  <2>1. IsFiniteSet(stocked)
    BY <1>3, CellarViewsAssumption, FS_Subset
  <2> DEFINE f == [x \in stocked |-> key[x]]
  <2>2. f \in Surjection(stocked, K)
    BY DEF Surjection
  <2> HIDE DEF f, K, stocked
  <2> QED
    BY <2>1, <2>2, FS_Surjection
<1> HIDE DEF stocked, share, K
<1>6. /\ IsFiniteSet(stocked) /\ \A w \in stocked : bottles[w] \in Nat
      /\ Whole([w \in stocked |-> Bottles(ledger, w)]) = SumOf(bottles, stocked)
  BY <1>3, BottlesSum
<1>7. \A k \in K : share[k] = SumOf(bottles, Group(stocked, key, k))
  <2> SUFFICES ASSUME NEW k \in K PROVE share[k] = SumOf(bottles, Group(stocked, key, k))
    OBVIOUS
  <2>1. Group(stocked, key, k) \subseteq Cuvees
    BY <1>3 DEF Group
  <2>2. Whole([w \in Group(stocked, key, k) |-> Bottles(ledger, w)]) = SumOf(bottles, Group(stocked, key, k))
    BY <2>1, BottlesSum
  <2> QED
    BY <1>2, <2>2
<1> HIDE DEF bottles
<1>8. SumOf(share, K) = SumOf(bottles, stocked)
  <2>1. \A w \in stocked : bottles[w] \in Int
    BY <1>6
  <2> QED
    BY <1>4, <1>5, <1>6, <1>7, <2>1, SumGroups
<1>9. Whole(share) = SumOf(share, K)
  BY <1>2, WholeIsSum
<1> QED
  BY <1>6, <1>8, <1>9 DEF stocked, share

\* What is in stock is what the places hold.
LEMMA StockAddsUp ==
  ASSUME ViewsInv
  PROVE  Whole([w \in {x \in Cuvees : Bottles(ledger, x) > 0} |-> Bottles(ledger, w)])
           = Whole([w \in Cuvees |-> Whole(PlacesOf(w))])
<1> DEFINE stocked == {x \in Cuvees : Bottles(ledger, x) > 0}
           bottles == [w \in Cuvees |-> Bottles(ledger, w)]
           shown == [w \in Cuvees |-> Whole(PlacesOf(w))]
<1>1. \A w \in Cuvees : shown[w] = bottles[w]
  BY PlacesShown
<1>2. stocked \subseteq Cuvees /\ \A w \in Cuvees \ stocked : ~ (Bottles(ledger, w) > 0)
  OBVIOUS
<1>3. DOMAIN shown = Cuvees
  OBVIOUS
<1> HIDE DEF stocked, shown
<1>4. Whole([w \in stocked |-> Bottles(ledger, w)]) = SumOf(bottles, stocked)
  BY <1>2, BottlesSum
<1>5. IsFiniteSet(Cuvees) /\ \A w \in Cuvees : bottles[w] = Bottles(ledger, w) /\ bottles[w] \in Nat
  BY BottlesSum
<1> HIDE DEF bottles
<1>6. SumOf(bottles, Cuvees) = SumOf(bottles, stocked)
  <2>1. (\A w \in Cuvees : bottles[w] \in Int) /\ \A w \in Cuvees \ stocked : bottles[w] = 0
    BY <1>2, <1>5
  <2> QED
    BY <1>2, <1>5, <2>1, SumRestrict
<1>7. SumOf(shown, Cuvees) = SumOf(bottles, Cuvees)
  <2>1. \A w \in Cuvees : shown[w] \in Int /\ shown[w] = bottles[w]
    BY <1>1, <1>5
  <2> QED
    BY <1>5, <2>1, SumSame
<1>8. Whole(shown) = SumOf(shown, Cuvees)
  BY <1>3, WholeIsSum
<1> QED
  BY <1>4, <1>6, <1>7, <1>8 DEF stocked, shown

\* The shares of every breakdown add up to the bottles there are, as the places do.
LEMMA SharesOfAllAddUp == ViewsInv => SharesAddUp
<1> SUFFICES ASSUME ViewsInv, NEW now \in Nows
             PROVE  /\ \A share \in {"byColor", "byRegion", "byDecade", "byApogee"} :
                         Whole(Stats(ledger, Cotes, now)[share]) = Stats(ledger, Cotes, now).bottles
                    /\ Stats(ledger, Cotes, now).bottles = Whole([w \in Cuvees |-> Whole(PlacesOf(w))])
  BY DEF SharesAddUp
<1> DEFINE s == Stats(ledger, Cotes, now)
<1>1. s.bottles = Whole([w \in {x \in Cuvees : Bottles(ledger, x) > 0} |-> Bottles(ledger, w)])
  BY DEF Stats
<1>2. /\ s["byColor"] = Share(ledger, [w \in Cuvees |-> Sheet[w].color])
      /\ s["byRegion"] = Share(ledger, [w \in Cuvees |-> Sheet[w].region])
      /\ s["byDecade"] = Share(ledger, [w \in Cuvees |-> (Sheet[w].vintage \div 10) * 10])
      /\ s["byApogee"] = Share(ledger, [w \in Cuvees |-> Status(Apogee(w), now \div 12)])
  BY DEF Stats
<1> HIDE DEF s
<1>3. \A share \in {"byColor", "byRegion", "byDecade", "byApogee"} : Whole(s[share]) = s.bottles
  BY <1>1, <1>2, ShareAddsUp
<1> QED
  BY <1>1, <1>3, StockAddsUp DEF s

\* A place an exit proposes holds the wine, and one is proposed for what is in stock.
LEMMA ProposedPlaces == ViewsInv => ExitProposesAPlace
<1> SUFFICES ASSUME ViewsInv, NEW w \in Cuvees
             PROVE  /\ ExitDefault(w) \subseteq DOMAIN PlacesOf(w)
                    /\ (ExitDefault(w) = {}) <=> (Bottles(ledger, w) = 0)
  BY DEF ExitProposesAPlace
<1> DEFINE kept == {i \in Received(w) : ledger[i].place \in DOMAIN PlacesOf(w)}
           L == Located(w)
           P == DOMAIN PlacesOf(w)
           least == {p \in L : \A q \in L : p <= q}
<1>1. (Bottles(ledger, w) = 0) <=> P = {}
  BY StockIsSomewhere
<1>2. /\ kept # {} => ExitDefault(w) = {ledger[Max(kept)].place}
      /\ kept = {} /\ NoShelf \in P => ExitDefault(w) = {NoShelf}
      /\ kept = {} /\ NoShelf \notin P => ExitDefault(w) = least
  BY DEF ExitDefault
<1>3. kept \subseteq DOMAIN ledger /\ \A i \in kept : ledger[i].place \in P
  BY DEF Received, Of
<1>4. L \subseteq P /\ (NoShelf \notin P => L = P)
  BY PlacesShown, PlacesAddUp DEF Located, Here
<1>5. IsFiniteSet(L) /\ L \subseteq Int
  <2>1. L \subseteq Shelves /\ Shelves \subseteq Int /\ IsFiniteSet(Shelves)
    BY CellarViewsAssumption DEF Located
  <2> HIDE DEF L
  <2> QED
    BY <2>1, FS_Subset
<1>6. kept \subseteq Int /\ IsFiniteSet(kept)
  <2>1. DOMAIN ledger = 1..Len(ledger) /\ Len(ledger) \in Nat
    BY DEF ViewsInv
  <2>2. IsFiniteSet(DOMAIN ledger) /\ DOMAIN ledger \subseteq Int
    BY <2>1, FS_Interval
  <2> HIDE DEF kept
  <2> QED
    BY <1>3, <2>2, FS_Subset
<1> HIDE DEF kept, L, P
<1>7. CASE kept # {}
  <2>1. Max(kept) \in kept
    BY <1>6, <1>7, Ends
  <2>2. ledger[Max(kept)].place \in P
    BY <1>3, <2>1
  <2> QED
    BY <1>1, <1>2, <1>7, <2>2 DEF P
<1>8. CASE kept = {} /\ NoShelf \in P
  BY <1>1, <1>2, <1>8 DEF P
<1>9. CASE kept = {} /\ NoShelf \notin P
  <2>1. least \subseteq P /\ (P = {} => least = {})
    BY <1>4
  <2>2. P # {} => least # {}
    <3> SUFFICES ASSUME P # {} PROVE \E m \in L : \A q \in L : m <= q
      OBVIOUS
    <3>1. L # {}
      BY <1>4, <1>9
    <3> QED
      BY <1>5, <3>1, Ends
  <2> QED
    BY <1>1, <1>2, <1>9, <2>1, <2>2 DEF P
<1> QED
  BY <1>7, <1>8, <1>9

\* Rounding keeps two numbers of years in order, whatever the vintage is worth.
LEMMA RoundingKeepsOrder ==
  ASSUME NEW a \in Nat, NEW b \in Nat, a <= b, NEW vintage \in Nat, NEW factor \in {17, 20, 24}
  PROVE  /\ vintage + (a * factor + 10) \div 20 \in Int /\ vintage + (b * factor + 10) \div 20 \in Int
         /\ vintage + (a * factor + 10) \div 20 <= vintage + (b * factor + 10) \div 20
<1>1. CASE factor = 17
  BY <1>1
<1>2. CASE factor = 20
  BY <1>2
<1>3. CASE factor = 24
  BY <1>3
<1> QED
  BY <1>1, <1>2, <1>3

\* The years kept for a wine are in order: a member's, a rule's or the sheet's.
LEMMA GuardsInOrder ==
  ASSUME NEW w \in Cuvees, GuardFor(Sheet[w]) # NoWindow
  PROVE  InOrderOfYears(GuardFor(Sheet[w]))
<1> DEFINE s == Sheet[w]
<1>1. CASE <<s.appellation, s.color>> \in DOMAIN Guards
  BY <1>1, CellarViewsAssumption DEF GuardFor
<1>2. CASE <<s.appellation, s.color>> \notin DOMAIN Guards /\ s.color = "ROSE"
  <2>1. GuardFor(s) = <<1, 3>>
    BY <1>2 DEF GuardFor
  <2> QED
    BY <2>1 DEF InOrderOfYears
<1>3. CASE <<s.appellation, s.color>> \notin DOMAIN Guards /\ s.color # "ROSE"
  <2>1. GuardFor(s) = IF <<s.appellation, "*">> \in DOMAIN Guards THEN Guards[<<s.appellation, "*">>] ELSE s.guard
    BY <1>3 DEF GuardFor
  <2> QED
    BY <2>1, CellarViewsAssumption
<1> QED
  BY <1>1, <1>2, <1>3

\* A window, typed or estimated, does not end before it begins.
LEMMA ApogeeInOrder ==
  ASSUME ViewsInv, NEW w \in Cuvees, Apogee(w) # NoWindow
  PROVE  Apogee(w)[1] \in Int /\ Apogee(w)[2] \in Int /\ Apogee(w)[1] <= Apogee(w)[2]
<1> DEFINE s == Sheet[w]
           typed == manual[w]
           g == GuardFor(s)
           none == s.vintage = NoYear \/ s.appellation = "" \/ g = NoWindow
           low == s.vintage + (g[1] * Factor(s) + 10) \div 20
           high == s.vintage + (g[2] * Factor(s) + 10) \div 20
<1>1. /\ typed # NoWindow => Apogee(w) = typed
      /\ typed = NoWindow /\ none => Apogee(w) = NoWindow
      /\ typed = NoWindow /\ ~ none => Apogee(w) = <<low, high>>
  BY DEF Apogee, Estimated
<1>2. CASE typed # NoWindow
  <2>1. InOrderOfYears(typed)
    BY <1>2 DEF ViewsInv
  <2>2. Apogee(w) = typed
    BY <1>1, <1>2
  <2> HIDE DEF typed
  <2> QED
    BY <2>1, <2>2 DEF InOrderOfYears
<1>3. CASE typed = NoWindow /\ ~ none
  <2>1. InOrderOfYears(g)
    BY <1>3, GuardsInOrder
  <2>2. g[1] \in Nat /\ g[2] \in Nat /\ g[1] <= g[2]
    BY <2>1 DEF InOrderOfYears
  <2>3. Factor(s) \in {17, 20, 24}
    BY CellarViewsAssumption DEF Factor, VintageFactor
  <2>4. s.vintage \in Nat
    BY CellarViewsAssumption
  <2>5. low \in Int /\ high \in Int /\ low <= high
    <3> HIDE DEF g, s
    <3> QED
      BY <2>2, <2>3, <2>4, RoundingKeepsOrder
  <2>6. Apogee(w) = <<low, high>>
    BY <1>1, <1>3
  <2> HIDE DEF low, high
  <2> QED
    BY <2>5, <2>6
<1> QED
  BY <1>1, <1>2, <1>3

\* What is past or in its last year is to drink soon, and what has no window is not.
LEMMA WindowsInOrder == ViewsInv => WindowsKeepTheirOrder
<1> SUFFICES ASSUME ViewsInv, NEW w \in Cuvees, NEW year \in Int
             PROVE  /\ Apogee(w) # NoWindow => Apogee(w)[1] <= Apogee(w)[2]
                    /\ Status(Apogee(w), year) \in {"PASSEE", "A_BOIRE_VITE"} => Soon(Apogee(w), year)
                    /\ Status(Apogee(w), year) = "SANS_ESTIMATION" => ~ Soon(Apogee(w), year)
  <2>1. 2026..2036 \subseteq Int
    BY SMT
  <2> QED
    BY <2>1 DEF WindowsKeepTheirOrder
<1> DEFINE span == Apogee(w)
<1>1. CASE span = NoWindow
  BY <1>1 DEF Status, Soon
<1>2. CASE span # NoWindow
  <2>1. span[1] \in Int /\ span[2] \in Int /\ span[1] <= span[2]
    BY <1>2, ApogeeInOrder
  <2> HIDE DEF span
  <2>2. CASE year < span[1]
    <3>1. Status(span, year) = "TROP_JEUNE"
      BY <1>2, <2>1, <2>2 DEF Status
    <3> QED
      BY <2>1, <3>1 DEF span
  <2>3. CASE year >= span[1] /\ year >= span[2]
    <3>1. Status(span, year) \in {"PASSEE", "A_BOIRE_VITE"} /\ Soon(span, year)
      BY <1>2, <2>1, <2>3 DEF Status, Soon
    <3> QED
      BY <2>1, <3>1 DEF span
  <2>4. CASE year >= span[1] /\ year < span[2]
    <3>1. Status(span, year) = "A_BOIRE"
      BY <1>2, <2>1, <2>4 DEF Status
    <3> QED
      BY <2>1, <3>1 DEF span
  <2> QED
    BY <2>1, <2>2, <2>3, <2>4
<1> QED
  BY <1>1, <1>2

-----------------------------------------------------------------------------
(* What a member reads of it *)

\* The journal had no bottle a price.
Unpriced == [i \in DOMAIN ledger |-> [ledger[i] EXCEPT !.price = NoPrice]]

\* Without the prices, the same movements of the same wines.
LEMMA UnpricedRows ==
  ASSUME ViewsInv
  PROVE  /\ DOMAIN Unpriced = DOMAIN ledger
         /\ \A i \in DOMAIN ledger :
              /\ Unpriced[i].id = ledger[i].id /\ Unpriced[i].wine = ledger[i].wine /\ Unpriced[i].delta = ledger[i].delta
              /\ Unpriced[i].type = ledger[i].type /\ Unpriced[i].month = ledger[i].month
              /\ Unpriced[i].reverses = ledger[i].reverses
<1>1. \A i \in DOMAIN ledger : ledger[i] \in LedgerRow
  BY DEF ViewsInv
<1> QED
  BY <1>1 DEF Unpriced, LedgerRow

\* So the same bottles, in the same breakdowns, and the same entries and withdrawals.
LEMMA UnpricedCounts ==
  ASSUME ViewsInv
  PROVE  /\ \A S \in SUBSET DOMAIN ledger : Moved(Unpriced, S) = Moved(ledger, S)
         /\ \A w \in Cuvees : Of(Unpriced, w) = Of(ledger, w) /\ Bottles(Unpriced, w) = Bottles(ledger, w)
         /\ Counted(Unpriced) = Counted(ledger)
         /\ \A type, now : Flow(Unpriced, type, now) = Flow(ledger, type, now)
<1>1. ASSUME NEW S \in SUBSET DOMAIN ledger PROVE Moved(Unpriced, S) = Moved(ledger, S)
  <2>1. [i \in S |-> Unpriced[i].delta] = [i \in S |-> ledger[i].delta]
    BY UnpricedRows
  <2> QED
    BY <2>1 DEF Moved
<1>2. ASSUME NEW w \in Cuvees PROVE Of(Unpriced, w) = Of(ledger, w) /\ Bottles(Unpriced, w) = Bottles(ledger, w)
  <2>1. Of(Unpriced, w) = Of(ledger, w) /\ Of(ledger, w) \in SUBSET DOMAIN ledger
    BY UnpricedRows DEF Of
  <2> QED
    BY <1>1, <2>1 DEF Bottles
<1>3. Counted(Unpriced) = Counted(ledger)
  <2>1. Reversed(Unpriced) = Reversed(ledger)
    BY UnpricedRows DEF Reversed
  <2> QED
    BY <2>1, UnpricedRows DEF Counted
<1>4. ASSUME NEW type, NEW now PROVE Flow(Unpriced, type, now) = Flow(ledger, type, now)
  <2> DEFINE S == {i \in Counted(ledger) : ledger[i].type = type /\ ledger[i].month \in Window(now)}
             T == {i \in Counted(Unpriced) : Unpriced[i].type = type /\ Unpriced[i].month \in Window(now)}
  <2>1. S \in SUBSET DOMAIN ledger
    BY DEF Counted
  <2>2. S = T
    <3>1. \A i \in Counted(ledger) : i \in DOMAIN ledger
      BY DEF Counted
    <3> QED
      BY <1>3, <3>1, UnpricedRows
  <2>3. Flow(ledger, type, now) = Moved(ledger, S) /\ Flow(Unpriced, type, now) = Moved(Unpriced, T)
    BY DEF Flow
  <2> HIDE DEF S, T
  <2> QED
    BY <1>1, <2>1, <2>2, <2>3
<1> QED
  BY <1>1, <1>2, <1>3, <1>4

\* The keys of the statistics that no price and no quote enters.
FreeKeys ==
  {"bottles", "references", "byColor", "byRegion", "byDecade", "byApogee", "in", "out", "drinkRate", "yearsLeft", "drunk"}

\* None of them depends on the quotes.
LEMMA FreeOfQuotes ==
  ASSUME NEW list, NEW c, NEW d, NEW now
  PROVE  StatsForRole(Stats(list, c, now), "VIEWER") = StatsForRole(Stats(list, d, now), "VIEWER")
<1> DEFINE a == Stats(list, c, now)
           b == Stats(list, d, now)
<1>1. DOMAIN a = FreeKeys \union PRICE_KEYS /\ DOMAIN b = FreeKeys \union PRICE_KEYS
  BY DEF Stats, FreeKeys, PRICE_KEYS
<1>2. \A k \in FreeKeys : a[k] = b[k]
  <2>1. a["bottles"] = b["bottles"] /\ a["references"] = b["references"] /\ a["byColor"] = b["byColor"]
    BY DEF Stats
  <2>2. a["byRegion"] = b["byRegion"] /\ a["byDecade"] = b["byDecade"] /\ a["byApogee"] = b["byApogee"]
    BY DEF Stats
  <2>3. a["in"] = b["in"] /\ a["out"] = b["out"] /\ a["drinkRate"] = b["drinkRate"]
    BY DEF Stats
  <2>4. a["yearsLeft"] = b["yearsLeft"] /\ a["drunk"] = b["drunk"]
    BY DEF Stats
  <2> HIDE DEF a, b
  <2> QED
    BY <2>1, <2>2, <2>3, <2>4 DEF FreeKeys
<1> HIDE DEF a, b
<1>3. \A k \in (FreeKeys \union PRICE_KEYS) \ PRICE_KEYS : a[k] = b[k]
  BY <1>2
<1> QED
  BY <1>1, <1>3 DEF StatsForRole, a, b

\* What was drunk of each wine.
Drunk(list, now) ==
  [w \in Cuvees |-> - Moved(list, {i \in Counted(list) \cap Of(list, w) : list[i].type = "OUT" /\ list[i].month \in Window(now)})]

\* Journals of the same bottles, entries and withdrawals have the same statistics, but for
\* what prices tell, and all of them with the same last prices.
LEMMA StatsAlike ==
  ASSUME NEW list, NEW other, NEW c, NEW now, \A w \in Cuvees : Bottles(other, w) = Bottles(list, w),
         Flow(other, "IN", now) = Flow(list, "IN", now), Flow(other, "OUT", now) = Flow(list, "OUT", now),
         Drunk(other, now) = Drunk(list, now)
  PROVE  /\ StatsForRole(Stats(other, c, now), "VIEWER") = StatsForRole(Stats(list, c, now), "VIEWER")
         /\ (\A w \in Cuvees : LastPrice(other, w) = LastPrice(list, w)) => Stats(other, c, now) = Stats(list, c, now)
<1> DEFINE a == Stats(other, c, now)
           b == Stats(list, c, now)
           stocked == {w \in Cuvees : Bottles(list, w) > 0}
           Keys == FreeKeys \union PRICE_KEYS
<1>1. DOMAIN a = Keys /\ DOMAIN b = Keys /\ a = [k \in Keys |-> a[k]] /\ b = [k \in Keys |-> b[k]]
  <2>1. DOMAIN a = Keys /\ DOMAIN b = Keys
    BY DEF Stats, FreeKeys, PRICE_KEYS
  <2>2. a = [k \in DOMAIN a |-> a[k]]
    BY DEF Stats
  <2>3. b = [k \in DOMAIN b |-> b[k]]
    BY DEF Stats
  <2> QED
    BY <2>1, <2>2, <2>3
<1>2. stocked = {w \in Cuvees : Bottles(other, w) > 0}
  OBVIOUS
<1>3. \A S \in SUBSET Cuvees : [w \in S |-> Bottles(other, w)] = [w \in S |-> Bottles(list, w)]
  OBVIOUS
<1>4. ASSUME NEW key PROVE Share(other, key) = Share(list, key)
  <2> DEFINE of(k) == {x \in stocked : key[x] = k}
  <2>1. /\ Share(list, key) = [k \in {key[w] : w \in stocked} |-> Whole([w \in of(k) |-> Bottles(list, w)])]
        /\ Share(other, key) = [k \in {key[w] : w \in stocked} |-> Whole([w \in of(k) |-> Bottles(other, w)])]
    BY <1>2 DEF Share
  <2>2. \A k : of(k) \in SUBSET Cuvees
    OBVIOUS
  <2> HIDE DEF of, stocked
  <2> QED
    BY <1>3, <2>1, <2>2
<1>5. a["bottles"] = b["bottles"]
  <2>1. /\ a["bottles"] = Whole([w \in stocked |-> Bottles(other, w)])
        /\ b["bottles"] = Whole([w \in stocked |-> Bottles(list, w)])
    BY <1>2 DEF Stats
  <2>2. stocked \in SUBSET Cuvees
    OBVIOUS
  <2> HIDE DEF stocked, a, b
  <2> QED
    BY <1>3, <2>1, <2>2
<1>6. a["references"] = b["references"]
  BY <1>2 DEF Stats
<1>7. a["byColor"] = b["byColor"] /\ a["byRegion"] = b["byRegion"] /\ a["byDecade"] = b["byDecade"]
      /\ a["byApogee"] = b["byApogee"]
  BY <1>4 DEF Stats
<1>8. a["in"] = b["in"] /\ a["out"] = b["out"] /\ a["drinkRate"] = b["drinkRate"]
  BY DEF Stats
<1>9. a["yearsLeft"] = b["yearsLeft"]
  BY <1>2, <1>3 DEF Stats
<1>10. a["drunk"] = b["drunk"]
  <2>1. a["drunk"] = Drunk(other, now) /\ b["drunk"] = Drunk(list, now)
    BY DEF Stats, Drunk
  <2> HIDE DEF a, b
  <2> QED
    BY <2>1
<1>11. \A k \in FreeKeys : a[k] = b[k]
  <2> HIDE DEF a, b
  <2> QED
    BY <1>5, <1>6, <1>7, <1>8, <1>9, <1>10 DEF FreeKeys
<1>12. StatsForRole(a, "VIEWER") = StatsForRole(b, "VIEWER")
  <2>1. \A k \in Keys \ PRICE_KEYS : a[k] = b[k]
    BY <1>11
  <2> HIDE DEF a, b
  <2> QED
    BY <1>1, <2>1 DEF StatsForRole
<1>13. ASSUME \A w \in Cuvees : LastPrice(other, w) = LastPrice(list, w) PROVE a = b
  <2> DEFINE priced == {w \in stocked : LastPrice(list, w) # NoPrice}
             quoted == {w \in stocked : c[w] # NoPrice}
             spent(L) == [w \in priced |-> Bottles(L, w) * LastPrice(L, w)]
             worth(L) == [w \in quoted |-> Bottles(L, w) * c[w]]
  <2>1. priced = {w \in stocked : LastPrice(other, w) # NoPrice} /\ priced \subseteq Cuvees /\ quoted \subseteq Cuvees
    BY <1>13
  <2>2. spent(other) = spent(list) /\ worth(other) = worth(list)
        /\ [w \in priced |-> LastPrice(other, w)] = [w \in priced |-> LastPrice(list, w)]
    <3> HIDE DEF priced, quoted
    <3> QED
      BY <1>13, <2>1
  <2>3. /\ a["pricedReferences"] = Cardinality(priced) /\ b["pricedReferences"] = Cardinality(priced)
        /\ a["purchaseValue"] = Whole(spent(other)) /\ b["purchaseValue"] = Whole(spent(list))
        /\ a["mostExpensive"] = [w \in priced |-> LastPrice(other, w)]
        /\ b["mostExpensive"] = [w \in priced |-> LastPrice(list, w)]
    BY <1>2, <2>1 DEF Stats
  <2>4. /\ a["quotedValue"] = Whole(worth(other)) /\ b["quotedValue"] = Whole(worth(list))
        /\ a["cessionValue"] = Cession(Whole(worth(other))) /\ b["cessionValue"] = Cession(Whole(worth(list)))
        /\ a["quotedReferences"] = Cardinality(quoted) /\ b["quotedReferences"] = Cardinality(quoted)
        /\ a["quotableReferences"] = Cardinality(stocked) /\ b["quotableReferences"] = Cardinality(stocked)
    BY <1>2 DEF Stats
  <2> HIDE DEF a, b, priced, quoted, spent, worth, stocked
  <2>5. \A k \in PRICE_KEYS : a[k] = b[k]
    BY <2>2, <2>3, <2>4 DEF PRICE_KEYS
  <2>6. \A k \in Keys : a[k] = b[k]
    BY <1>11, <2>5
  <2> HIDE DEF Keys
  <2> QED
    BY <1>1, <2>6
<1> QED
  BY <1>12, <1>13

\* Nor do those keys depend on the prices.
LEMMA FreeOfPrices ==
  ASSUME ViewsInv, NEW c, NEW now
  PROVE  StatsForRole(Stats(Unpriced, c, now), "VIEWER") = StatsForRole(Stats(ledger, c, now), "VIEWER")
<1> DEFINE S(w) == {i \in Counted(ledger) \cap Of(ledger, w) : ledger[i].type = "OUT" /\ ledger[i].month \in Window(now)}
           T(w) == {i \in Counted(ledger) \cap Of(ledger, w) : Unpriced[i].type = "OUT" /\ Unpriced[i].month \in Window(now)}
<1>1. \A w \in Cuvees : S(w) = T(w) /\ S(w) \in SUBSET DOMAIN ledger
  BY UnpricedRows DEF Counted
<1>2. Drunk(Unpriced, now) = [w \in Cuvees |-> - Moved(Unpriced, T(w))]
  BY UnpricedCounts DEF Drunk
<1>3. Drunk(ledger, now) = [w \in Cuvees |-> - Moved(ledger, S(w))]
  BY DEF Drunk
<1> HIDE DEF S, T
<1>4. \A w \in Cuvees : Moved(Unpriced, T(w)) = Moved(ledger, S(w))
  BY <1>1, UnpricedCounts
<1>5. Drunk(Unpriced, now) = Drunk(ledger, now)
  BY <1>2, <1>3, <1>4
<1>6. (\A w \in Cuvees : Bottles(Unpriced, w) = Bottles(ledger, w))
      /\ Flow(Unpriced, "IN", now) = Flow(ledger, "IN", now) /\ Flow(Unpriced, "OUT", now) = Flow(ledger, "OUT", now)
  BY UnpricedCounts
<1> QED
  BY <1>5, <1>6, StatsAlike

\* Of some quotes there is a newest.
LEMMA SomeNewest ==
  ASSUME ViewsInv, NEW among, among \subseteq DOMAIN quotes, among # {}
  PROVE  Newest(among) # {}
<1> DEFINE R == {p \in among \X among : Newer(p[1], p[2])}
<1>1. \A i, j \in among : <<i, j>> \in R <=> Newer(i, j)
  OBVIOUS
<1> HIDE DEF R
<1>2. \A i \in among : i \in Int /\ quotes[i].on \in Int
  <2>1. \A i \in DOMAIN quotes : i \in Int /\ quotes[i] \in QuoteRow
    BY DEF ViewsInv
  <2>2. \A i \in DOMAIN quotes : quotes[i].on \in Months
    BY <2>1 DEF QuoteRow
  <2>3. Months \subseteq Int
    BY CellarViewsAssumption
  <2> QED
    BY <2>1, <2>2, <2>3
<1>3. IsFiniteSet(among)
  <2>1. DOMAIN quotes = 1..Len(quotes) /\ Len(quotes) \in Nat
    BY DEF ViewsInv
  <2>2. IsFiniteSet(DOMAIN quotes)
    BY <2>1, FS_Interval
  <2> QED
    BY <2>2, FS_Subset
<1>4. /\ \A x \in among : <<x, x>> \notin R
      /\ \A x, y, z \in among : <<x, y>> \in R /\ <<y, z>> \in R => <<x, z>> \in R
  BY <1>1, <1>2 DEF Newer
<1>5. PICK m \in among : \A x \in among : <<x, m>> \notin R
  BY <1>3, <1>4, FirstOf
<1>6. \A j \in among \ {m} : Newer(m, j)
  <2>1. \A j \in among : ~ Newer(j, m)
    BY <1>1, <1>5
  <2> QED
    BY <1>2, <2>1 DEF Newer
<1> QED
  BY <1>6 DEF Newest

\* A member reads what there would be without prices and quotes, and a page with a link
\* shows a quote.
LEMMA MembersRead == ViewsInv => MembersReadNoPrice
<1> SUFFICES ASSUME ViewsInv PROVE MembersReadNoPrice
  OBVIOUS
<1>1. ASSUME NEW now
      PROVE  /\ StatsFor("VIEWER", now) = StatsForRole(Stats(Unpriced, NoCotes, now), "VIEWER")
             /\ StatsForRole(Stats(ledger, Cotes, now), "VIEWER") = StatsFor("VIEWER", now)
  <2>1. StatsFor("VIEWER", now) = StatsForRole(Stats(ledger, NoCotes, now), "VIEWER")
    BY DEF StatsFor
  <2> QED
    BY <2>1, FreeOfPrices, FreeOfQuotes
<1>2. ASSUME NEW w \in Cuvees PROVE DOMAIN Detail(w, "VIEWER") \intersect {"quote", "link"} = {}
  <2> DEFINE page == [quantity |-> Bottles(ledger, w), places |-> PlacesOf(w), apogee |-> Apogee(w),
                      exitDefault |-> ExitDefault(w), movements |-> LastRows(w),
                      quote |-> {QuoteView(i) : i \in CurrentQuote(w)}, link |-> SavedLink(w)]
  <2>1. Detail(w, "VIEWER") = [k \in DOMAIN page \ {"quote", "link"} |-> page[k]]
    BY DEF Detail
  <2> HIDE DEF page
  <2> QED
    BY <2>1
<1>3. ASSUME NEW w \in Cuvees, SavedLink(w) # {} PROVE CurrentQuote(w) # {}
  <2>1. QuotesOf(w) # {}
    BY <1>3 DEF SavedLink, Newest
  <2>2. QuotesOf(w) \subseteq DOMAIN quotes
    BY DEF QuotesOf
  <2> QED
    BY <2>1, <2>2, SomeNewest DEF CurrentQuote
<1> QED
  BY <1>1, <1>2, <1>3 DEF MembersReadNoPrice, Unpriced

-----------------------------------------------------------------------------
(* The lists *)

\* In the export the wines of a producer come by vintage too, and those without one last.
LEMMA PrecedesInExport ==
  ASSUME NEW w \in Cuvees, NEW x \in Cuvees
  PROVE  Precedes(w, x, TRUE) <=>
           \/ Sheet[w].producer < Sheet[x].producer
           \/ /\ Sheet[w].producer = Sheet[x].producer /\ Sheet[w].vintage # 0
              /\ Sheet[x].vintage = 0 \/ Sheet[w].vintage < Sheet[x].vintage
<1> DEFINE y == Sheet[w].vintage
           z == Sheet[x].vintage
           first == IF NoYear \in {y, z} THEN y # z /\ (y = NoYear) # TRUE ELSE y < z
<1>1. y \in Nat /\ z \in Nat
  BY CellarViewsAssumption
<1>2. Precedes(w, x, TRUE) <=>
        Sheet[w].producer < Sheet[x].producer \/ (Sheet[w].producer = Sheet[x].producer /\ first)
  BY DEF Precedes
<1> HIDE DEF y, z
<1>3. first <=> y # NoYear /\ (z = NoYear \/ y < z)
  <2>1. CASE NoYear \notin {y, z}
    BY <2>1
  <2>2. CASE y = NoYear
    BY <2>2
  <2>3. CASE y # NoYear /\ z = NoYear
    BY <2>3
  <2> QED
    BY <2>1, <2>2, <2>3
<1> HIDE DEF first
<1> QED
  BY <1>2, <1>3 DEF y, z, NoYear

\* Wines in the order of the database are each listed once, in the list and in the export.
LEMMA InOrderRoll ==
  ASSUME NEW part, part \subseteq Cuvees, NEW nullsLast \in BOOLEAN
  PROVE  Roll(InOrder(part, nullsLast), part)
<1> DEFINE R == {p \in part \X part : Precedes(p[1], p[2], nullsLast)}
           P(w) == Sheet[w].producer
           Y(w) == Sheet[w].vintage
<1>1. \A w, x \in part : <<w, x>> \in R <=> Precedes(w, x, nullsLast)
  OBVIOUS
<1>2. InOrder(part, nullsLast) = Listed(part, R)
  BY DEF InOrder
<1>3. \A w \in Cuvees : P(w) \in Int /\ Y(w) \in Nat
  BY CellarViewsAssumption
<1>4. \A w, x \in Cuvees : P(w) = P(x) /\ Y(w) = Y(x) => w = x
  BY CellarViewsAssumption
<1>5. IsFiniteSet(part)
  BY CellarViewsAssumption, FS_Subset
<1> HIDE DEF R
<1>6. CASE nullsLast = FALSE
  <2>1. \A w, x \in part : <<w, x>> \in R <=> P(w) < P(x) \/ (P(w) = P(x) /\ Y(w) < Y(x))
    BY <1>1, <1>6, PrecedesInList
  <2> HIDE DEF P, Y
  <2>2. ASSUME NEW w \in part, NEW x \in part, w # x PROVE <<w, x>> \in R \/ <<x, w>> \in R
    <3>1. P(w) # P(x) \/ Y(w) # Y(x)
      BY <1>4, <2>2
    <3>2. P(w) \in Int /\ P(x) \in Int /\ Y(w) \in Nat /\ Y(x) \in Nat
      BY <1>3
    <3> QED
      BY <2>1, <3>1, <3>2
  <2>3. Orders(part, R)
    BY <1>3, <2>1, <2>2 DEF Orders
  <2> QED
    BY <1>2, <1>5, <2>3, ListedRoll
<1>7. CASE nullsLast = TRUE
  <2>1. \A w, x \in part :
          <<w, x>> \in R <=> P(w) < P(x) \/ (P(w) = P(x) /\ Y(w) # 0 /\ (Y(x) = 0 \/ Y(w) < Y(x)))
    BY <1>1, <1>7, PrecedesInExport
  <2> HIDE DEF P, Y
  <2>2. ASSUME NEW w \in part, NEW x \in part, w # x PROVE <<w, x>> \in R \/ <<x, w>> \in R
    <3>1. P(w) # P(x) \/ Y(w) # Y(x)
      BY <1>4, <2>2
    <3>2. P(w) \in Int /\ P(x) \in Int /\ Y(w) \in Nat /\ Y(x) \in Nat
      BY <1>3
    <3> QED
      BY <2>1, <3>1, <3>2
  <2>3. \A w, x, y \in part : <<w, x>> \in R /\ <<x, y>> \in R => <<w, y>> \in R
    BY <1>3, <2>1
  <2>4. Orders(part, R)
    BY <1>3, <2>1, <2>2, <2>3 DEF Orders
  <2> QED
    BY <1>2, <1>5, <2>4, ListedRoll
<1> QED
  BY <1>6, <1>7

\* Of two windows one ends first, or they come together.
LEMMA SoonerOrders ==
  ASSUME ViewsInv
  PROVE  /\ \A w \in Cuvees : ~ Sooner(Apogee(w), Apogee(w))
         /\ \A w, x, y \in Cuvees : Sooner(Apogee(w), Apogee(x)) /\ Sooner(Apogee(x), Apogee(y)) => Sooner(Apogee(w), Apogee(y))
         /\ \A w, x, y \in Cuvees : Sooner(Apogee(w), Apogee(y)) => Sooner(Apogee(w), Apogee(x)) \/ Sooner(Apogee(x), Apogee(y))
<1> DEFINE Has(w) == Apogee(w) # NoWindow
           EndOf(w) == Apogee(w)[2]
<1>1. \A w \in Cuvees : Has(w) => EndOf(w) \in Int
  BY ApogeeInOrder
<1>2. \A w, x \in Cuvees : Sooner(Apogee(w), Apogee(x)) <=> Has(w) /\ (~ Has(x) \/ EndOf(w) < EndOf(x))
  BY DEF Sooner
<1> HIDE DEF Has, EndOf
<1> QED
  BY <1>1, <1>2

\* Sorted, a list shows what it showed.
LEMMA SortedRoll ==
  ASSUME ViewsInv, NEW K, K \subseteq Cuvees, NEW list, Roll(list, K), NEW tie, \A w \in Cuvees : tie[w] \in Int
  PROVE  Roll(Sorted(list, tie), K)
<1> DEFINE D == DOMAIN list
           before(i, j) ==
             \/ Sooner(Apogee(list[i]), Apogee(list[j]))
             \/ /\ ~ Sooner(Apogee(list[j]), Apogee(list[i]))
                /\ tie[list[i]] < tie[list[j]] \/ (tie[list[i]] = tie[list[j]] /\ i < j)
           R == {p \in D \X D : before(p[1], p[2])}
<1>1. \A i, j \in D : <<i, j>> \in R <=> before(i, j)
  OBVIOUS
<1>2. Sorted(list, tie) = [k \in D |-> list[Listed(D, R)[k]]]
  BY DEF Sorted
<1>3. \A i \in D : i \in Int /\ list[i] \in Cuvees
  BY DEF Roll
<1> DEFINE S(i, j) == Sooner(Apogee(list[i]), Apogee(list[j]))
           T(i) == tie[list[i]]
<1>4. \A i \in D : T(i) \in Int
  BY <1>3
<1>5. /\ \A i \in D : ~ S(i, i)
      /\ \A i, j, k \in D : S(i, j) /\ S(j, k) => S(i, k)
      /\ \A i, j, k \in D : S(i, k) => S(i, j) \/ S(j, k)
  BY <1>3, SoonerOrders
<1>6. \A i, j \in D : <<i, j>> \in R <=> S(i, j) \/ (~ S(j, i) /\ (T(i) < T(j) \/ (T(i) = T(j) /\ i < j)))
  BY <1>1
<1> HIDE DEF R, S, T, D
<1>7. \A i \in D : <<i, i>> \notin R
  BY <1>3, <1>4, <1>5, <1>6
<1>8. ASSUME NEW i \in D, NEW j \in D, NEW k \in D, <<i, j>> \in R, <<j, k>> \in R PROVE <<i, k>> \in R
  <2>1. S(i, j) \/ (~ S(j, i) /\ (T(i) < T(j) \/ (T(i) = T(j) /\ i < j)))
    BY <1>6, <1>8
  <2>2. S(j, k) \/ (~ S(k, j) /\ (T(j) < T(k) \/ (T(j) = T(k) /\ j < k)))
    BY <1>6, <1>8
  <2>3. S(i, k) \/ (~ S(k, i) /\ (T(i) < T(k) \/ (T(i) = T(k) /\ i < k)))
    BY <1>3, <1>4, <1>5, <2>1, <2>2
  <2> QED
    BY <1>6, <2>3
<1>9. ASSUME NEW i \in D, NEW j \in D, i # j PROVE <<i, j>> \in R \/ <<j, i>> \in R
  <2>1. i \in Int /\ j \in Int /\ T(i) \in Int /\ T(j) \in Int
    BY <1>3, <1>4
  <2> QED
    BY <1>6, <1>9, <2>1
<1>10. Orders(D, R)
  BY <1>7, <1>8, <1>9 DEF Orders
<1> QED
  BY <1>2, <1>10, ReorderedRoll DEF D

\* So it does in the order of the ends of the windows.
LEMMA SortedByEndRoll ==
  ASSUME ViewsInv, NEW K, K \subseteq Cuvees, NEW list, Roll(list, K)
  PROVE  Roll(SortedByEnd(list), K)
<1> DEFINE tie == [w \in Cuvees |-> 0]
<1>1. \A w \in Cuvees : tie[w] \in Int
  OBVIOUS
<1>2. SortedByEnd(list) = Sorted(list, tie)
  BY DEF SortedByEnd
<1> HIDE DEF tie
<1> QED
  BY <1>1, <1>2, SortedRoll

\* The wines a list shows before a dish is looked for.
Timed(f, year) ==
  {w \in Cuvees : Kept(w, f) /\ (f.when = "soon" => w \in SoonOnes(year)) /\ (f.when = "none" => Apogee(w) = NoWindow)}

\* And those it shows.
Offered(f, year) == {w \in Timed(f, year) : f.dish # {} => MatchDish(w, f.dish)}

\* What is to drink soon is shown before the rest.
LEMMA SoonFirstRoll ==
  ASSUME ViewsInv, NEW year, NEW K, K \subseteq Cuvees, NEW list, Roll(list, K)
  PROVE  LET shown == SoonFirst(list, year)
         IN /\ Roll(shown, K)
            /\ \A i, j \in DOMAIN shown : i < j /\ shown[j] \in SoonOnes(year) => shown[i] \in SoonOnes(year)
<1> DEFINE A == SoonOnes(year)
           a == SortedByEnd(Those(list, A))
           b == Those(list, Cuvees \ A)
           shown == a \o b
           soon == K \cap A
           late == K \cap (Cuvees \ A)
<1>1. SoonFirst(list, year) = shown
  BY DEF SoonFirst
<1>2. Roll(Those(list, A), soon)
  BY ThoseRoll
<1>3. Roll(a, soon)
  BY <1>2, SortedByEndRoll
<1>4. Roll(b, late)
  BY ThoseRoll
<1>5. soon \cap late = {} /\ soon \union late = K /\ \A w \in late : w \notin A
  OBVIOUS
<1>6. soon \subseteq A
  OBVIOUS
<1> HIDE DEF A, a, b, soon, late
<1>7. /\ Roll(shown, K)
      /\ \A i \in DOMAIN shown : (i <= Len(a) => shown[i] \in soon) /\ (i > Len(a) => shown[i] \in late)
  BY <1>3, <1>4, <1>5, JoinedRolls
<1>8. Len(a) \in Nat /\ \A i \in DOMAIN shown : i \in Int
  BY <1>3, <1>7 DEF Roll
<1> HIDE DEF shown
<1>9. ASSUME NEW i \in DOMAIN shown, NEW j \in DOMAIN shown, i < j, shown[j] \in A PROVE shown[i] \in A
  <2>1. ~ (j > Len(a))
    BY <1>5, <1>7, <1>9
  <2>2. i <= Len(a)
    BY <1>8, <1>9, <2>1
  <2> QED
    BY <1>6, <1>7, <2>2
<1> QED
  BY <1>1, <1>7, <1>9 DEF A

\* The list shows what the filter keeps, each wine once.
LEMMA ListRoll ==
  ASSUME ViewsInv, NEW f \in Filters, NEW year
  PROVE  /\ Roll(List(f, year), Offered(f, year))
         /\ f.dish = {} => Roll(List(f, year), Timed(f, year))
         /\ f.dish # {} => \A i, j \in DOMAIN List(f, year) :
              i < j /\ List(f, year)[j] \in SoonOnes(year) => List(f, year)[i] \in SoonOnes(year)
<1> DEFINE all == {w \in Cuvees : Kept(w, f)}
           list == InOrder(all, FALSE)
           none == {w \in Cuvees : Apogee(w) = NoWindow}
           withDish == {w \in Cuvees : MatchDish(w, f.dish)}
           timed == CASE f.when = "soon" -> SortedByEnd(Those(list, SoonOnes(year)))
                      [] f.when = "none" -> Those(list, none)
                      [] f.when = "any"  -> list
           T == Timed(f, year)
<1>1. all \subseteq Cuvees /\ f.when \in {"any", "soon", "none"}
  BY DEF Filters
<1>2. Roll(list, all)
  <2> HIDE DEF all
  <2> QED
    BY <1>1, InOrderRoll
<1>3. List(f, year) = IF f.dish = {} THEN timed ELSE SoonFirst(Those(timed, withDish), year)
  BY DEF List
<1>4. /\ f.when = "soon" => T = all \cap SoonOnes(year)
      /\ f.when = "none" => T = all \cap none
      /\ f.when = "any" => T = all
  BY DEF Timed
<1>5. /\ f.dish = {} => Offered(f, year) = T
      /\ f.dish # {} => Offered(f, year) = T \cap withDish
      /\ T \subseteq Cuvees
  BY DEF Offered, Timed
<1> HIDE DEF all, list, none, withDish, T
<1>6. Roll(timed, T)
  <2>1. CASE f.when = "soon"
    <3>1. Roll(Those(list, SoonOnes(year)), T)
      BY <1>2, <1>4, <2>1, ThoseRoll
    <3>2. Roll(SortedByEnd(Those(list, SoonOnes(year))), T)
      BY <1>5, <3>1, SortedByEndRoll
    <3> QED
      BY <2>1, <3>2
  <2>2. CASE f.when = "none"
    <3>1. Roll(Those(list, none), T)
      BY <1>2, <1>4, <2>2, ThoseRoll
    <3> QED
      BY <2>2, <3>1
  <2>3. CASE f.when = "any"
    <3>1. Roll(list, T)
      BY <1>2, <1>4, <2>3
    <3> QED
      BY <2>3, <3>1
  <2> QED
    BY <1>1, <2>1, <2>2, <2>3
<1> HIDE DEF timed
<1>7. CASE f.dish = {}
  BY <1>3, <1>5, <1>6, <1>7 DEF T
<1>8. CASE f.dish # {}
  <2> DEFINE kept == Those(timed, withDish)
  <2>1. Roll(kept, T \cap withDish) /\ T \cap withDish \subseteq Cuvees
    BY <1>5, <1>6, ThoseRoll
  <2>2. List(f, year) = SoonFirst(kept, year)
    BY <1>3, <1>8
  <2> HIDE DEF kept
  <2> QED
    BY <1>5, <1>8, <2>1, <2>2, SoonFirstRoll
<1> QED
  BY <1>7, <1>8

\* A dish loses none of the wines it keeps, and shows what is to drink soon first.
LEMMA DishKeeps == ViewsInv => DishLosesNone
<1> SUFFICES ASSUME ViewsInv, NEW now \in Nows, NEW f \in Filters, f.dish # {}
             PROVE  LET year  == now \div 12
                        shown == List(f, year)
                        all   == List([f EXCEPT !.dish = {}], year)
                    IN /\ ToSet(shown) = {w \in ToSet(all) : MatchDish(w, f.dish)}
                       /\ Len(shown) = Cardinality(ToSet(shown))
                       /\ \A i, j \in DOMAIN shown : i < j /\ Soon(Apogee(shown[j]), year) => Soon(Apogee(shown[i]), year)
  BY DEF DishLosesNone
<1> DEFINE year == now \div 12
           g == [f EXCEPT !.dish = {}]
           shown == List(f, year)
           all == List(g, year)
<1>1. g \in Filters /\ g.dish = {} /\ g.when = f.when /\ g.empty = f.empty /\ g.color = f.color /\ g.at = f.at
  BY DEF Filters
<1>2. Timed(g, year) = Timed(f, year)
  <2>1. \A w \in Cuvees : Kept(w, g) <=> Kept(w, f)
    BY <1>1 DEF Kept
  <2> QED
    BY <1>1, <2>1 DEF Timed
<1> HIDE DEF g, year
<1>3. Roll(shown, Offered(f, year)) /\ Roll(all, Timed(f, year))
  BY <1>1, <1>2, ListRoll
<1>4. \A i, j \in DOMAIN shown : i < j /\ shown[j] \in SoonOnes(year) => shown[i] \in SoonOnes(year)
  BY ListRoll
<1>5. ToSet(shown) = Offered(f, year) /\ Len(shown) = Cardinality(Offered(f, year)) /\ ToSet(all) = Timed(f, year)
  BY <1>3, RollShows
<1>6. Offered(f, year) = {w \in Timed(f, year) : MatchDish(w, f.dish)}
  BY DEF Offered
<1>7. \A i \in DOMAIN shown : shown[i] \in Cuvees
  BY <1>3 DEF Roll, Offered, Timed
<1>8. \A i \in DOMAIN shown : shown[i] \in SoonOnes(year) <=> Soon(Apogee(shown[i]), year)
  BY <1>7 DEF SoonOnes
<1> HIDE DEF shown, all
<1>9. \A i, j \in DOMAIN shown : i < j /\ Soon(Apogee(shown[j]), year) => Soon(Apogee(shown[i]), year)
  BY <1>4, <1>8
<1> QED
  BY <1>5, <1>6, <1>9 DEF shown, all, g, year

-----------------------------------------------------------------------------
(* The quotes *)

\* Of two quotes one is newer.
LEMMA NewerOrders ==
  ASSUME ViewsInv
  PROVE  /\ \A i, j \in DOMAIN quotes : Newer(i, j) => ~ Newer(j, i)
         /\ \A i, j \in DOMAIN quotes : i # j => Newer(i, j) \/ Newer(j, i)
         /\ \A i, j, k \in DOMAIN quotes : Newer(i, j) /\ Newer(j, k) => Newer(i, k)
<1> DEFINE on(i) == quotes[i].on
<1>1. \A i \in DOMAIN quotes : i \in Int /\ on(i) \in Int
  <2>1. \A i \in DOMAIN quotes : i \in Int /\ quotes[i] \in QuoteRow
    BY DEF ViewsInv
  <2>2. Months \subseteq Int
    BY CellarViewsAssumption
  <2> QED
    BY <2>1, <2>2 DEF QuoteRow
<1>2. \A i, j : Newer(i, j) <=> on(i) > on(j) \/ (on(i) = on(j) /\ i > j)
  BY DEF Newer
<1> HIDE DEF on
<1>3. ASSUME NEW i \in DOMAIN quotes, NEW j \in DOMAIN quotes
      PROVE  (Newer(i, j) => ~ Newer(j, i)) /\ (i # j => Newer(i, j) \/ Newer(j, i))
  <2>1. i \in Int /\ j \in Int /\ on(i) \in Int /\ on(j) \in Int
    BY <1>1
  <2> QED
    BY <1>2, <2>1
<1>4. \A i, j, k \in DOMAIN quotes : Newer(i, j) /\ Newer(j, k) => Newer(i, k)
  BY <1>1, <1>2
<1> QED
  BY <1>3, <1>4

\* What is newer than the others is the newest.
LEMMA NewestIs ==
  ASSUME ViewsInv, NEW among, among \subseteq DOMAIN quotes, NEW i \in among, \A j \in among \ {i} : Newer(i, j)
  PROVE  Newest(among) = {i}
<1>1. i \in Newest(among)
  BY DEF Newest
<1>2. ASSUME NEW k \in Newest(among), k # i PROVE FALSE
  <2>1. k \in among /\ Newer(k, i)
    BY <1>2 DEF Newest
  <2>2. Newer(i, k)
    BY <1>2, <2>1
  <2> QED
    BY <2>1, <2>2, NewerOrders
<1> QED
  BY <1>1, <1>2

\* The quotes of a wine among the first n.
FirstQuotes(w, n) == QuotesOf(w) \cap (1..n)

\* The newest of those, 0 without one.
LatestOf(w, n) == IF FirstQuotes(w, n) = {} THEN 0 ELSE CHOOSE i \in Newest(FirstQuotes(w, n)) : TRUE

\* Of some quotes of a wine it is one, newer than the others.
LEMMA LatestIsNewest ==
  ASSUME ViewsInv, NEW w, NEW n \in 0..Len(quotes), FirstQuotes(w, n) # {}
  PROVE  /\ LatestOf(w, n) \in FirstQuotes(w, n) /\ LatestOf(w, n) \in DOMAIN quotes /\ LatestOf(w, n) # 0
         /\ \A j \in FirstQuotes(w, n) \ {LatestOf(w, n)} : Newer(LatestOf(w, n), j)
         /\ Newest(FirstQuotes(w, n)) = {LatestOf(w, n)}
<1> DEFINE S == FirstQuotes(w, n)
           i == LatestOf(w, n)
<1>1. S \subseteq DOMAIN quotes /\ \A k \in DOMAIN quotes : k # 0
  BY DEF FirstQuotes, QuotesOf, ViewsInv
<1>2. Newest(S) # {}
  BY <1>1, SomeNewest
<1>3. i \in Newest(S)
  BY <1>2 DEF LatestOf
<1> HIDE DEF i
<1>4. i \in S /\ \A j \in S \ {i} : Newer(i, j)
  BY <1>3 DEF Newest
<1> HIDE DEF S
<1>5. Newest(S) = {i}
  BY <1>1, <1>4, NewestIs
<1> QED
  BY <1>1, <1>4, <1>5 DEF S, i

\* One pass over the quotes, the best of the first n for every n.
PassOver(best, n) ==
  LET w == quotes[n].wine
  IN IF best[w] = 0 \/ Newer(n, best[w]) THEN [best EXCEPT ![w] = n] ELSE best

OnePass(g) ==
  g = [n \in 0..Len(quotes) |-> IF n = 0 THEN [w \in Cuvees |-> 0] ELSE PassOver(g[n - 1], n)]

\* The newest quote of every wine, among the first n.
PassAfter(n) == [w \in Cuvees |-> LatestOf(w, n)]

\* A step of the pass takes the newest of the quotes there were to that of one more.
LEMMA PassTakesNewest ==
  ASSUME ViewsInv, NEW n \in 1..Len(quotes)
  PROVE  PassOver(PassAfter(n - 1), n) = PassAfter(n)
<1> DEFINE w == quotes[n].wine
           S(x) == FirstQuotes(x, n - 1)
           T(x) == FirstQuotes(x, n)
           best == PassAfter(n - 1)
           b == LatestOf(w, n - 1)
<1>1. Len(quotes) \in Nat /\ DOMAIN quotes = 1..Len(quotes) /\ n \in DOMAIN quotes /\ n # 0
      /\ n - 1 \in 0..Len(quotes) /\ n \in 0..Len(quotes)
  BY DEF ViewsInv
<1>2. w \in Cuvees
  <2>1. quotes[n] \in QuoteRow
    BY <1>1 DEF ViewsInv
  <2> QED
    BY <2>1 DEF QuoteRow
<1>3. \A x : T(x) \subseteq DOMAIN quotes /\ T(x) = S(x) \union (IF x = w THEN {n} ELSE {})
  BY <1>1 DEF FirstQuotes, QuotesOf
<1>4. \A x \in S(w) : x # n
  BY <1>1 DEF FirstQuotes
<1>5. best = [x \in Cuvees |-> LatestOf(x, n - 1)] /\ best[w] = b
  BY <1>2 DEF PassAfter
<1>6. PassOver(best, n) = IF b = 0 \/ Newer(n, b) THEN [best EXCEPT ![w] = n] ELSE best
  BY <1>5 DEF PassOver
<1>7. S(w) = {} => b = 0
  BY DEF LatestOf
<1>8. S(w) # {} => b \in S(w) /\ b # 0 /\ \A j \in S(w) \ {b} : Newer(b, j)
  BY <1>1, LatestIsNewest
<1> HIDE DEF b, w, best
<1>9. ASSUME NEW x \in Cuvees, x # w PROVE LatestOf(x, n) = LatestOf(x, n - 1)
  <2>1. FirstQuotes(x, n) = FirstQuotes(x, n - 1)
    BY <1>3, <1>9
  <2> QED
    BY <2>1 DEF LatestOf
<1>10. T(w) # {} /\ n \in T(w) /\ T(w) = S(w) \union {n} /\ T(w) \subseteq DOMAIN quotes
  BY <1>3
<1>11. ASSUME NEW i \in T(w), \A j \in T(w) \ {i} : Newer(i, j) PROVE LatestOf(w, n) = i
  <2>1. Newest(T(w)) = {i}
    BY <1>10, <1>11, NewestIs
  <2>2. Newest(T(w)) = {LatestOf(w, n)}
    BY <1>1, <1>10, LatestIsNewest
  <2> QED
    BY <2>1, <2>2
<1> HIDE DEF S, T
<1>12. CASE b = 0 \/ Newer(n, b)
  <2>1. \A j \in T(w) \ {n} : Newer(n, j)
    <3>1. CASE S(w) = {}
      BY <1>10, <3>1
    <3>2. CASE S(w) # {}
      <4>1. b \in DOMAIN quotes /\ Newer(n, b) /\ \A j \in S(w) : j \in DOMAIN quotes
        BY <1>8, <1>10, <1>12, <3>2
      <4>2. \A j \in S(w) : Newer(n, j)
        BY <1>1, <1>8, <3>2, <4>1, NewerOrders
      <4> QED
        BY <1>10, <4>2
    <3> QED
      BY <3>1, <3>2
  <2>2. LatestOf(w, n) = n
    BY <1>10, <1>11, <2>1
  <2> QED
    BY <1>2, <1>5, <1>6, <1>9, <1>12, <2>2 DEF PassAfter
<1>13. CASE ~ (b = 0 \/ Newer(n, b))
  <2>1. S(w) # {}
    BY <1>7, <1>13
  <2>2. b \in S(w) /\ b # n /\ b \in DOMAIN quotes
    BY <1>4, <1>8, <1>10, <2>1
  <2>3. Newer(b, n)
    BY <1>1, <1>13, <2>2, NewerOrders
  <2>4. \A j \in T(w) \ {b} : Newer(b, j)
    BY <1>8, <1>10, <2>1, <2>3
  <2>5. LatestOf(w, n) = b
    BY <1>10, <1>11, <2>2, <2>4
  <2>6. \A x \in Cuvees : LatestOf(x, n) = best[x]
    BY <1>2, <1>5, <1>9, <2>5
  <2> QED
    BY <1>5, <1>6, <1>13, <2>6 DEF PassAfter
<1> QED
  BY <1>12, <1>13 DEF best

\* So the pass ends with the newest quote of every wine.
LEMMA PassIsNewest ==
  ASSUME ViewsInv
  PROVE  CurrentByWine = [w \in Cuvees |-> LatestOf(w, Len(quotes))]
<1> DEFINE N == Len(quotes)
           A == [n \in 0..N |-> PassAfter(n)]
           B == CHOOSE g : OnePass(g)
           Bad == {n \in 0..N : B[n] # A[n]}
<1>1. N \in Nat
  BY DEF ViewsInv
<1>2. PassAfter(0) = [w \in Cuvees |-> 0]
  <2>1. \A w : FirstQuotes(w, 0) = {}
    BY DEF FirstQuotes
  <2> QED
    BY <2>1 DEF PassAfter, LatestOf
<1>3. \A n \in 0..N : n # 0 => n \in 1..N /\ n - 1 \in 0..N
  BY <1>1
<1>4. OnePass(A)
  <2>1. \A n \in 0..N : A[n] = IF n = 0 THEN [w \in Cuvees |-> 0] ELSE PassOver(A[n - 1], n)
    <3> SUFFICES ASSUME NEW n \in 0..N PROVE A[n] = IF n = 0 THEN [w \in Cuvees |-> 0] ELSE PassOver(A[n - 1], n)
      OBVIOUS
    <3>1. CASE n = 0
      BY <1>2, <3>1
    <3>2. CASE n # 0
      <4>1. n \in 1..N /\ A[n - 1] = PassAfter(n - 1) /\ A[n] = PassAfter(n)
        BY <1>3, <3>2
      <4> QED
        BY <3>2, <4>1, PassTakesNewest
    <3> QED
      BY <3>1, <3>2
  <2> QED
    BY <2>1 DEF OnePass
<1> HIDE DEF A
<1>5. OnePass(B)
  BY <1>4
<1> HIDE DEF B
<1>6. Bad = {}
  <2> SUFFICES ASSUME Bad # {} PROVE FALSE
    OBVIOUS
  <2>1. Bad \subseteq Int /\ IsFiniteSet(Bad)
    <3>1. IsFiniteSet(0..N) /\ 0..N \subseteq Int
      BY <1>1, FS_Interval
    <3>2. Bad \subseteq 0..N
      OBVIOUS
    <3> HIDE DEF Bad
    <3> QED
      BY <3>1, <3>2, FS_Subset
  <2> HIDE DEF Bad
  <2>2. PICK m \in Bad : \A x \in Bad : m <= x
    BY <2>1, Ends
  <2>3. m \in 0..N /\ B[m] # A[m]
    BY <2>2 DEF Bad
  <2>4. /\ A[m] = IF m = 0 THEN [w \in Cuvees |-> 0] ELSE PassOver(A[m - 1], m)
        /\ B[m] = IF m = 0 THEN [w \in Cuvees |-> 0] ELSE PassOver(B[m - 1], m)
    BY <1>4, <1>5, <2>3 DEF OnePass
  <2>5. m # 0
    BY <2>3, <2>4
  <2>6. m - 1 \in 0..N /\ m - 1 \notin Bad
    BY <1>3, <2>1, <2>2, <2>3, <2>5
  <2>7. B[m - 1] = A[m - 1]
    BY <2>6 DEF Bad
  <2> QED
    BY <2>3, <2>4, <2>5, <2>7
<1>7. BestOfFirst = B
  BY DEF BestOfFirst, OnePass, PassOver, B
<1>8. B[N] = A[N] /\ N \in 0..N
  BY <1>1, <1>6
<1> QED
  BY <1>7, <1>8 DEF CurrentByWine, A, PassAfter

\* The quote of the statistics and of the export is the one on the wine's page.
LEMMA SameQuoteEverywhere ==
  ASSUME ViewsInv, NEW w \in Cuvees
  PROVE  /\ CurrentQuote(w) = (IF CurrentByWine[w] = 0 THEN {} ELSE {CurrentByWine[w]})
         /\ CurrentByWine[w] # 0 => CurrentByWine[w] \in DOMAIN quotes /\ quotes[CurrentByWine[w]].cote \in Nat \ {0}
<1> DEFINE N == Len(quotes)
           i == CurrentByWine[w]
<1>1. N \in Nat /\ DOMAIN quotes = 1..N /\ N \in 0..N
  BY DEF ViewsInv
<1>2. FirstQuotes(w, N) = QuotesOf(w)
  BY <1>1 DEF FirstQuotes, QuotesOf
<1>3. i = LatestOf(w, N)
  BY PassIsNewest
<1> HIDE DEF i
<1>4. CASE QuotesOf(w) = {}
  <2>1. i = 0 /\ CurrentQuote(w) = {}
    BY <1>2, <1>3, <1>4 DEF LatestOf, CurrentQuote, Newest
  <2> QED
    BY <2>1 DEF i
<1>5. CASE QuotesOf(w) # {}
  <2>1. i \in DOMAIN quotes /\ i # 0 /\ CurrentQuote(w) = {i}
    BY <1>1, <1>2, <1>3, <1>5, LatestIsNewest DEF CurrentQuote
  <2>2. quotes[i] \in QuoteRow
    BY <2>1 DEF ViewsInv
  <2>3. quotes[i].cote \in Nat \ {0}
    BY <2>2 DEF QuoteRow
  <2> QED
    BY <2>1, <2>3 DEF i
<1> QED
  BY <1>4, <1>5

-----------------------------------------------------------------------------
(* The list, the export, the page and the places *)

\* What the export shows.
Exportable(color, soon, year) ==
  {w \in Cuvees : Bottles(ledger, w) > 0 /\ color \in {"", Sheet[w].color} /\ (soon => w \in SoonOnes(year))}

\* It shows each wine once.
LEMMA ExportRoll ==
  ASSUME ViewsInv, NEW color, NEW soon \in BOOLEAN, NEW year
  PROVE  Roll(Exported(color, soon, year), Exportable(color, soon, year))
<1> DEFINE all == {w \in Cuvees : Bottles(ledger, w) > 0 /\ color \in {"", Sheet[w].color}}
           list == InOrder(all, TRUE)
           A == SoonOnes(year)
           E == Exportable(color, soon, year)
<1>1. Exported(color, soon, year) = IF soon THEN SortedByEnd(Those(list, A)) ELSE list
  BY DEF Exported
<1>2. all \subseteq Cuvees /\ E = (IF soon THEN all \cap A ELSE all)
  BY DEF Exportable
<1> HIDE DEF all, E, A
<1>3. Roll(list, all)
  BY <1>2, InOrderRoll
<1> HIDE DEF list
<1>4. Roll(Those(list, A), all \cap A)
  BY <1>3, ThoseRoll
<1>5. Roll(SortedByEnd(Those(list, A)), all \cap A)
  BY <1>2, <1>4, SortedByEndRoll
<1> QED
  BY <1>1, <1>2, <1>3, <1>5 DEF E

\* The list without a dish or a place shows what the export does.
LEMMA ListIsExport ==
  ASSUME ViewsInv, NEW f \in Filters, ~ f.empty, f.when # "none", f.dish = {}, f.at = {}, NEW year
  PROVE  ToSet(List(f, year)) = ToSet(Exported(f.color, f.when = "soon", year))
<1>1. \A w \in Cuvees : Kept(w, f) <=> Bottles(ledger, w) > 0 /\ f.color \in {"", Sheet[w].color}
  BY DEF Kept
<1>2. Timed(f, year) = Exportable(f.color, f.when = "soon", year)
  BY <1>1 DEF Timed, Exportable
<1>3. ToSet(List(f, year)) = Timed(f, year)
  BY ListRoll, RollShows
<1>4. (f.when = "soon") \in BOOLEAN
  OBVIOUS
<1>5. ToSet(Exported(f.color, f.when = "soon", year)) = Exportable(f.color, f.when = "soon", year)
  BY <1>4, ExportRoll, RollShows
<1> QED
  BY <1>2, <1>3, <1>5

\* The price of the export is that of the statistics.
LEMMA SamePrice == ASSUME NEW w PROVE ExportedPrice(w) = LastPrice(ledger, w)
<1> DEFINE a == {i \in Of(ledger, w) : ledger[i].type = "IN" /\ ledger[i].price # NoPrice /\ ledger[i].id \notin Reversed(ledger)}
           b == {i \in Counted(ledger) \cap Of(ledger, w) : ledger[i].type = "IN" /\ ledger[i].price # NoPrice}
<1>1. a = b
  BY DEF Counted, Of
<1>2. /\ ExportedPrice(w) = (IF a = {} THEN NoPrice ELSE ledger[Max(a)].price)
      /\ LastPrice(ledger, w) = (IF b = {} THEN NoPrice ELSE ledger[Max(b)].price)
  BY DEF ExportedPrice, LastPrice
<1> HIDE DEF a, b
<1> QED
  BY <1>1, <1>2

\* What the export quotes of its wines adds up to what the statistics do.
LEMMA SameQuotedValue ==
  ASSUME ViewsInv, NEW now, NEW year
  PROVE  StatsFor("OWNER", now).quotedValue =
           Whole([w \in ToSet(Exported("", FALSE, year)) |-> SheetLine(w).quotedValue])
<1> DEFINE stocked == {w \in Cuvees : Bottles(ledger, w) > 0}
           quoted == {w \in stocked : Cotes[w] # NoPrice}
           f == [w \in quoted |-> Bottles(ledger, w) * Cotes[w]]
           h == [w \in stocked |-> SheetLine(w).quotedValue]
           s == Stats(ledger, Cotes, now)
<1>1. StatsFor("OWNER", now).quotedValue = Whole(f)
  <2>1. s.quotedValue = Whole(f) /\ "quotedValue" \in DOMAIN s
    BY DEF Stats
  <2>2. StatsFor("OWNER", now) = [k \in DOMAIN s \ {} |-> s[k]]
    BY DEF StatsFor, StatsForRole
  <2> HIDE DEF s, f
  <2> QED
    BY <2>1, <2>2
<1>2. ToSet(Exported("", FALSE, year)) = stocked
  <2>1. ToSet(Exported("", FALSE, year)) = Exportable("", FALSE, year)
    BY ExportRoll, RollShows
  <2> QED
    BY <2>1 DEF Exportable
<1>3. quoted \subseteq stocked /\ stocked \subseteq Cuvees /\ IsFiniteSet(stocked)
  <2>1. quoted \subseteq stocked /\ stocked \subseteq Cuvees
    OBVIOUS
  <2> HIDE DEF stocked
  <2> QED
    BY <2>1, CellarViewsAssumption, FS_Subset
<1>4. \A w \in stocked : h[w] = Bottles(ledger, w) * Cotes[w]
  BY DEF SheetLine
<1>5. \A w \in Cuvees : Cotes[w] \in Int /\ Bottles(ledger, w) \in Int
  <2> SUFFICES ASSUME NEW w \in Cuvees PROVE Cotes[w] \in Int /\ Bottles(ledger, w) \in Int
    OBVIOUS
  <2>1. Cotes[w] = IF CurrentByWine[w] = 0 THEN NoPrice ELSE quotes[CurrentByWine[w]].cote
    BY DEF Cotes
  <2>2. Bottles(ledger, w) \in Nat
    BY PlacesAddUp
  <2> QED
    BY <2>1, <2>2, SameQuoteEverywhere DEF NoPrice
<1>6. \A w \in quoted : f[w] = Bottles(ledger, w) * Cotes[w]
  OBVIOUS
<1>7. \A w \in stocked \ quoted : Cotes[w] = 0
  BY DEF NoPrice
<1>8. DOMAIN f = quoted /\ DOMAIN h = stocked
  OBVIOUS
<1> HIDE DEF f, h, stocked, quoted
<1>9. SumOf(h, stocked) = SumOf(f, quoted)
  <2>1. \A w \in stocked : h[w] \in Int
    BY <1>3, <1>4, <1>5
  <2>2. \A w \in quoted : f[w] = h[w]
    BY <1>3, <1>4, <1>6
  <2>3. \A w \in stocked \ quoted : h[w] = 0
    BY <1>3, <1>4, <1>5, <1>7
  <2> QED
    BY <1>3, <2>1, <2>2, <2>3, SumRestrict
<1>10. Whole(f) = SumOf(f, quoted) /\ Whole(h) = SumOf(h, stocked)
  BY <1>8, WholeIsSum
<1> QED
  BY <1>1, <1>2, <1>9, <1>10 DEF h

\* A line of the export says what the page of its wine does.
LEMMA LineIsPage ==
  ASSUME ViewsInv, NEW w \in Cuvees
  PROVE  LET line == SheetLine(w)
             seen == Detail(w, "OWNER")
         IN /\ {q.cote : q \in seen.quote} = {line.cote} \ {NoPrice} /\ {q.on : q \in seen.quote} = line.quotedOn
            /\ \A k \in {"quantity", "places", "apogee"} : seen[k] = line[k]
<1> DEFINE line == SheetLine(w)
           seen == Detail(w, "OWNER")
           i == CurrentByWine[w]
           page == [quantity |-> Bottles(ledger, w), places |-> PlacesOf(w), apogee |-> Apogee(w),
                    exitDefault |-> ExitDefault(w), movements |-> LastRows(w),
                    quote |-> {QuoteView(k) : k \in CurrentQuote(w)}, link |-> SavedLink(w)]
<1>1. seen = [k \in DOMAIN page \ {} |-> page[k]]
  BY DEF Detail
<1>2. /\ seen.quote = {QuoteView(k) : k \in CurrentQuote(w)}
      /\ seen["quantity"] = Bottles(ledger, w) /\ seen["places"] = PlacesOf(w) /\ seen["apogee"] = Apogee(w)
  <2>1. /\ "quote" \in DOMAIN page /\ "quantity" \in DOMAIN page /\ "places" \in DOMAIN page /\ "apogee" \in DOMAIN page
        /\ page.quote = {QuoteView(k) : k \in CurrentQuote(w)}
        /\ page["quantity"] = Bottles(ledger, w) /\ page["places"] = PlacesOf(w) /\ page["apogee"] = Apogee(w)
    OBVIOUS
  <2> HIDE DEF page, seen
  <2> QED
    BY <1>1, <2>1
<1>3. /\ line["quantity"] = Bottles(ledger, w) /\ line["places"] = PlacesOf(w) /\ line["apogee"] = Apogee(w)
      /\ line.cote = Cotes[w] /\ line.quotedOn = IF i = 0 THEN {} ELSE {quotes[i].on}
  BY DEF SheetLine
<1>4. Cotes[w] = IF i = 0 THEN NoPrice ELSE quotes[i].cote
  BY DEF Cotes
<1>5. CurrentQuote(w) = (IF i = 0 THEN {} ELSE {i}) /\ (i # 0 => quotes[i].cote \in Nat \ {0})
  BY SameQuoteEverywhere
<1> HIDE DEF line, seen, i
<1>6. {q.cote : q \in seen.quote} = {line.cote} \ {NoPrice} /\ {q.on : q \in seen.quote} = line.quotedOn
  <2>1. CASE i = 0
    <3>1. seen.quote = {}
      BY <1>2, <1>5, <2>1
    <3> QED
      BY <1>3, <1>4, <2>1, <3>1
  <2>2. CASE i # 0
    <3>1. seen.quote = {QuoteView(i)}
      BY <1>2, <1>5, <2>2
    <3>2. QuoteView(i).cote = quotes[i].cote /\ QuoteView(i).on = quotes[i].on
      BY DEF QuoteView
    <3>3. quotes[i].cote # NoPrice
      BY <1>5, <2>2 DEF NoPrice
    <3>4. {q.cote : q \in seen.quote} = {quotes[i].cote} /\ {q.on : q \in seen.quote} = {quotes[i].on}
      BY <3>1, <3>2
    <3> QED
      BY <1>3, <1>4, <2>2, <3>3, <3>4
  <2> QED
    BY <2>1, <2>2
<1> QED
  BY <1>2, <1>3, <1>6 DEF line, seen

\* The filter on a place keeps the wines whose page shows that place.
LEMMA FilterIsPage ==
  ASSUME ViewsInv, NEW w \in Cuvees, NEW p \in Here
  PROVE  (w \in WinesAt(p)) <=> p \in DOMAIN PlacesOf(w)
<1> DEFINE at == [q \in Here |-> BottlesAt(ledger, w, q)]
           all == [q \in Shelves \union {NoShelf} |-> BottlesAt(ledger, w, q)]
           known == [q \in Shelves |-> Max({0, BottlesAt(ledger, w, q)})]
<1>1. p \in DOMAIN PlacesOf(w) <=> BottlesAt(ledger, w, p) > 0
  BY PlacesShown
<1>2. CASE p # NoShelf
  <2>1. WinesAt(p) = {x \in Cuvees : BottlesAt(ledger, x, p) > 0}
    BY <1>2 DEF WinesAt
  <2> QED
    BY <1>1, <2>1
<1>3. CASE p = NoShelf
  <2>1. w \in WinesAt(p) <=> Whole(all) > Whole(known)
    BY <1>3 DEF WinesAt
  <2>2. /\ IsFiniteSet(Here) /\ IsFiniteSet(Shelves) /\ NoShelf \notin Shelves
        /\ \A q \in Here : at[q] = BottlesAt(ledger, w, q) /\ at[q] \in Nat
    BY PlacesAddUp
  <2>3. Here = Shelves \union {NoShelf} /\ Here \ {NoShelf} = Shelves /\ NoShelf \in Here /\ Shelves \subseteq Here
    BY <2>2 DEF Here
  <2>4. all = at /\ DOMAIN at = Here /\ DOMAIN known = Shelves
    BY <2>3
  <2>5. \A q \in Shelves : known[q] = at[q]
    <3> SUFFICES ASSUME NEW q \in Shelves PROVE known[q] = at[q]
      OBVIOUS
    <3>1. BottlesAt(ledger, w, q) \in Nat /\ at[q] = BottlesAt(ledger, w, q)
      BY <2>2, <2>3
    <3>2. ASSUME NEW b \in Nat PROVE Max({0, b}) = b
      BY DEF Max
    <3> QED
      BY <3>1, <3>2
  <2> HIDE DEF at, all, known
  <2>6. SumOf(at, Here) = at[NoShelf] + SumOf(at, Shelves)
    <3>1. \A q \in Here : at[q] \in Int
      BY <2>2
    <3> QED
      BY <2>2, <2>3, <3>1, SumRemove
  <2>7. SumOf(known, Shelves) = SumOf(at, Shelves) /\ SumOf(at, Shelves) \in Int
    <3>1. \A q \in Shelves : at[q] \in Int /\ known[q] \in Int /\ known[q] = at[q]
      BY <2>2, <2>3, <2>5
    <3> QED
      BY <2>2, <3>1, SumSame, SumInt
  <2>8. Whole(all) = SumOf(at, Here) /\ Whole(known) = SumOf(known, Shelves)
    BY <2>4, WholeIsSum
  <2>9. at[NoShelf] \in Int /\ at[NoShelf] = BottlesAt(ledger, w, NoShelf)
    BY <2>2, <2>3
  <2> QED
    BY <1>1, <1>3, <2>1, <2>6, <2>7, <2>8, <2>9
<1> QED
  BY <1>2, <1>3

\* The page by place shows a wine of the list where its page does.
LEMMA ByPlaceIsPage ==
  ASSUME ViewsInv, NEW f \in Filters, ~ f.empty, NEW year, NEW w \in ToSet(List(f, year)), NEW p \in Here
  PROVE  w \in Cuvees /\ ((w \in ToSet(ByPlace(List(f, year), p))) <=> p \in DOMAIN PlacesOf(w))
<1> DEFINE shown == List(f, year)
           K == Offered(f, year)
           there == {x \in Cuvees : IF PlacesOf(x) = << >> THEN p = NoShelf ELSE p \in DOMAIN PlacesOf(x)}
           tie == [x \in Cuvees |-> - Sheet[x].rating]
<1>1. Roll(shown, K) /\ ToSet(shown) = K
  BY ListRoll, RollShows
<1>2. w \in Cuvees /\ w \in K /\ Kept(w, f) /\ K \subseteq Cuvees
  BY <1>1 DEF Offered, Timed
<1>3. DOMAIN PlacesOf(w) # {}
  <2>1. Bottles(ledger, w) > 0
    BY <1>2 DEF Kept
  <2>2. Bottles(ledger, w) # 0
    BY <2>1
  <2>3. Bottles(ledger, w) = 0 <=> DOMAIN PlacesOf(w) = {}
    BY <1>2, StockIsSomewhere
  <2> QED
    BY <2>2, <2>3
<1>4. PlacesOf(w) # << >>
  <2>1. DOMAIN << >> = {}
    OBVIOUS
  <2> QED
    BY <1>3, <2>1
<1>5. w \in there <=> p \in DOMAIN PlacesOf(w)
  BY <1>2, <1>4
<1>6. \A x \in Cuvees : tie[x] \in Int
  <2>1. \A x \in Cuvees : Sheet[x].rating \in Nat
    BY CellarViewsAssumption
  <2> QED
    BY <2>1
<1>7. ByPlace(shown, p) = Sorted(Those(shown, there), tie)
  BY DEF ByPlace
<1> HIDE DEF shown, K, there, tie
<1>8. Roll(Those(shown, there), K \cap there)
  BY <1>1, ThoseRoll
<1>9. Roll(Sorted(Those(shown, there), tie), K \cap there)
  BY <1>2, <1>6, <1>8, SortedRoll
<1>10. ToSet(ByPlace(shown, p)) = K \cap there
  BY <1>7, <1>9, RollShows
<1> QED
  BY <1>2, <1>5, <1>10 DEF shown

\* Two screens that offer the same bottles offer the same.
LEMMA ScreensAgree == ViewsInv => SameBottlesEverywhere
<1> SUFFICES ASSUME ViewsInv, NEW now \in Nows
             PROVE  LET year == now \div 12 IN
               /\ \A f \in {g \in Filters : ~ g.empty /\ g.when # "none" /\ g.dish = {} /\ g.at = {}} :
                    ToSet(List(f, year)) = ToSet(Exported(f.color, f.when = "soon", year))
               /\ \A w \in Cuvees : ExportedPrice(w) = LastPrice(ledger, w)
               /\ StatsFor("OWNER", now).quotedValue =
                    Whole([w \in ToSet(Exported("", FALSE, year)) |-> SheetLine(w).quotedValue])
               /\ \A w \in ToSet(Exported("", FALSE, year)) :
                    LET line == SheetLine(w)
                        seen == Detail(w, "OWNER")
                    IN /\ {q.cote : q \in seen.quote} = {line.cote} \ {NoPrice} /\ {q.on : q \in seen.quote} = line.quotedOn
                       /\ \A k \in {"quantity", "places", "apogee"} : seen[k] = line[k]
               /\ \A f \in {g \in Filters : g.when = "soon" /\ ~ g.empty /\ g.color = ""} :
                    \A p \in Shelves \union {NoShelf} : \A w \in ToSet(List(f, year)) :
                      /\ (w \in ToSet(ByPlace(List(f, year), p))) <=> p \in DOMAIN PlacesOf(w)
                      /\ (w \in WinesAt(p)) <=> p \in DOMAIN PlacesOf(w)
  BY DEF SameBottlesEverywhere
<1> DEFINE year == now \div 12
<1>1. \A f \in {g \in Filters : ~ g.empty /\ g.when # "none" /\ g.dish = {} /\ g.at = {}} :
        ToSet(List(f, year)) = ToSet(Exported(f.color, f.when = "soon", year))
  BY ListIsExport
<1>2. \A w \in Cuvees : ExportedPrice(w) = LastPrice(ledger, w)
  BY SamePrice
<1>3. StatsFor("OWNER", now).quotedValue =
        Whole([w \in ToSet(Exported("", FALSE, year)) |-> SheetLine(w).quotedValue])
  BY SameQuotedValue
<1>4. \A w \in ToSet(Exported("", FALSE, year)) :
        LET line == SheetLine(w)
            seen == Detail(w, "OWNER")
        IN /\ {q.cote : q \in seen.quote} = {line.cote} \ {NoPrice} /\ {q.on : q \in seen.quote} = line.quotedOn
           /\ \A k \in {"quantity", "places", "apogee"} : seen[k] = line[k]
  <2>1. ToSet(Exported("", FALSE, year)) = Exportable("", FALSE, year)
    BY ExportRoll, RollShows
  <2>2. \A w \in ToSet(Exported("", FALSE, year)) : w \in Cuvees
    BY <2>1 DEF Exportable
  <2> HIDE DEF year
  <2> QED
    BY <2>2, LineIsPage
<1>5. \A f \in {g \in Filters : g.when = "soon" /\ ~ g.empty /\ g.color = ""} :
        \A p \in Shelves \union {NoShelf} : \A w \in ToSet(List(f, year)) :
          /\ (w \in ToSet(ByPlace(List(f, year), p))) <=> p \in DOMAIN PlacesOf(w)
          /\ (w \in WinesAt(p)) <=> p \in DOMAIN PlacesOf(w)
  <2> SUFFICES ASSUME NEW f \in Filters, ~ f.empty, NEW w \in ToSet(List(f, year)), NEW p \in Here
               PROVE  /\ (w \in ToSet(ByPlace(List(f, year), p))) <=> p \in DOMAIN PlacesOf(w)
                      /\ (w \in WinesAt(p)) <=> p \in DOMAIN PlacesOf(w)
    BY DEF Here
  <2> HIDE DEF year
  <2>1. w \in Cuvees /\ ((w \in ToSet(ByPlace(List(f, year), p))) <=> p \in DOMAIN PlacesOf(w))
    BY ByPlaceIsPage
  <2> QED
    BY <2>1, FilterIsPage
<1> QED
  BY <1>1, <1>2, <1>3, <1>4, <1>5

-----------------------------------------------------------------------------
(* A movement and its cancellation *)

\* The rows that are neither a cancellation nor what it undoes, and the journal of those.
Without(i) == {k \in DOMAIN ledger : k \notin {i, ledger[i].reverses}}
Rest(i) == Picked(ledger, Without(i))
Old(i) == Ascending(Without(i))

\* Each row of that journal is one of the other, in the same order.
LEMMA RestRows ==
  ASSUME ViewsInv, NEW i
  PROVE  LET rest == Rest(i)
             old == Old(i)
             W == Without(i)
             D == DOMAIN rest
         IN /\ IsFiniteSet(W) /\ W \subseteq DOMAIN ledger /\ IsFiniteSet(D) /\ D \subseteq Int /\ W \subseteq Int
            /\ \A k \in D : old[k] \in W /\ rest[k] = ledger[old[k]]
            /\ \A h \in W : \E k \in D : old[k] = h
            /\ \A k, h \in D : old[k] = old[h] => k = h
            /\ \A k, h \in D : k < h => old[k] < old[h]
<1> DEFINE W == Without(i)
           n == Cardinality(W)
           rest == Rest(i)
           old == Old(i)
<1>1. W \subseteq DOMAIN ledger /\ IsFiniteSet(W) /\ W \subseteq Int
  <2>1. DOMAIN ledger = 1..Len(ledger) /\ Len(ledger) \in Nat
    BY DEF ViewsInv
  <2>2. IsFiniteSet(DOMAIN ledger) /\ DOMAIN ledger \subseteq Int
    BY <2>1, FS_Interval
  <2>3. W \subseteq DOMAIN ledger
    BY DEF Without
  <2> HIDE DEF W
  <2> QED
    BY <2>2, <2>3, FS_Subset
<1>2. DOMAIN rest = 1..n /\ \A k \in 1..n : rest[k] = ledger[old[k]]
  BY DEF Rest, Picked, Old
<1> HIDE DEF rest, n, W
<1>3. /\ n \in Nat /\ old \in [1..n -> W]
      /\ \A h \in W : \E k \in 1..n : old[k] = h
      /\ \A j, k \in 1..n : j < k => old[j] < old[k]
      /\ \A j, k \in 1..n : old[j] = old[k] => j = k
  BY <1>1, AscendingOrder DEF n, Old, W
<1>4. IsFiniteSet(1..n) /\ 1..n \subseteq Int
  BY <1>3, FS_Interval
<1> HIDE DEF old
<1>5. \A k \in 1..n : old[k] \in W
  BY <1>3
<1> QED
  BY <1>1, <1>2, <1>3, <1>4, <1>5 DEF rest, W, old

\* What some of its rows brought is what they brought.
LEMMA RestMoved ==
  ASSUME ViewsInv, NEW i, NEW S, S \subseteq DOMAIN Rest(i), NEW T, T \subseteq Without(i),
         \A k \in DOMAIN Rest(i) : k \in S <=> Old(i)[k] \in T
  PROVE  Moved(Rest(i), S) = Moved(ledger, T)
<1> DEFINE rest == Rest(i)
           old == Old(i)
           W == Without(i)
           D == DOMAIN rest
           deltas == [k \in DOMAIN ledger |-> ledger[k].delta]
           column == [k \in S |-> rest[k].delta]
<1>1. /\ IsFiniteSet(W) /\ W \subseteq DOMAIN ledger /\ IsFiniteSet(D)
      /\ \A k \in D : old[k] \in W /\ rest[k] = ledger[old[k]]
      /\ \A h \in W : \E k \in D : old[k] = h
      /\ \A k, h \in D : old[k] = old[h] => k = h
  BY RestRows
<1>2. T \subseteq DOMAIN ledger /\ IsFiniteSet(S)
  BY <1>1, FS_Subset
<1>3. Moved(rest, S) = Whole(column) /\ DOMAIN column = S /\ \A k \in S : column[k] = rest[k].delta
  BY DEF Moved
<1> HIDE DEF rest, old, W, D, column
<1>4. /\ IsFiniteSet(T) /\ \A k \in T : deltas[k] = ledger[k].delta /\ deltas[k] \in Int
      /\ Moved(ledger, T) = SumOf(deltas, T)
  BY <1>2, MovedIsSum
<1> HIDE DEF deltas
<1>5. Moved(rest, S) = SumOf(column, S)
  BY <1>3, WholeIsSum
<1>6. \A k \in D : k \in S <=> old[k] \in T
  BY DEF D, rest, old
<1>7. S \subseteq D /\ T \subseteq W
  BY DEF D, rest, W
<1>8. \A k \in S : old[k] \in T /\ column[k] = deltas[old[k]] /\ column[k] \in Int
  BY <1>1, <1>3, <1>4, <1>6, <1>7
<1>9. \A h \in T : \E k \in S : old[k] = h
  BY <1>1, <1>6, <1>7
<1>10. \A k, h \in S : old[k] = old[h] => k = h
  BY <1>1, <1>7
<1>11. SumOf(column, S) = SumOf(deltas, T)
  BY <1>2, <1>4, <1>8, <1>9, <1>10, SumRenamed
<1> QED
  BY <1>4, <1>5, <1>11 DEF rest

\* What a cancellation says of the row it undoes.
LEMMA Undoing ==
  ASSUME ViewsInv, NEW i \in DOMAIN ledger, ledger[i].reverses # 0
  PROVE  LET j == ledger[i].reverses
         IN /\ i \in Int /\ j \in DOMAIN ledger /\ j # i /\ ledger[i].type = "ADJUST" /\ ledger[j].reverses = 0
            /\ ledger[j].wine = ledger[i].wine /\ ledger[i].delta = - ledger[j].delta
            /\ ledger[i].delta \in Int /\ ledger[j].delta \in Int
            /\ \A k \in DOMAIN ledger : ledger[k].id = k /\ (ledger[k].reverses = j => k = i)
<1> DEFINE j == ledger[i].reverses
<1>1. UndoneOnce(ledger) /\ Len(ledger) \in Nat /\ DOMAIN ledger = 1..Len(ledger)
  BY DEF ViewsInv
<1>2. /\ ledger[i].type = "ADJUST" /\ j \in 1..(i - 1)
      /\ ledger[j].reverses = 0 /\ ledger[j].wine = ledger[i].wine /\ ledger[i].delta = - ledger[j].delta
  BY <1>1 DEF UndoneOnce
<1>3. \A k \in DOMAIN ledger : ledger[k].id = k /\ (ledger[k].reverses = j => k = i)
  BY <1>1 DEF UndoneOnce
<1> HIDE DEF j
<1>4. i \in Int /\ j \in DOMAIN ledger /\ j # i
  BY <1>1, <1>2
<1>5. \A k \in DOMAIN ledger : ledger[k].delta \in Int
  <2>1. \A k \in DOMAIN ledger : ledger[k] \in LedgerRow
    BY DEF ViewsInv
  <2> QED
    BY <2>1 DEF LedgerRow
<1> QED
  BY <1>2, <1>3, <1>4, <1>5 DEF j

\* Together they bring nothing.
LEMMA RestBottles ==
  ASSUME ViewsInv, NEW i \in DOMAIN ledger, ledger[i].reverses # 0, NEW w \in Cuvees
  PROVE  Bottles(Rest(i), w) = Bottles(ledger, w)
<1> DEFINE j == ledger[i].reverses
           S == Of(ledger, w)
           T == S \cap Without(i)
           U == S \ T
           deltas == [k \in DOMAIN ledger |-> ledger[k].delta]
<1>1. /\ j \in DOMAIN ledger /\ j # i
      /\ ledger[j].wine = ledger[i].wine /\ ledger[i].delta = - ledger[j].delta
      /\ ledger[i].delta \in Int /\ ledger[j].delta \in Int
  BY Undoing
<1>2. S \subseteq DOMAIN ledger /\ T \subseteq S /\ U \subseteq DOMAIN ledger
  BY DEF Of
<1>3. U = {k \in S : k \in {i, j}}
  BY DEF Without, Of
<1>4. U = {} \/ U = {i, j}
  BY <1>1, <1>3 DEF Of
<1>5. Bottles(Rest(i), w) = Moved(ledger, T)
  <2>1. Of(Rest(i), w) \subseteq DOMAIN Rest(i) /\ T \subseteq Without(i)
    BY DEF Of
  <2>2. \A k \in DOMAIN Rest(i) : Old(i)[k] \in Without(i) /\ Old(i)[k] \in DOMAIN ledger /\ Rest(i)[k] = ledger[Old(i)[k]]
    BY RestRows
  <2>3. \A k \in DOMAIN Rest(i) : k \in Of(Rest(i), w) <=> Old(i)[k] \in T
    BY <2>2 DEF Of
  <2> HIDE DEF T
  <2>4. Moved(Rest(i), Of(Rest(i), w)) = Moved(ledger, T)
    BY <2>1, <2>3, RestMoved
  <2> QED
    BY <2>4 DEF Bottles
<1>6. Bottles(ledger, w) = Moved(ledger, S)
  BY DEF Bottles
<1>7. deltas[i] = ledger[i].delta /\ deltas[j] = ledger[j].delta
  BY <1>1
<1> HIDE DEF j, S, T, U, deltas
<1>8. /\ IsFiniteSet(S) /\ (\A k \in S : deltas[k] \in Int) /\ Moved(ledger, S) = SumOf(deltas, S)
      /\ Moved(ledger, T) = SumOf(deltas, T) /\ SumOf(deltas, T) \in Int
  <2>1. T \subseteq DOMAIN ledger
    BY <1>2
  <2>2. /\ IsFiniteSet(S) /\ (\A k \in S : deltas[k] \in Int) /\ Moved(ledger, S) = SumOf(deltas, S)
    BY <1>2, MovedIsSum DEF deltas
  <2>3. Moved(ledger, T) = SumOf(deltas, T) /\ Moved(ledger, T) \in Int
    BY <2>1, MovedIsSum DEF deltas
  <2> QED
    BY <2>2, <2>3
<1>9. SumOf(deltas, S) = SumOf(deltas, T) + SumOf(deltas, U)
  BY <1>2, <1>8, SumSplit DEF U
<1>10. SumOf(deltas, U) = 0
  <2>1. CASE U = {}
    BY <2>1, SumEmpty
  <2>2. CASE U = {i, j}
    <3>1. IsFiniteSet(U) /\ (\A k \in U : deltas[k] \in Int) /\ i \in U /\ j \in U \ {i}
      <4>1. U \subseteq S
        BY DEF U
      <4> QED
        BY <1>1, <1>8, <2>2, <4>1, FS_Subset
    <3>2. SumOf(deltas, U) = deltas[i] + SumOf(deltas, U \ {i})
      BY <3>1, SumRemove
    <3>3. IsFiniteSet(U \ {i}) /\ \A k \in U \ {i} : deltas[k] \in Int
      BY <3>1, FS_Subset
    <3>4. SumOf(deltas, U \ {i}) = deltas[j] + SumOf(deltas, (U \ {i}) \ {j})
      BY <3>1, <3>3, SumRemove
    <3>5. (U \ {i}) \ {j} = {}
      BY <2>2
    <3>6. SumOf(deltas, (U \ {i}) \ {j}) = 0
      BY <3>5, SumEmpty
    <3>7. deltas[i] \in Int /\ deltas[j] \in Int /\ deltas[i] = - deltas[j]
      BY <1>1, <1>7
    <3> QED
      BY <3>2, <3>4, <3>6, <3>7
  <2> QED
    BY <1>4, <2>1, <2>2
<1> QED
  BY <1>5, <1>6, <1>8, <1>9, <1>10

\* The same entries and withdrawals count.
LEMMA RestCounted ==
  ASSUME ViewsInv, NEW i \in DOMAIN ledger, ledger[i].reverses # 0
  PROVE  /\ Counted(ledger) \subseteq Without(i)
         /\ \A k \in DOMAIN Rest(i) : k \in Counted(Rest(i)) <=> Old(i)[k] \in Counted(ledger)
<1> DEFINE j == ledger[i].reverses
           rest == Rest(i)
           old == Old(i)
           W == Without(i)
           D == DOMAIN rest
           type(k) == ledger[k].type \in {"IN", "OUT"}
<1>1. /\ j \in DOMAIN ledger /\ j # 0 /\ ledger[i].type = "ADJUST" /\ ledger[j].reverses = 0
      /\ \A k \in DOMAIN ledger : ledger[k].id = k /\ (ledger[k].reverses = j => k = i)
  BY Undoing
<1>2. \A k \in W : k \in DOMAIN ledger /\ k # i /\ k # j
  BY DEF Without
<1>3. \A k \in DOMAIN ledger : k # i /\ k # j => k \in W
  BY DEF Without
<1>4. /\ \A k \in D : old[k] \in W /\ rest[k] = ledger[old[k]]
      /\ \A h \in W : \E k \in D : old[k] = h
  BY RestRows
<1>5. /\ \A r : r \in Reversed(ledger) <=> r # 0 /\ \E k \in DOMAIN ledger : ledger[k].reverses = r
      /\ \A r : r \in Reversed(rest) <=> r # 0 /\ \E k \in D : rest[k].reverses = r
  BY DEF Reversed
<1>6. /\ \A k : k \in Counted(ledger) <=> k \in DOMAIN ledger /\ type(k) /\ ledger[k].id \notin Reversed(ledger)
      /\ \A k : k \in Counted(rest) <=> k \in D /\ rest[k].type \in {"IN", "OUT"} /\ rest[k].id \notin Reversed(rest)
  BY DEF Counted
<1> HIDE DEF j, rest, old, W, D
<1>7. \A r : r # j => (r \in Reversed(rest) <=> r \in Reversed(ledger))
  <2> SUFFICES ASSUME NEW r, r # j PROVE r \in Reversed(rest) <=> r \in Reversed(ledger)
    OBVIOUS
  <2>1. ASSUME r \in Reversed(rest) PROVE r \in Reversed(ledger)
    <3>1. PICK k \in D : rest[k].reverses = r
      BY <1>5, <2>1
    <3>2. old[k] \in DOMAIN ledger /\ ledger[old[k]].reverses = r
      BY <1>2, <1>4, <3>1
    <3> QED
      BY <1>5, <2>1, <3>2
  <2>2. ASSUME r \in Reversed(ledger) PROVE r \in Reversed(rest)
    <3>1. r # 0 /\ \E k \in DOMAIN ledger : ledger[k].reverses = r
      BY <1>5, <2>2
    <3>2. PICK h \in DOMAIN ledger : ledger[h].reverses = r
      BY <3>1
    <3>3. h # i /\ h # j
      BY <1>1, <3>1, <3>2 DEF j
    <3>4. PICK k \in D : old[k] = h
      BY <1>3, <1>4, <3>3
    <3> QED
      BY <1>4, <1>5, <3>1, <3>2, <3>4
  <2> QED
    BY <2>1, <2>2
<1>8. j \in Reversed(ledger)
  BY <1>1, <1>5 DEF j
<1>9. ~ type(i)
  BY <1>1
<1> HIDE DEF type
<1>10. Counted(ledger) \subseteq W
  BY <1>1, <1>3, <1>6, <1>8, <1>9
<1>11. ASSUME NEW k \in D PROVE k \in Counted(rest) <=> old[k] \in Counted(ledger)
  <2>1. old[k] \in DOMAIN ledger /\ old[k] # j /\ rest[k] = ledger[old[k]] /\ ledger[old[k]].id = old[k]
    BY <1>1, <1>2, <1>4
  <2>2. old[k] \in Reversed(rest) <=> old[k] \in Reversed(ledger)
    BY <1>7, <2>1
  <2>3. k \in Counted(rest) <=> type(old[k]) /\ old[k] \notin Reversed(rest)
    BY <1>6, <2>1 DEF type
  <2>4. old[k] \in Counted(ledger) <=> type(old[k]) /\ old[k] \notin Reversed(ledger)
    BY <1>6, <2>1
  <2> QED
    BY <2>2, <2>3, <2>4
<1> QED
  BY <1>10, <1>11 DEF W, D, rest, old

\* So they flow and were drunk.
LEMMA RestFlow ==
  ASSUME ViewsInv, NEW i \in DOMAIN ledger, ledger[i].reverses # 0, NEW now
  PROVE  /\ \A type : Flow(Rest(i), type, now) = Flow(ledger, type, now)
         /\ Drunk(Rest(i), now) = Drunk(ledger, now)
<1> DEFINE rest == Rest(i)
           old == Old(i)
           Out(list, w) == {k \in Counted(list) \cap Of(list, w) : list[k].type = "OUT" /\ list[k].month \in Window(now)}
           All(list, type) == {k \in Counted(list) : list[k].type = type /\ list[k].month \in Window(now)}
<1>1. \A k \in DOMAIN rest : old[k] \in Without(i) /\ rest[k] = ledger[old[k]]
  BY RestRows
<1>2. /\ Counted(ledger) \subseteq Without(i) /\ Without(i) \subseteq DOMAIN ledger
      /\ \A k \in DOMAIN rest : k \in Counted(rest) <=> old[k] \in Counted(ledger)
  BY RestCounted, RestRows
<1>3. Counted(rest) \subseteq DOMAIN rest
  BY DEF Counted
<1> HIDE DEF rest, old
<1>4. ASSUME NEW type PROVE Flow(rest, type, now) = Flow(ledger, type, now)
  <2>1. All(rest, type) \subseteq DOMAIN rest /\ All(ledger, type) \subseteq Without(i)
    BY <1>2, <1>3
  <2>2. \A k \in DOMAIN rest : k \in All(rest, type) <=> old[k] \in All(ledger, type)
    BY <1>1, <1>2
  <2>3. Flow(rest, type, now) = Moved(rest, All(rest, type)) /\ Flow(ledger, type, now) = Moved(ledger, All(ledger, type))
    BY DEF Flow
  <2> HIDE DEF All
  <2>4. Moved(rest, All(rest, type)) = Moved(ledger, All(ledger, type))
    BY <2>1, <2>2, RestMoved DEF rest, old
  <2> QED
    BY <2>3, <2>4
<1>5. ASSUME NEW w \in Cuvees PROVE Moved(rest, Out(rest, w)) = Moved(ledger, Out(ledger, w))
  <2>1. Out(rest, w) \subseteq DOMAIN rest /\ Out(ledger, w) \subseteq Without(i)
    BY <1>2, <1>3
  <2>2. \A k \in DOMAIN rest : k \in Of(rest, w) <=> old[k] \in Of(ledger, w)
    BY <1>1, <1>2 DEF Of
  <2>3. \A k \in DOMAIN rest : k \in Out(rest, w) <=> old[k] \in Out(ledger, w)
    BY <1>1, <1>2, <2>2
  <2> HIDE DEF Out
  <2> QED
    BY <2>1, <2>3, RestMoved DEF rest, old
<1>6. Drunk(rest, now) = [w \in Cuvees |-> - Moved(rest, Out(rest, w))]
      /\ Drunk(ledger, now) = [w \in Cuvees |-> - Moved(ledger, Out(ledger, w))]
  BY DEF Drunk
<1> HIDE DEF Out
<1>7. Drunk(rest, now) = Drunk(ledger, now)
  BY <1>5, <1>6
<1> QED
  BY <1>4, <1>7 DEF rest

\* And the last price is the same.
LEMMA RestPrice ==
  ASSUME ViewsInv, NEW i \in DOMAIN ledger, ledger[i].reverses # 0, NEW w \in Cuvees
  PROVE  LastPrice(Rest(i), w) = LastPrice(ledger, w)
<1> DEFINE rest == Rest(i)
           old == Old(i)
           W == Without(i)
           D == DOMAIN rest
           Priced(list) == {k \in Counted(list) \cap Of(list, w) : list[k].type = "IN" /\ list[k].price # NoPrice}
           P == Priced(rest)
           Q == Priced(ledger)
<1>1. /\ IsFiniteSet(W) /\ W \subseteq DOMAIN ledger /\ IsFiniteSet(D) /\ D \subseteq Int /\ W \subseteq Int
      /\ \A k \in D : old[k] \in W /\ rest[k] = ledger[old[k]]
      /\ \A h \in W : \E k \in D : old[k] = h
      /\ \A k, h \in D : k < h => old[k] < old[h]
  BY RestRows
<1>2. Counted(ledger) \subseteq W /\ \A k \in D : k \in Counted(rest) <=> old[k] \in Counted(ledger)
  BY RestCounted
<1>3. LastPrice(rest, w) = (IF P = {} THEN NoPrice ELSE rest[Max(P)].price)
      /\ LastPrice(ledger, w) = (IF Q = {} THEN NoPrice ELSE ledger[Max(Q)].price)
  BY DEF LastPrice
<1>4. P \subseteq D /\ Q \subseteq W
  BY <1>2 DEF Counted
<1> HIDE DEF rest, old, W
<1>5. \A k \in D : k \in P <=> old[k] \in Q
  <2>1. \A k \in D : k \in Of(rest, w) <=> old[k] \in Of(ledger, w)
    BY <1>1 DEF Of
  <2> QED
    BY <1>1, <1>2, <2>1
<1> HIDE DEF D, P, Q
<1>6. CASE P = {}
  <2>1. Q = {}
    BY <1>1, <1>4, <1>5, <1>6
  <2> QED
    BY <1>3, <1>6, <2>1 DEF rest
<1>7. CASE P # {}
  <2> DEFINE m == Max(P)
             n == Max(Q)
  <2>1. m \in P /\ \A k \in P : k <= m
    <3>1. IsFiniteSet(P) /\ P \subseteq Int
      BY <1>1, <1>4, FS_Subset
    <3> QED
      BY <1>7, <3>1, Ends
  <2>2. old[m] \in Q /\ m \in D
    BY <1>4, <1>5, <2>1
  <2>3. n \in Q /\ \A h \in Q : h <= n
    <3>1. IsFiniteSet(Q) /\ Q \subseteq Int /\ Q # {}
      BY <1>1, <1>4, <2>2, FS_Subset
    <3> QED
      BY <3>1, Ends
  <2> HIDE DEF m, n
  <2>4. PICK k \in D : old[k] = n
    BY <1>1, <1>4, <2>3
  <2>5. k \in P /\ k <= m /\ old[m] <= n
    BY <1>5, <2>1, <2>2, <2>3, <2>4
  <2>6. k = m
    <3>1. k \in Int /\ m \in Int /\ old[m] \in Int /\ n \in Int
      BY <1>1, <1>4, <2>2, <2>3, <2>4
    <3>2. k < m => n < old[m]
      BY <1>1, <2>2, <2>4
    <3> QED
      BY <2>5, <3>1, <3>2
  <2>7. rest[m] = ledger[n]
    BY <1>1, <2>2, <2>4, <2>6
  <2> QED
    BY <1>3, <1>7, <2>2, <2>7 DEF rest, m, n
<1> QED
  BY <1>6, <1>7

\* A movement and its cancellation leave no trace.
LEMMA NoTraceLeft == ViewsInv => CancelledLeavesNoTrace
<1> SUFFICES ASSUME ViewsInv, NEW i \in DOMAIN ledger, NEW now \in Nows, ledger[i].reverses # 0
             PROVE  Stats(ledger, Cotes, now) =
                      Stats(Picked(ledger, {k \in DOMAIN ledger : ledger[k].id \notin {ledger[i].id, ledger[i].reverses}}),
                            Cotes, now)
  BY DEF CancelledLeavesNoTrace
<1>1. \A k \in DOMAIN ledger : ledger[k].id = k
  BY Undoing
<1>2. {k \in DOMAIN ledger : ledger[k].id \notin {ledger[i].id, ledger[i].reverses}} = Without(i)
  BY <1>1 DEF Without
<1>3. \A w \in Cuvees : Bottles(Rest(i), w) = Bottles(ledger, w)
  BY RestBottles
<1>4. \A w \in Cuvees : LastPrice(Rest(i), w) = LastPrice(ledger, w)
  BY RestPrice
<1>5. /\ Flow(Rest(i), "IN", now) = Flow(ledger, "IN", now) /\ Flow(Rest(i), "OUT", now) = Flow(ledger, "OUT", now)
      /\ Drunk(Rest(i), now) = Drunk(ledger, now)
  BY RestFlow
<1>6. Stats(Rest(i), Cotes, now) = Stats(ledger, Cotes, now)
  BY <1>3, <1>4, <1>5, StatsAlike
<1> QED
  BY <1>2, <1>6 DEF Rest

-----------------------------------------------------------------------------

\* The screens of a cellar agree, whatever is written in its journal, in whatever order
\* (cave.service.ts:122-152, stats.ts:129-208, export.service.ts:61-81,
\* locations.service.ts:214-258): the list, the export, the page and the places show the
\* same bottles, prices and quotes, a dish loses no wine, a movement and its cancellation
\* leave no trace, breakdowns and places share out what there is, a member reads nothing
\* that depends on a price, an exit is proposed where the wine is, and windows are in order.
THEOREM ScreensShowOneCellar == ViewsSpec => []ViewsAgree
<1>1. ViewsInv => ViewsAgree
  BY ScreensAgree, DishKeeps, NoTraceLeft, SharesOfAllAddUp, MembersRead, ProposedPlaces, WindowsInOrder DEF ViewsAgree
<1> QED
  BY <1>1, ViewsInvHolds, PTL

-----------------------------------------------------------------------------
\* The runs of MCStores play behaviours of these four specifications, and bound only
\* the number of faults and of requests, and the initial states.
THEOREM RunsPlayTheStores == Spec => CavePlanSpec /\ ReferenceSpec /\ AccountsSpec /\ SharedRowsSpec
<1>1. Init => CavePlanInit /\ ReferenceInit /\ AccountsInit /\ SharedRowsInit
  BY DEF Init
<1>2. ASSUME [Next]_vars
      PROVE  /\ [CavePlanNext \/ PlanFault]_planVars
             /\ [ReferenceNext \/ ReferenceFault]_refVars
             /\ [AccountsGoOn \/ AccountsRequest]_accountVars
             /\ [SharedRowsStep]_sharedVars
  <2>1. CASE Thumbnails
    BY <2>1 DEF Thumbnails
  <2>2. CASE Plans
    BY <2>2 DEF Plans
  <2>3. CASE Members
    BY <2>3 DEF Members
  <2>4. CASE Views
    BY <2>4 DEF Views
  <2>5. CASE Races
    BY <2>5 DEF Races
  <2>6. CASE UNCHANGED vars
    BY <2>6 DEF vars
  <2> QED
    BY <1>2, <2>1, <2>2, <2>3, <2>4, <2>5, <2>6 DEF Next
<1> QED
  BY <1>1, <1>2, PTL DEF Spec, CavePlanSpec, ReferenceSpec, AccountsSpec, SharedRowsSpec

\* The runs of MCStores write the journal and the quotes of a cellar as this
\* specification does.
THEOREM RunsPlayTheViews == {w1, w2, w3} \subseteq Cuvees => (Spec => ViewsSpec)
<1> SUFFICES ASSUME {w1, w2, w3} \subseteq Cuvees PROVE Spec => ViewsSpec
  OBVIOUS
<1>1. Init => ViewsInit
  BY DEF Init, ViewsInit
<1>2. ASSUME [Next]_vars PROVE [ViewsStep]_viewVars
  <2>1. CASE Views
    <3>1. /\ w1 \in Cuvees /\ w2 \in Cuvees /\ w3 \in Cuvees
          /\ \A p : MCPrice(p) \in Nat /\ NoPrice \in Nat /\ 2 \in Nat /\ -1 \in Int
      BY DEF MCPrice, NoPrice
    <3>2. ASSUME NEW w \in {w1, w2}, NEW p \in Here, NEW m \in Months, EnterBottles(w, 2, p, MCPrice(p), m)
          PROVE  ViewsStep
      BY <3>1, <3>2 DEF ViewsStep
    <3>3. ASSUME EnterBottles(w3, 2, NoShelf, NoPrice, LastMonth) PROVE ViewsStep
      BY <3>1, <3>3 DEF ViewsStep, Here
    <3>4. ASSUME NEW w \in {w1, w2}, NEW p \in Here, TakeBottle(w, p, LastMonth) \/ CountBottles(w, -1, p)
          PROVE  ViewsStep
      BY <3>1, <3>4 DEF ViewsStep
    <3>5. ASSUME NEW w \in {w1, w2}, NEW p \in Here, NEW q \in Here, ShiftBottle(w, p, q) PROVE ViewsStep
      BY <3>1, <3>5 DEF ViewsStep
    <3>6. ASSUME NEW i \in DOMAIN ledger, CancelRow(ledger[i]) PROVE ViewsStep
      BY <3>6 DEF ViewsStep
    <3>7. ASSUME NEW cote \in {100, 58}, NEW m \in Months, AddQuote(MCQuote(cote, m))
          PROVE  ViewsStep
      <4>1. MCQuote(cote, m) \in [wine : Cuvees, cote : Nat, on : Months, link : SUBSET Links]
        BY <3>1 DEF MCQuote
      <4> QED
        BY <3>7, <4>1 DEF ViewsStep
    <3>8. ASSUME NEW window \in MCWindows, SetManualApogee(w2, window) PROVE ViewsStep
      <4>1. window \in {NoWindow} \union Seq(Nat)
        <5>1. CASE window = NoWindow
          BY <5>1
        <5>2. CASE window = <<2030, 2031>>
          <6>1. 2030 \in Nat /\ 2031 \in Nat
            BY SMT
          <6> QED
            BY <5>2, <6>1
        <5> QED
          BY <5>1, <5>2 DEF MCWindows
      <4> QED
        BY <3>1, <3>8, <4>1 DEF ViewsStep
    <3> DEFINE P == Shelves \union {NoShelf}
               Enters == \E w \in {w1, w2}, p \in P, m \in {x \in Months : x >= LastMonth} : EnterBottles(w, 2, p, MCPrice(p), m)
               Takes == \E w \in {w1, w2}, p \in P : TakeBottle(w, p, LastMonth) \/ CountBottles(w, -1, p)
               Shifts == \E w \in {w1, w2}, p, q \in P : ShiftBottle(w, p, q)
               Cancels == \E i \in DOMAIN ledger : CancelRow(ledger[i])
               Quoted == \E cote \in {100, 58}, m \in Months : AddQuote(MCQuote(cote, m))
               Windows == \E window \in MCWindows : SetManualApogee(w2, window)
    <3>9. Enters \/ EnterBottles(w3, 2, NoShelf, NoPrice, LastMonth) \/ Takes \/ Shifts \/ Cancels \/ Quoted \/ Windows
      BY <2>1 DEF Views
    <3>10. Enters => ViewsStep
      BY <3>2 DEF Here
    <3>11. Takes => ViewsStep
      BY <3>4 DEF Here
    <3>12. Shifts => ViewsStep
      BY <3>5 DEF Here
    <3>13. Cancels => ViewsStep
      BY <3>6
    <3>14. Quoted => ViewsStep
      BY <3>7
    <3>15. Windows => ViewsStep
      BY <3>8
    <3> HIDE DEF Enters, Takes, Shifts, Cancels, Quoted, Windows
    <3> QED
      BY <3>3, <3>9, <3>10, <3>11, <3>12, <3>13, <3>14, <3>15
  <2>2. CASE Thumbnails \/ Plans \/ Members \/ Races
    BY <2>2 DEF Thumbnails, Plans, Members, Races
  <2>3. CASE UNCHANGED vars
    BY <2>3 DEF vars
  <2> QED
    BY <1>2, <2>1, <2>2, <2>3 DEF Next
<1> QED
  BY <1>1, <1>2, PTL DEF Spec, ViewsSpec

=============================================================================
