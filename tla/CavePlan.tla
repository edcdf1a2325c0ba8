------------------------------ MODULE CavePlan ------------------------------
(***************************************************************************)
(* The image of a cellar's plan and the photos of its zones: one file at a *)
(* path of its own per record, put in place by a rename under the lock of  *)
(* the record, in the transaction that records it.  A plan is erased by a  *)
(* second transaction, a zone's photo inside the one that forgets it, or   *)
(* after the one that deletes the zone.                                    *)
(***************************************************************************)
EXTENDS Naturals

CONSTANTS
  Plan,    \* the record of the plan: the cellar's row
  Zones,   \* the records of the zones
  Senders, \* requests, each with the image it would send
  NoImage  \* nothing recorded, no file, no holder

Records == {Plan} \union Zones

ASSUME CavePlanAssumption == Plan \notin Zones /\ NoImage \notin Senders

VARIABLES
  row,    \* the image each record names
  file,   \* the image at the path of each record
  tmp,    \* temporary files, by the request that wrote them
  zone,   \* state of each zone
  marker, \* zones with a marker on the plan
  lock,   \* the request that holds each record
  sender, \* how far each request has come, and on which record
  upsets  \* commits that failed and stops of the api

planVars == <<row, file, tmp, zone, marker, lock, sender, upsets>>

States == {"idle", "written", "locked", "placed", "cleaning", "erasing", "unlinking", "marking", "ended"}

CavePlanTypeOK ==
  /\ row \in [Records -> Senders \union {NoImage}]
  /\ file \in [Records -> Senders \union {NoImage}]
  /\ tmp \subseteq Senders
  /\ zone \in [Zones -> {"active", "archived", "deleted"}]
  /\ marker \subseteq Zones
  /\ lock \in [Records -> Senders \union {NoImage}]
  /\ sender \in [Senders -> [state : States, on : Records]]
  /\ upsets \in Nat

CavePlanInit ==
  /\ row = [x \in Records |-> NoImage]
  /\ file = [x \in Records |-> NoImage]
  /\ tmp = {}
  /\ zone = [z \in Zones |-> "active"]
  /\ marker = {}
  /\ lock = [x \in Records |-> NoImage]
  /\ sender \in [Senders -> [state : {"idle"}, on : Records]]
  /\ upsets = 0

In(s, state)    == sender[s].state = state
GoOn(s, state)  == sender' = [sender EXCEPT ![s].state = state]
Free(x)         == lock[x] = NoImage
Present(x)      == x = Plan \/ (x \in Zones /\ zone[x] = "active")

-----------------------------------------------------------------------------
(* Sending an image *)

\* The record is there, the image can be read, and is written beside its place.
WriteTmp(s) ==
  /\ In(s, "idle")
  /\ IF Present(sender[s].on)
     THEN tmp' = tmp \union {s} /\ GoOn(s, "written")
     ELSE GoOn(s, "ended") /\ UNCHANGED tmp
  /\ UNCHANGED <<row, file, zone, marker, lock, upsets>>

\* lockOwn looks again once it holds the row.
StillThere(x) == Present(x)

LockRecord(s) ==
  /\ In(s, "written")
  /\ LET x == sender[s].on IN
     /\ Free(x)
     /\ IF StillThere(x)
        THEN lock' = [lock EXCEPT ![x] = s] /\ GoOn(s, "locked")
        ELSE GoOn(s, "cleaning") /\ UNCHANGED lock
  /\ UNCHANGED <<row, file, tmp, zone, marker, upsets>>

Place(s) ==
  /\ In(s, "locked")
  /\ file' = [file EXCEPT ![sender[s].on] = s]
  /\ tmp' = tmp \ {s}
  /\ GoOn(s, "placed")
  /\ UNCHANGED <<row, zone, marker, lock, upsets>>

CommitImage(s) ==
  /\ In(s, "placed")
  /\ row' = [row EXCEPT ![sender[s].on] = s]
  /\ lock' = [lock EXCEPT ![sender[s].on] = NoImage]
  /\ GoOn(s, "cleaning")
  /\ UNCHANGED <<file, tmp, zone, marker, upsets>>

\* The database fails after the rename, or before it.
CommitImageFails(s) ==
  /\ In(s, "placed") \/ In(s, "locked")
  /\ lock' = [lock EXCEPT ![sender[s].on] = NoImage]
  /\ upsets' = IF In(s, "placed") THEN upsets + 1 ELSE upsets
  /\ GoOn(s, "cleaning")
  /\ UNCHANGED <<row, file, tmp, zone, marker>>

Clean(s) ==
  /\ In(s, "cleaning")
  /\ tmp' = tmp \ {s}
  /\ GoOn(s, "ended")
  /\ UNCHANGED <<row, file, zone, marker, lock, upsets>>

-----------------------------------------------------------------------------
(* Taking an image away *)

\* First transaction: the row.
ForgetPlan(s) ==
  /\ In(s, "idle") /\ sender[s].on = Plan /\ Free(Plan)
  /\ IF row[Plan] = NoImage
     THEN GoOn(s, "ended") /\ UNCHANGED row
     ELSE row' = [row EXCEPT ![Plan] = NoImage] /\ GoOn(s, "erasing")
  /\ UNCHANGED <<file, tmp, zone, marker, lock, upsets>>

\* Mutant: the file is erased whatever was recorded since.
StillForgottenAlways(x) == TRUE

StillForgotten(x) == row[x] = NoImage

\* Second transaction: the file, unless another plan took its place.
ErasePlan(s) ==
  /\ In(s, "erasing") /\ Free(Plan)
  /\ file' = IF StillForgotten(Plan) THEN [file EXCEPT ![Plan] = NoImage] ELSE file
  /\ GoOn(s, "ended")
  /\ UNCHANGED <<row, tmp, zone, marker, lock, upsets>>

\* A zone's photo: row and file in one transaction.
RemovePhoto(s) ==
  /\ In(s, "idle") /\ sender[s].on \in Zones /\ Free(sender[s].on)
  /\ LET z == sender[s].on IN
     IF Present(z)
     THEN row' = [row EXCEPT ![z] = NoImage] /\ file' = [file EXCEPT ![z] = NoImage]
     ELSE UNCHANGED <<row, file>>
  /\ GoOn(s, "ended")
  /\ UNCHANGED <<tmp, zone, marker, lock, upsets>>

\* The file is gone when the commit fails.
RemovePhotoFails(s) ==
  /\ In(s, "idle") /\ sender[s].on \in Zones /\ Free(sender[s].on)
  /\ Present(sender[s].on)
  /\ file' = [file EXCEPT ![sender[s].on] = IF row[sender[s].on] = NoImage THEN @ ELSE NoImage]
  /\ upsets' = upsets + 1
  /\ GoOn(s, "ended")
  /\ UNCHANGED <<row, tmp, zone, marker, lock>>

\* A zone some movement names is archived and keeps its photo.
ArchiveZone(z) ==
  /\ zone[z] = "active" /\ Free(z)
  /\ zone' = [zone EXCEPT ![z] = "archived"]
  /\ UNCHANGED <<row, file, tmp, marker, lock, sender, upsets>>

\* Bottles come back to it.
ReopenZone(z) ==
  /\ zone[z] = "archived" /\ Free(z)
  /\ zone' = [zone EXCEPT ![z] = "active"]
  /\ UNCHANGED <<row, file, tmp, marker, lock, sender, upsets>>

DeleteZone(s) ==
  /\ In(s, "idle") /\ sender[s].on \in Zones /\ Free(sender[s].on)
  /\ LET z == sender[s].on IN
     /\ zone[z] = "active"
     /\ zone' = [zone EXCEPT ![z] = "deleted"]
     /\ row' = [row EXCEPT ![z] = NoImage]
     /\ marker' = marker \ {z}
     /\ GoOn(s, IF row[z] = NoImage THEN "ended" ELSE "unlinking")
  /\ UNCHANGED <<file, tmp, lock, upsets>>

UnlinkPhoto(s) ==
  /\ In(s, "unlinking")
  /\ file' = [file EXCEPT ![sender[s].on] = NoImage]
  /\ GoOn(s, "ended")
  /\ UNCHANGED <<row, tmp, zone, marker, lock, upsets>>

-----------------------------------------------------------------------------
(* Markers *)

\* The zone and the plan are looked at, then the marker is written if the zone is still there.
AskMarker(s) ==
  /\ In(s, "idle") /\ sender[s].on \in Zones
  /\ GoOn(s, IF Present(sender[s].on) /\ row[Plan] # NoImage THEN "marking" ELSE "ended")
  /\ UNCHANGED <<row, file, tmp, zone, marker, lock, upsets>>

Markable(z) == zone[z] = "active"

SetMarker(s) ==
  /\ In(s, "marking") /\ Free(sender[s].on)
  /\ marker' = IF Markable(sender[s].on) THEN marker \union {sender[s].on} ELSE marker
  /\ GoOn(s, "ended")
  /\ UNCHANGED <<row, file, tmp, zone, lock, upsets>>

RemoveMarker(s) ==
  /\ In(s, "idle") /\ sender[s].on \in Zones /\ Free(sender[s].on)
  /\ marker' = IF Markable(sender[s].on) THEN marker \ {sender[s].on} ELSE marker
  /\ GoOn(s, "ended")
  /\ UNCHANGED <<row, file, tmp, zone, lock, upsets>>

-----------------------------------------------------------------------------
(* The whole *)

Busy(s) == ~In(s, "idle") /\ ~In(s, "ended")

\* Open transactions are rolled back and their locks let go.
PlanApiStops ==
  /\ upsets' = upsets + 1
  /\ sender' = [s \in Senders |-> IF Busy(s) THEN [sender[s] EXCEPT !.state = "ended"] ELSE sender[s]]
  /\ lock' = [x \in Records |-> NoImage]
  /\ UNCHANGED <<row, file, tmp, zone, marker>>

SenderStep(s) ==
  \/ WriteTmp(s) \/ LockRecord(s) \/ Place(s) \/ CommitImage(s) \/ Clean(s)
  \/ ForgetPlan(s) \/ ErasePlan(s) \/ RemovePhoto(s) \/ DeleteZone(s) \/ UnlinkPhoto(s)
  \/ AskMarker(s) \/ SetMarker(s) \/ RemoveMarker(s)

PlanFault == PlanApiStops \/ \E s \in Senders : CommitImageFails(s) \/ RemovePhotoFails(s)

CavePlanNext ==
  \/ \E s \in Senders : SenderStep(s)
  \/ \E z \in Zones : ArchiveZone(z) \/ ReopenZone(z)

\* What the plan page shows: no marker without a plan, none of a zone put away.
Shown == IF row[Plan] = NoImage THEN {} ELSE {z \in marker : zone[z] = "active"}

-----------------------------------------------------------------------------
(* Properties *)

\* Between two transactions the file of a record is the one it names, or there
\* is none of either, however uploads and removals cross; a plan or a deleted
\* zone's photo may wait for its erasing.  Failed commits and stops excepted.
ImageMatchesRow ==
  upsets = 0 =>
    \A x \in Records :
      \/ file[x] = row[x]
      \/ ~Free(x)
      \/ row[x] = NoImage /\ \E s \in Senders : sender[s].on = x /\ (In(s, "erasing") \/ In(s, "unlinking"))

=============================================================================
