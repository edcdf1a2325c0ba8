------------------------------- MODULE Photos -------------------------------
(***************************************************************************)
(* PhotosService: how a photo comes in, is taken back for an entry and is  *)
(* put aside.  An upload is a request that writes two files, then the row, *)
(* then, for an exit, the job: other requests, a confirmation, a dismissal *)
(* or a stop of the api may come between any two of these, and each of     *)
(* them may fail, which ends the request with what it has done so far.     *)
(*                                                                         *)
(* An upload names its photo itself, so a photo is known by the upload     *)
(* that would create it.                                                   *)
(***************************************************************************)
EXTENDS Naturals, FiniteSets

CONSTANTS
  Uploads,  \* upload requests, one photo each at most
  Image,    \* the bytes each one sends
  NoPhoto   \* no photo found, or none to answer with

ASSUME PhotosAssumption == NoPhoto \notin Uploads

VARIABLES
  row,        \* the photo table, by photo
  disk,       \* the files present, as <<photo, kind>>
  request,    \* how far each upload has come
  used,       \* photos a movement refers to
  dismissing, \* dismissals that have read the photo and found no movement
  apiStops    \* how often the api stopped

photoVars == <<row, disk, request, used, dismissing, apiStops>>

Purposes == {"ENTRY", "EXIT"}
Statuses == {"PENDING", "PROCESSING", "DONE", "FAILED"}
Kinds    == {"original", "normalized"}
NoRow    == [status |-> "absent"]
Row      == [status : Statuses, purpose : Purposes, dismissed : BOOLEAN]

Phases == {"idle", "writing", "written", "raced", "reclaiming", "queueing",
           "withdrawing", "erasing", "answered", "failed"}
Request == [phase : Phases, asks : Purposes, found : Uploads \union {NoPhoto}]

PhotosTypeOK ==
  /\ row \in [Uploads -> Row \union {NoRow}]
  /\ disk \subseteq Uploads \X Kinds
  /\ request \in [Uploads -> Request]
  /\ used \subseteq Uploads
  /\ dismissing \subseteq Uploads
  /\ apiStops \in Nat

PhotosInit ==
  /\ row = [u \in Uploads |-> NoRow]
  /\ disk = {}
  /\ request \in [Uploads -> [phase : {"idle"}, asks : Purposes, found : {NoPhoto}]]
  /\ used = {}
  /\ dismissing = {}
  /\ apiStops = 0

Exists(p)    == row[p] # NoRow
Twins(u)     == {p \in Uploads : Exists(p) /\ Image[p] = Image[u]}
FilesOf(p)   == {p} \X Kinds
Settled(p)   == row[p].status \in {"DONE", "FAILED"}
IsEntry(p)   == Exists(p) /\ row[p].purpose = "ENTRY"
IsExit(p)    == Exists(p) /\ row[p].purpose = "EXIT"

At(u, phase)    == request[u].phase = phase
Reach(u, phase) == request' = [request EXCEPT ![u].phase = phase]
Answer(u, p)    == request' = [request EXCEPT ![u].phase = "answered", ![u].found = p]

-----------------------------------------------------------------------------
(* An upload *)

\* The upload found the same image: an exit photo asked for an entry may be
\* taken back, any other photo is the answer.
Duplicate(u, p) ==
  IF request[u].asks = "ENTRY" /\ row[p].purpose = "EXIT"
  THEN request' = [request EXCEPT ![u].phase = "reclaiming", ![u].found = p]
  ELSE Answer(u, p)

Find(u) ==
  /\ At(u, "idle")
  /\ \/ Twins(u) = {} /\ Reach(u, "writing")
     \/ \E p \in Twins(u) : Duplicate(u, p)
  /\ UNCHANGED <<row, disk, used, dismissing, apiStops>>

\* normalize refuses the image: nothing was written.
Unreadable(u) ==
  /\ At(u, "writing")
  /\ disk \intersect FilesOf(u) = {}
  /\ Answer(u, NoPhoto)
  /\ UNCHANGED <<row, disk, used, dismissing, apiStops>>

\* The file the upload is writing: the original, then the normalized one.
Kind(u) == IF <<u, "original">> \in disk THEN "normalized" ELSE "original"
Begin(u) == disk' = disk \union {<<u, Kind(u)>>}

WriteFile(u) ==
  /\ At(u, "writing")
  /\ Begin(u)
  /\ IF Kind(u) = "normalized" THEN Reach(u, "written") ELSE UNCHANGED request
  /\ UNCHANGED <<row, used, dismissing, apiStops>>

\* The unique index on the cellar and the image decides between two uploads.
Create(u) ==
  /\ At(u, "written")
  /\ IF Twins(u) # {}
     THEN Reach(u, "raced") /\ UNCHANGED row
     ELSE /\ row' = [row EXCEPT ![u] =
               [status |-> "PENDING", purpose |-> request[u].asks, dismissed |-> FALSE]]
          /\ IF request[u].asks = "EXIT" THEN Reach(u, "queueing") ELSE Answer(u, u)
  /\ UNCHANGED <<disk, used, dismissing, apiStops>>

\* Mutant: the files are effaced whoever owns the photo that won.
EraseTwins(u) == disk' = disk \ {f \in disk : Image[f[1]] = Image[u]}

\* unlinkIgnoringMissing, one file after the other.
Erase(u) ==
  IF <<u, "original">> \in disk
  THEN disk' = disk \ {<<u, "original">>}
  ELSE disk' = disk \ FilesOf(u)

EraseLoser(u) ==
  /\ At(u, "raced")
  /\ disk \intersect FilesOf(u) # {}
  /\ Erase(u)
  /\ UNCHANGED <<row, request, used, dismissing, apiStops>>

FindWinner(u) ==
  /\ At(u, "raced")
  /\ disk \intersect FilesOf(u) = {}
  /\ \/ Twins(u) = {} /\ Answer(u, NoPhoto)
     \/ \E p \in Twins(u) : Duplicate(u, p)
  /\ UNCHANGED <<row, disk, used, dismissing, apiStops>>

\* Mutant: the movements are those read with the photo, a moment before.
ReclaimableAsRead(p) == IsExit(p)

\* The condition of updateMany, evaluated as the row is written.
Reclaimable(p) == IsExit(p) /\ p \notin used

Reclaim(u) ==
  /\ At(u, "reclaiming")
  /\ LET p == request[u].found IN
     /\ row' = IF Reclaimable(p) THEN [row EXCEPT ![p].purpose = "ENTRY"] ELSE row
     /\ Answer(u, p)
  /\ UNCHANGED <<disk, used, dismissing, apiStops>>

\* The job could not be queued in time: the row goes first, then the files.  A
\* movement that referred to the photo stays without it (ON DELETE SET NULL).
Withdraw(u) ==
  /\ At(u, "withdrawing")
  /\ row' = [row EXCEPT ![u] = NoRow]
  /\ used' = used \ {u}
  /\ Reach(u, "erasing")
  /\ UNCHANGED <<disk, dismissing, apiStops>>

EraseWithdrawn(u) ==
  /\ At(u, "erasing")
  /\ IF disk \intersect FilesOf(u) # {}
     THEN Erase(u) /\ UNCHANGED request
     ELSE Answer(u, NoPhoto) /\ UNCHANGED disk
  /\ UNCHANGED <<row, used, dismissing, apiStops>>

InProgress(u) == request[u].phase \notin {"idle", "answered", "failed"}

\* A request to the database, a write or an unlink fails: the handler throws where it
\* stands, and undoes nothing.  A write may have begun its file; a queueing that fails
\* is handled, so it is not one of these.
StepFails(u) ==
  /\ InProgress(u) /\ ~At(u, "queueing")
  /\ disk' = disk \/ (At(u, "writing") /\ Begin(u))
  /\ Reach(u, "failed")
  /\ UNCHANGED <<row, used, dismissing, apiStops>>

\* The handler's steps but the queueing, which the module of the job adds.
UploadStep(u) ==
  \/ Find(u) \/ WriteFile(u) \/ Create(u) \/ EraseLoser(u) \/ FindWinner(u)
  \/ Reclaim(u) \/ Withdraw(u) \/ EraseWithdrawn(u)

-----------------------------------------------------------------------------
(* What else happens to a photo *)

Known(p) == \E u \in Uploads : At(u, "answered") /\ request[u].found = p

\* A movement is recorded with the photo (its foreign key needs the row).
Confirm(p) ==
  /\ Known(p) /\ Exists(p) /\ p \notin used
  /\ used' = used \union {p}
  /\ UNCHANGED <<row, disk, request, dismissing, apiStops>>

DismissRead(p) ==
  /\ Known(p) /\ Exists(p) /\ p \notin used \union dismissing
  /\ ~row[p].dismissed
  /\ dismissing' = dismissing \union {p}
  /\ UNCHANGED <<row, disk, request, used, apiStops>>

DismissWrite(p) ==
  /\ p \in dismissing
  /\ dismissing' = dismissing \ {p}
  /\ row' = IF Exists(p) THEN [row EXCEPT ![p].dismissed = TRUE] ELSE row
  /\ UNCHANGED <<disk, request, used, apiStops>>

\* The api stops: every request in progress is lost where it stands.
ApiStops ==
  /\ apiStops' = apiStops + 1
  /\ request' = [u \in Uploads |-> IF InProgress(u) THEN [request[u] EXCEPT !.phase = "failed"] ELSE request[u]]
  /\ dismissing' = {}
  /\ UNCHANGED <<row, disk, used>>

-----------------------------------------------------------------------------
(* Properties *)

\* A photo in the table can be shown: its files are there before the row and stay
\* until it is gone, whatever uploads the same image meanwhile.  And a file without a
\* row is accounted for: its own upload is still at work on it, or ended in the middle,
\* by a step that failed or a stop of the api.  An upload that was answered, even with
\* a refusal or another photo, left no file behind (photos.service.ts:45-98).
FilesFollowRows ==
  /\ \A p \in Uploads : Exists(p) => FilesOf(p) \subseteq disk
  /\ \A f \in disk : Exists(f[1]) \/ InProgress(f[1]) \/ At(f[1], "failed")

\* A photo that has moved bottles keeps its purpose: an exit that took a bottle
\* out is never taken back for an entry, even if both are sent at once.  (An upload
\* whose job was not queued removes its photo, and a movement loses it with the row.)
UsedKeepsPurpose ==
  [][\A p \in used : row'[p] # NoRow => row'[p].purpose = row[p].purpose]_photoVars
=============================================================================
