--------------------------- MODULE ReferenceImage ---------------------------
(***************************************************************************)
(* The thumbnail of one wine: the user's own photo until an image found on *)
(* the web is chosen, and again once the user comes back to it.  A choice  *)
(* moves a candidate's file, then writes the rows in a transaction, then   *)
(* effaces the file of the image it replaced; other choices, a return, an  *)
(* entry, the sweeping of candidates or a stop may come in between.        *)
(***************************************************************************)
EXTENDS Integers, FiniteSets

CONSTANTS
  Requests,   \* requests to choose or to come back; a choice names its photo itself
  OwnPhotos,  \* entry photos, by their rank of creation
  Candidates, \* images a search can propose for this wine
  NoPhoto     \* no thumbnail

ASSUME ReferenceAssumption ==
  /\ OwnPhotos \subseteq Nat /\ OwnPhotos \intersect Requests = {}
  /\ NoPhoto \notin Requests \union OwnPhotos

VARIABLES
  thumb,   \* referencePhotoId, referencePhotoPreviousId, and whether a source is set
  webRows, \* rows of purpose REFERENCE
  jpg,     \* normalized files present
  image,   \* candidates whose image is on the disk
  meta,    \* candidates whose description is on the disk
  stage,   \* age of each candidate: unknown, being written, told, over an hour old
  entered, \* own photos a movement of the wine refers to
  request, \* how far each request has come
  faults   \* stops of the api, and files that could not be effaced

refVars == <<thumb, webRows, jpg, image, meta, stage, entered, request, faults>>
store   == <<image, meta, stage>>

Phases == {"idle", "got", "moved", "storing", "undoing", "returning", "dropping", "ended"}
Thumb  == [current : Requests \union OwnPhotos \union {NoPhoto},
           previous : OwnPhotos \union {NoPhoto}, web : BOOLEAN]

Unread == [current |-> NoPhoto, previous |-> NoPhoto, web |-> FALSE]
Untouched(phase) == [phase |-> phase, takes |-> {}, drops |-> {}, seen |-> Unread]

ReferenceTypeOK ==
  /\ thumb \in Thumb
  /\ webRows \subseteq Requests
  /\ jpg \subseteq Requests \union OwnPhotos
  /\ image \subseteq Candidates /\ meta \subseteq Candidates
  /\ stage \in [Candidates -> {"unknown", "writing", "told", "aged"}]
  /\ entered \subseteq OwnPhotos
  /\ \A r \in Requests :
       /\ request[r].phase \in Phases
       /\ request[r].takes \subseteq Candidates
       /\ request[r].drops \subseteq Requests
  /\ faults \in Nat

ReferenceInit ==
  /\ thumb = Unread
  /\ webRows = {} /\ jpg = OwnPhotos
  /\ image = {} /\ meta = {} /\ stage = [c \in Candidates |-> "unknown"]
  /\ entered = {}
  /\ request = [r \in Requests |-> Untouched("idle")]
  /\ faults = 0

At(r, phase)    == request[r].phase = phase
End(r)          == request' = [request EXCEPT ![r] = Untouched("ended")]
Reach(r, phase) == request' = [request EXCEPT ![r].phase = phase]

-----------------------------------------------------------------------------
(* Candidates *)

\* The image is written, then its description; until then nobody is told of it.
AddImage(c) ==
  /\ stage[c] = "unknown"
  /\ stage' = [stage EXCEPT ![c] = "writing"]
  /\ image' = image \union {c}
  /\ UNCHANGED <<thumb, webRows, jpg, meta, entered, request, faults>>

AddMeta(c) ==
  /\ stage[c] = "writing"
  /\ stage' = [stage EXCEPT ![c] = "told"]
  /\ meta' = meta \union {c}
  /\ UNCHANGED <<thumb, webRows, jpg, image, entered, request, faults>>

Age(c) ==
  /\ stage[c] \in {"writing", "told"}
  /\ stage' = [stage EXCEPT ![c] = "aged"]
  /\ UNCHANGED <<thumb, webRows, jpg, image, meta, entered, request, faults>>

\* The sweeping at a start or a search: the image first, then the description.
Sweep(c) ==
  /\ stage[c] = "aged" /\ c \in image \union meta
  /\ IF c \in image
     THEN image' = image \ {c} /\ UNCHANGED meta
     ELSE meta' = meta \ {c} /\ UNCHANGED image
  /\ UNCHANGED <<thumb, webRows, jpg, stage, entered, request, faults>>

Valid(c) == c \in meta /\ stage[c] # "aged"

-----------------------------------------------------------------------------
(* Choosing a candidate *)

\* The wine is read to know it is there; the candidate must still be valid.
Get(r) ==
  /\ At(r, "idle")
  /\ \E c \in Candidates :
       /\ stage[c] \in {"told", "aged"}
       /\ IF Valid(c)
          THEN request' = [request EXCEPT ![r] = [@ EXCEPT !.phase = "got", !.takes = {c}, !.seen = thumb]]
          ELSE End(r)
  /\ UNCHANGED <<thumb, webRows, jpg, store, entered, faults>>

\* rename decides between two choices of one candidate: the loser is told 410.
Take(r) ==
  /\ At(r, "got")
  /\ IF \A c \in request[r].takes : Valid(c) /\ c \in image
     THEN /\ image' = image \ request[r].takes
          /\ jpg' = jpg \union {r}
          /\ Reach(r, "moved")
     ELSE End(r) /\ UNCHANGED <<image, jpg>>
  /\ UNCHANGED <<thumb, webRows, meta, stage, entered, faults>>

Forget(r) ==
  /\ At(r, "moved")
  /\ meta' = meta \ request[r].takes
  /\ Reach(r, "storing")
  /\ UNCHANGED <<thumb, webRows, jpg, image, stage, entered, faults>>

\* Mutant: the wine is the one found at the start of the request.
ReadBefore(r) == request[r].seen

\* lockWine: the wine as it is once its row is locked.
Locked(r) == thumb

\* The web image a new one replaces; the user's own photo is left alone.
Replaced(w) == {w.current} \intersect webRows

\* The thumbnail from before is remembered once.
Remembered(w) == IF Replaced(w) # {} THEN w.previous ELSE w.current

Store(r) ==
  /\ At(r, "storing")
  /\ LET w == Locked(r) IN
     /\ thumb' = [current |-> r, previous |-> Remembered(w), web |-> TRUE]
     /\ webRows' = (webRows \union {r}) \ Replaced(w)
     /\ request' = [request EXCEPT ![r] = [Untouched(IF Replaced(w) = {} THEN "ended" ELSE "dropping")
                                             EXCEPT !.drops = Replaced(w)]]
  /\ UNCHANGED <<jpg, store, entered, faults>>

StoreFails(r) ==
  /\ At(r, "storing")
  /\ Reach(r, "undoing")
  /\ UNCHANGED <<thumb, webRows, jpg, store, entered, faults>>

\* Mutant: the failed transaction is only reported.
UndoNothing(r) ==
  /\ At(r, "undoing")
  /\ End(r)
  /\ UNCHANGED <<thumb, webRows, jpg, store, entered, faults>>

Undo(r) ==
  /\ At(r, "undoing")
  /\ jpg' = jpg \ {r}
  /\ End(r)
  /\ UNCHANGED <<thumb, webRows, store, entered, faults>>

-----------------------------------------------------------------------------
(* Coming back to one's own photo *)

AskReturn(r) ==
  /\ At(r, "idle")
  /\ request' = [request EXCEPT ![r] = [@ EXCEPT !.phase = "returning", !.seen = thumb]]
  /\ UNCHANGED <<thumb, webRows, jpg, store, entered, faults>>

Latest == IF entered = {} THEN NoPhoto ELSE CHOOSE p \in entered : \A q \in entered : q <= p

Return(r) ==
  /\ At(r, "returning")
  /\ LET w == Locked(r) IN
     IF w.current \notin webRows
     THEN End(r) /\ UNCHANGED <<thumb, webRows>>
     ELSE /\ thumb' = [current |-> IF w.previous # NoPhoto THEN w.previous ELSE Latest,
                       previous |-> NoPhoto, web |-> FALSE]
          /\ webRows' = webRows \ {w.current}
          /\ request' = [request EXCEPT ![r] = [Untouched("dropping") EXCEPT !.drops = {w.current}]]
  /\ UNCHANGED <<jpg, store, entered, faults>>

Drop(r) ==
  /\ At(r, "dropping")
  /\ jpg' = jpg \ request[r].drops
  /\ End(r)
  /\ UNCHANGED <<thumb, webRows, store, entered, faults>>

\* The file resists: the choice stands, the log says so.
DropFails(r) ==
  /\ At(r, "dropping")
  /\ faults' = faults + 1
  /\ End(r)
  /\ UNCHANGED <<thumb, webRows, jpg, store, entered>>

-----------------------------------------------------------------------------
(* What else happens *)

\* A bottle comes in with its photo: it becomes the thumbnail if there is none.
Enter(p) ==
  /\ p \notin entered
  /\ entered' = entered \union {p}
  /\ thumb' = IF thumb.current = NoPhoto THEN [thumb EXCEPT !.current = p] ELSE thumb
  /\ UNCHANGED <<webRows, jpg, store, request, faults>>

Ongoing(r) == ~At(r, "idle") /\ ~At(r, "ended")

ReferenceApiStops ==
  /\ faults' = faults + 1
  /\ request' = [r \in Requests |-> IF Ongoing(r) THEN Untouched("ended") ELSE request[r]]
  /\ UNCHANGED <<thumb, webRows, jpg, store, entered>>

RequestStep(r) ==
  \/ Get(r) \/ Take(r) \/ Forget(r) \/ Store(r) \/ StoreFails(r) \/ Undo(r)
  \/ AskReturn(r) \/ Return(r) \/ Drop(r)

CandidateStep(c) == AddImage(c) \/ AddMeta(c) \/ Age(c) \/ Sweep(c)

ReferenceFault == ReferenceApiStops \/ \E r \in Requests : DropFails(r)

ReferenceNext ==
  \/ \E r \in Requests : RequestStep(r)
  \/ \E c \in Candidates : CandidateStep(c)
  \/ \E p \in OwnPhotos : Enter(p)

-----------------------------------------------------------------------------
(* Properties *)

\* The user's own photo is remembered when an image of the web takes its place
\* and as long as one is shown, and comes back when the user asks for it.
OwnPhotoRemembered ==
  [][/\ thumb.current \in OwnPhotos /\ thumb'.web => thumb'.previous = thumb.current
     /\ thumb.web /\ thumb'.web => thumb'.previous = thumb.previous
     /\ thumb.web /\ ~thumb'.web /\ entered # {} => thumb'.current \in entered]_refVars

\* What the wine shows, and what it would show again, can be shown: the photo and its
\* file are there, whoever replaced or effaced what meanwhile; it has one image of the
\* web at most.  And none is forgotten on the disk unless the api stopped or a file
\* resisted: it is shown, or the request that brought or replaced it goes on
\* (image-search.service.ts:291-352).
ImagesAccountedFor ==
  /\ \A p \in {thumb.current, thumb.previous} \ {NoPhoto} : p \in (webRows \union OwnPhotos) \intersect jpg
  /\ webRows = {thumb.current} \intersect Requests
  /\ faults = 0 =>
       \A f \in jpg \intersect Requests :
         \/ f \in webRows
         \/ Ongoing(f)
         \/ \E r \in Requests : At(r, "dropping") /\ f \in request[r].drops
=============================================================================
