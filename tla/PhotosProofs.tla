---------------------------- MODULE PhotosProofs ----------------------------
(***************************************************************************)
(* How a photo comes in and how an exit photo is read, for any number of   *)
(* uploads, attempts and stops.                                            *)
(***************************************************************************)
EXTENDS ExitReading, TLAPS

\* How far an upload has come tells whether its row is there, and which files are.
Stage(u) ==
  LET phase == request[u].phase IN
  /\ phase \in {"idle", "writing", "written", "raced", "reclaiming", "erasing"} => ~Exists(u)
  /\ phase \in {"queueing", "withdrawing"} => Exists(u)
  /\ phase = "written" => FilesOf(u) \subseteq disk
  /\ phase \in {"idle", "reclaiming"} => disk \intersect FilesOf(u) = {}
  /\ phase = "answered" => Exists(u) \/ disk \intersect FilesOf(u) = {}

FilesFirst == \A p \in Uploads : Exists(p) => FilesOf(p) \subseteq disk

\* The foreign key of the journal: a movement refers to a row, or to no photo.
UsedExist == \A p \in used : Exists(p)

\* The upload has not queued its job yet.
Early(u) == request[u].phase \in {"idle", "writing", "written", "raced", "reclaiming", "queueing"}

\* A job is queued once the row is written, before the upload answers with it; only the
\* last attempt ends without a retry, and it leaves a verdict.
JobOK(u) ==
  /\ Early(u) => job[u] = "none"
  /\ IsExit(u) /\ job[u] = "ended" => Settled(u)
  /\ IsExit(u) /\ request[u].phase = "answered" /\ request[u].found = u => job[u] # "none"
  /\ job[u] # "ended" => tries[u] < ExitAttempts

PhotosInv == TypeOK /\ (\A u \in Uploads : Stage(u)) /\ FilesFirst /\ UsedExist

\* An exit photo whose upload was answered has its job, or has been read or failed.
ExitsHaveTheirJob ==
  \A u \in Uploads :
    At(u, "answered") /\ request[u].found = u /\ IsExit(u) => Settled(u) \/ job[u] \in {"waiting", "taken", "calling"}

ExitInv == PhotosInv /\ \A u \in Uploads : JobOK(u)

-----------------------------------------------------------------------------
(* Rows *)

\* A row that is there is told from none, and a status may be written in it.
LEMMA RowFacts ==
  /\ NoRow \notin Row
  /\ \A r \in Row, s \in Statuses :
       /\ [r EXCEPT !.status = s] \in Row
       /\ [r EXCEPT !.status = s].purpose = r.purpose
       /\ [r EXCEPT !.status = s].status = s
  /\ \A r \in Row : [r EXCEPT !.purpose = "ENTRY"] \in Row /\ [r EXCEPT !.purpose = "ENTRY"].purpose = "ENTRY"
  /\ \A r \in Row : LET d == [r EXCEPT !.dismissed = TRUE] IN
       d \in Row /\ d.purpose = r.purpose /\ d.status = r.status
<1>1. NoRow \notin Row
  BY DEF NoRow, Row, Statuses
<1>2. ASSUME NEW r \in Row, NEW s \in Statuses
      PROVE  /\ [r EXCEPT !.status = s] \in Row
             /\ [r EXCEPT !.status = s].purpose = r.purpose
             /\ [r EXCEPT !.status = s].status = s
  BY <1>2 DEF Row
<1>3. ASSUME NEW r \in Row
      PROVE  [r EXCEPT !.purpose = "ENTRY"] \in Row /\ [r EXCEPT !.purpose = "ENTRY"].purpose = "ENTRY"
  BY <1>3 DEF Row, Purposes
<1>4. ASSUME NEW r \in Row
      PROVE  LET d == [r EXCEPT !.dismissed = TRUE] IN d \in Row /\ d.purpose = r.purpose /\ d.status = r.status
  <2> DEFINE yes == TRUE
             d == [r EXCEPT !.dismissed = yes]
  <2>1. yes \in BOOLEAN
    OBVIOUS
  <2> HIDE DEF yes
  <2>2. d \in Row /\ d.purpose = r.purpose /\ d.status = r.status
    BY <1>4, <2>1 DEF Row
  <2> QED
    BY <2>2 DEF yes
<1> QED
  BY <1>1, <1>2, <1>3, <1>4

\* The same photos are in the table, with the same purposes.
SameTable ==
  /\ row' \in [Uploads -> Row \union {NoRow}]
  /\ \A p \in Uploads : (row'[p] = NoRow <=> row[p] = NoRow) /\ (row[p] # NoRow => row'[p].purpose = row[p].purpose)

\* A status that is written by id changes that of one photo, if it is there.
LEMMA WriteFacts ==
  ASSUME TypeOK, NEW p \in Uploads, NEW s \in Statuses, Write(p, s)
  PROVE  /\ SameTable
         /\ \A q \in Uploads : q # p => row'[q] = row[q]
         /\ Exists(p) => row'[p].status = s
<1>1. row \in [Uploads -> Row \union {NoRow}]
  BY DEF TypeOK, PhotosTypeOK
<1>2. CASE Exists(p)
  <2> DEFINE r == [row[p] EXCEPT !.status = s]
  <2>1. row[p] \in Row
    BY <1>1, <1>2 DEF Exists
  <2>2. r \in Row /\ r.purpose = row[p].purpose /\ r.status = s
    BY <2>1, RowFacts
  <2>3. row' = [row EXCEPT ![p] = r]
    BY <1>2 DEF Write
  <2> HIDE DEF r
  <2> QED
    BY <1>1, <1>2, <2>1, <2>2, <2>3, RowFacts DEF SameTable, Exists
<1>3. CASE ~Exists(p)
  BY <1>1, <1>3 DEF Write, SameTable, Exists
<1> QED
  BY <1>2, <1>3

\* What the invariant of the photos needs of a step that leaves requests and files.
LEMMA TableKeeps ==
  ASSUME PhotosInv, SameTable, UNCHANGED <<disk, request, used, apiStops>>, TypeOK'
  PROVE  PhotosInv'
<1>1. \A p \in Uploads : Exists(p)' <=> Exists(p)
  BY DEF SameTable, Exists
<1>2. used \subseteq Uploads
  BY DEF PhotosInv, TypeOK, PhotosTypeOK
<1>3. \A u \in Uploads : Stage(u)'
  BY <1>1 DEF PhotosInv, Stage, FilesOf
<1>4. FilesFirst' /\ UsedExist'
  BY <1>1, <1>2 DEF PhotosInv, FilesFirst, UsedExist, FilesOf
<1> QED
  BY <1>3, <1>4 DEF PhotosInv


-----------------------------------------------------------------------------
(* Uploads *)

\* The files of two photos are apart.
LEMMA FileFacts ==
  /\ \A u \in Uploads : FilesOf(u) = {<<u, "original">>, <<u, "normalized">>} /\ FilesOf(u) \subseteq Uploads \X Kinds
  /\ \A u, v \in Uploads : u # v => FilesOf(u) \intersect FilesOf(v) = {}
<1>1. \A u \in Uploads : FilesOf(u) = {<<u, "original">>, <<u, "normalized">>} /\ FilesOf(u) \subseteq Uploads \X Kinds
  BY DEF FilesOf, Kinds
<1> QED
  BY <1>1

\* A phase that is reached, or an answer.
LEMMA RequestFacts ==
  ASSUME TypeOK, NEW u \in Uploads
  PROVE  /\ \A phase \in Phases : Reach(u, phase) =>
              /\ request' \in [Uploads -> Request]
              /\ request'[u].phase = phase /\ request'[u].found = request[u].found
              /\ \A v \in Uploads : v # u => request'[v] = request[v]
         /\ \A p \in Uploads \union {NoPhoto} : Answer(u, p) =>
              /\ request' \in [Uploads -> Request]
              /\ request'[u].phase = "answered" /\ request'[u].found = p
              /\ \A v \in Uploads : v # u => request'[v] = request[v]
         /\ \A p \in Uploads : Duplicate(u, p) =>
              /\ request' \in [Uploads -> Request]
              /\ request'[u].phase \in {"reclaiming", "answered"} /\ request'[u].found = p
              /\ \A v \in Uploads : v # u => request'[v] = request[v]
<1>1. request \in [Uploads -> Request]
  BY DEF TypeOK, PhotosTypeOK
<1>2. ASSUME NEW phase \in Phases, Reach(u, phase)
      PROVE  /\ request' \in [Uploads -> Request]
             /\ request'[u].phase = phase /\ request'[u].found = request[u].found
             /\ \A v \in Uploads : v # u => request'[v] = request[v]
  BY <1>1, <1>2 DEF Reach, Request
<1>3. ASSUME NEW p \in Uploads \union {NoPhoto}, NEW phase \in Phases,
             request' = [request EXCEPT ![u].phase = phase, ![u].found = p]
      PROVE  /\ request' \in [Uploads -> Request]
             /\ request'[u].phase = phase /\ request'[u].found = p
             /\ \A v \in Uploads : v # u => request'[v] = request[v]
  BY <1>1, <1>3 DEF Request
<1>4. "answered" \in Phases /\ "reclaiming" \in Phases
  BY DEF Phases
<1>5. ASSUME NEW p \in Uploads \union {NoPhoto}, Answer(u, p)
      PROVE  /\ request' \in [Uploads -> Request]
             /\ request'[u].phase = "answered" /\ request'[u].found = p
             /\ \A v \in Uploads : v # u => request'[v] = request[v]
  BY <1>3, <1>4, <1>5 DEF Answer
<1>6. ASSUME NEW p \in Uploads, Duplicate(u, p)
      PROVE  /\ request' \in [Uploads -> Request]
             /\ request'[u].phase \in {"reclaiming", "answered"} /\ request'[u].found = p
             /\ \A v \in Uploads : v # u => request'[v] = request[v]
  <2>1. CASE Answer(u, p)
    BY <1>5, <2>1
  <2>2. CASE request' = [request EXCEPT ![u].phase = "reclaiming", ![u].found = p]
    BY <1>3, <1>4, <2>2
  <2> QED
    BY <1>6, <2>1, <2>2 DEF Duplicate
<1> QED
  BY <1>2, <1>5, <1>6

\* What a step of an upload leaves of the rows and of the others, and when it may answer.
UploadMoves(u) ==
  /\ \A v \in Uploads : v # u => request'[v] = request[v] /\ (row'[v] = row[v] \/ ~IsExit(v)')
  /\ \A p \in used : row'[p] # NoRow => row'[p].purpose = row[p].purpose
  /\ Early(u)' => Early(u)
  /\ IsExit(u)' => row'[u] = row[u] \/ Early(u)
  /\ IsExit(u)' => request'[u].phase # "answered" \/ request'[u].found # u

\* An upload touches the row and the files of no other photo.
LEMMA OthersStay ==
  ASSUME PhotosInv, NEW u \in Uploads, TypeOK', used' \subseteq used,
         \A v \in Uploads : v # u => request'[v] = request[v] /\ row'[v] = row[v],
         \A v \in Uploads : v # u => disk' \intersect FilesOf(v) = disk \intersect FilesOf(v),
         Stage(u)', Exists(u)' => FilesOf(u) \subseteq disk', u \in used' => Exists(u)'
  PROVE  PhotosInv'
<1>1. ASSUME NEW v \in Uploads, v # u PROVE Stage(v)'
  <2>1. request'[v] = request[v] /\ row'[v] = row[v] /\ disk' \intersect FilesOf(v) = disk \intersect FilesOf(v)
    BY <1>1
  <2>2. FilesOf(v) \subseteq disk' <=> FilesOf(v) \subseteq disk
    BY <2>1
  <2>3. Stage(v)
    BY DEF PhotosInv
  <2> QED
    BY <2>1, <2>2, <2>3 DEF Stage, Exists, FilesOf
<1>2. FilesFirst'
  <2> SUFFICES ASSUME NEW v \in Uploads, v # u, row'[v] # NoRow PROVE FilesOf(v) \subseteq disk'
    BY DEF FilesFirst, Exists, FilesOf
  <2>1. disk' \intersect FilesOf(v) = disk \intersect FilesOf(v) /\ FilesOf(v) \subseteq disk
    BY DEF PhotosInv, FilesFirst, Exists
  <2> QED
    BY <2>1
<1>3. UsedExist'
  <2>1. used \subseteq Uploads /\ used' \subseteq used
    BY DEF PhotosInv, TypeOK, PhotosTypeOK
  <2> QED
    BY <2>1 DEF PhotosInv, UsedExist, Exists
<1> QED
  BY <1>1, <1>2, <1>3 DEF PhotosInv

\* Looking for the same image, before writing anything or after losing to it.
LEMMA FindKeeps ==
  ASSUME PhotosInv, NEW u \in Uploads, Find(u) \/ FindWinner(u), UNCHANGED workVars
  PROVE  PhotosInv' /\ UploadMoves(u)
<1>1. /\ TypeOK /\ Stage(u) /\ ~Exists(u) /\ disk \intersect FilesOf(u) = {}
      /\ UNCHANGED <<row, disk, used, dismissing, apiStops>> /\ u \notin used /\ Early(u)
  BY DEF PhotosInv, UsedExist, Find, FindWinner, At, Stage, Early
<1>2. "writing" \in Phases /\ Twins(u) \subseteq Uploads
  BY DEF Phases, Twins
<1>3. /\ request' \in [Uploads -> Request] /\ request'[u].phase \in {"writing", "reclaiming", "answered"}
      /\ \A v \in Uploads : v # u => request'[v] = request[v]
  <2>1. CASE Find(u)
    BY <1>1, <1>2, <2>1, RequestFacts DEF Find
  <2>2. CASE FindWinner(u)
    BY <1>1, <1>2, <2>2, RequestFacts DEF FindWinner
  <2> QED
    BY <2>1, <2>2
<1>4. TypeOK'
  BY <1>1, <1>3 DEF TypeOK, PhotosTypeOK, workVars
<1>5. Stage(u)'
  BY <1>1, <1>3 DEF Stage, Exists, FilesOf
<1>6. UploadMoves(u)
  BY <1>1, <1>3 DEF UploadMoves, IsExit, Exists
<1> QED
  BY <1>1, <1>3, <1>4, <1>5, <1>6, OthersStay DEF Exists

\* The files are written one after the other.
LEMMA WriteFileKeeps ==
  ASSUME PhotosInv, NEW u \in Uploads, WriteFile(u), UNCHANGED workVars
  PROVE  PhotosInv' /\ UploadMoves(u)
<1>1. /\ TypeOK /\ Stage(u) /\ ~Exists(u) /\ UNCHANGED <<row, used, dismissing, apiStops>> /\ u \notin used
      /\ request[u].phase = "writing"
  BY DEF PhotosInv, UsedExist, WriteFile, At, Stage
<1>2. "written" \in Phases /\ request \in [Uploads -> Request]
  BY <1>1 DEF Phases, TypeOK, PhotosTypeOK
<1>3. /\ request' \in [Uploads -> Request]
      /\ (request'[u].phase = "writing" \/ (request'[u].phase = "written" /\ FilesOf(u) \subseteq disk'))
      /\ \A v \in Uploads : v # u => request'[v] = request[v]
  <2>1. CASE Kind(u) = "normalized"
    <3>1. <<u, "original">> \in disk /\ disk' = disk \union {<<u, "normalized">>} /\ Reach(u, "written")
      BY <2>1 DEF WriteFile, Begin, Kind
    <3>2. FilesOf(u) \subseteq disk'
      BY <3>1, FileFacts
    <3> QED
      BY <1>1, <1>2, <3>1, <3>2, RequestFacts
  <2>2. CASE Kind(u) # "normalized"
    <3>1. request' = request
      BY <2>2 DEF WriteFile
    <3> QED
      BY <1>1, <1>2, <3>1
  <2> QED
    BY <2>1, <2>2
<1>4. /\ disk' \subseteq Uploads \X Kinds
      /\ \A v \in Uploads : v # u => disk' \intersect FilesOf(v) = disk \intersect FilesOf(v)
  <2>1. disk' = disk \union {<<u, Kind(u)>>}
    BY DEF WriteFile, Begin
  <2>2. disk \subseteq Uploads \X Kinds
    BY <1>1 DEF TypeOK, PhotosTypeOK
  <2>3. <<u, Kind(u)>> \in FilesOf(u)
    BY FileFacts DEF Kind
  <2> QED
    BY <2>1, <2>2, <2>3, FileFacts
<1>5. TypeOK'
  BY <1>1, <1>3, <1>4 DEF TypeOK, PhotosTypeOK, workVars
<1>6. Stage(u)'
  BY <1>1, <1>3 DEF Stage, Exists, FilesOf
<1>7. UploadMoves(u)
  BY <1>1, <1>3 DEF UploadMoves, IsExit, Exists, Early
<1> QED
  BY <1>1, <1>3, <1>4, <1>5, <1>6, <1>7, OthersStay DEF Exists

\* A row is created once its files are there, unless another upload has created it.
LEMMA CreateKeeps ==
  ASSUME PhotosInv, NEW u \in Uploads, Create(u), UNCHANGED workVars
  PROVE  PhotosInv' /\ UploadMoves(u)
<1>1. /\ TypeOK /\ Stage(u) /\ ~Exists(u) /\ UNCHANGED <<disk, used, dismissing, apiStops>> /\ u \notin used
      /\ request[u].phase = "written" /\ FilesOf(u) \subseteq disk
  BY DEF PhotosInv, UsedExist, Create, At, Stage
<1>2. {"raced", "queueing"} \subseteq Phases /\ request \in [Uploads -> Request] /\ row \in [Uploads -> Row \union {NoRow}]
  BY <1>1 DEF Phases, TypeOK, PhotosTypeOK
<1>3. CASE Twins(u) # {}
  <2>1. /\ request' \in [Uploads -> Request] /\ request'[u].phase = "raced" /\ row' = row
        /\ \A v \in Uploads : v # u => request'[v] = request[v]
    BY <1>1, <1>2, <1>3, RequestFacts DEF Create
  <2>2. TypeOK'
    BY <1>1, <2>1 DEF TypeOK, PhotosTypeOK, workVars
  <2>3. Stage(u)'
    BY <1>1, <2>1 DEF Stage, Exists, FilesOf
  <2>4. UploadMoves(u)
    BY <1>1, <2>1 DEF UploadMoves, IsExit, Exists, Early
  <2> QED
    BY <1>1, <2>1, <2>2, <2>3, <2>4, OthersStay DEF Exists
<1>4. CASE Twins(u) = {}
  <2> DEFINE no == FALSE
             r == [status |-> "PENDING", purpose |-> request[u].asks, dismissed |-> no]
  <2>1. /\ request' \in [Uploads -> Request]
        /\ request'[u].phase = "queueing" \/ (request'[u].phase = "answered" /\ request[u].asks # "EXIT")
        /\ \A v \in Uploads : v # u => request'[v] = request[v]
    BY <1>1, <1>2, <1>4, RequestFacts DEF Create
  <2>2. row' = [row EXCEPT ![u] = r]
    BY <1>4 DEF Create
  <2>3. no \in BOOLEAN
    OBVIOUS
  <2> HIDE DEF no
  <2>4. r \in Row /\ r.purpose = request[u].asks
    BY <1>2, <2>3 DEF Row, Request, Statuses
  <2> HIDE DEF r
  <2>5. /\ row' \in [Uploads -> Row \union {NoRow}] /\ row'[u] # NoRow /\ row'[u].purpose = request[u].asks
        /\ \A v \in Uploads : v # u => row'[v] = row[v]
    BY <1>2, <2>2, <2>4, RowFacts
  <2>6. TypeOK'
    BY <1>1, <2>1, <2>5 DEF TypeOK, PhotosTypeOK, workVars
  <2>7. Stage(u)'
    BY <1>1, <2>1, <2>5 DEF Stage, Exists, FilesOf
  <2>8. used \subseteq Uploads
    BY <1>1 DEF TypeOK, PhotosTypeOK
  <2>9. UploadMoves(u)
    BY <1>1, <2>1, <2>5, <2>8 DEF UploadMoves, IsExit, Exists, Early
  <2> QED
    BY <1>1, <2>1, <2>5, <2>6, <2>7, <2>9, OthersStay DEF Exists
<1> QED
  BY <1>3, <1>4

\* The files of an upload that has no row are effaced.
LEMMA EraseKeeps ==
  ASSUME PhotosInv, NEW u \in Uploads, EraseLoser(u) \/ EraseWithdrawn(u), UNCHANGED workVars
  PROVE  PhotosInv' /\ UploadMoves(u)
<1>1. /\ TypeOK /\ Stage(u) /\ ~Exists(u) /\ UNCHANGED <<row, used, dismissing, apiStops>> /\ u \notin used
      /\ request[u].phase \in {"raced", "erasing"}
  BY DEF PhotosInv, UsedExist, EraseLoser, EraseWithdrawn, At, Stage
<1>2. request \in [Uploads -> Request] /\ disk \subseteq Uploads \X Kinds
  BY <1>1 DEF TypeOK, PhotosTypeOK
<1>3. CASE Erase(u) /\ UNCHANGED request
  <2>1. /\ disk' \subseteq Uploads \X Kinds
        /\ \A v \in Uploads : v # u => disk' \intersect FilesOf(v) = disk \intersect FilesOf(v)
    BY <1>2, <1>3, FileFacts DEF Erase
  <2>2. TypeOK'
    BY <1>1, <1>3, <2>1 DEF TypeOK, PhotosTypeOK, workVars
  <2>3. Stage(u)'
    BY <1>1, <1>3 DEF Stage, Exists, FilesOf
  <2>4. UploadMoves(u)
    BY <1>1, <1>3 DEF UploadMoves, IsExit, Exists, Early
  <2> QED
    BY <1>1, <1>3, <2>1, <2>2, <2>3, <2>4, OthersStay DEF Exists
<1>4. CASE disk \intersect FilesOf(u) = {} /\ Answer(u, NoPhoto) /\ UNCHANGED disk
  <2>1. /\ request' \in [Uploads -> Request] /\ request'[u].phase = "answered"
        /\ \A v \in Uploads : v # u => request'[v] = request[v]
    BY <1>1, <1>4, RequestFacts
  <2>2. TypeOK'
    BY <1>1, <1>4, <2>1 DEF TypeOK, PhotosTypeOK, workVars
  <2>3. Stage(u)'
    BY <1>1, <1>4, <2>1 DEF Stage, Exists, FilesOf
  <2>4. UploadMoves(u)
    BY <1>1, <2>1 DEF UploadMoves, IsExit, Exists, Early
  <2> QED
    BY <1>1, <1>4, <2>1, <2>2, <2>3, <2>4, OthersStay DEF Exists
<1> QED
  BY <1>3, <1>4 DEF EraseLoser, EraseWithdrawn


\* A photo taken back for an entry is not one a movement refers to.
LEMMA ReclaimKeeps ==
  ASSUME PhotosInv, NEW u \in Uploads, Reclaim(u), UNCHANGED workVars
  PROVE  PhotosInv' /\ UploadMoves(u)
<1> DEFINE p == request[u].found
           r == [row[p] EXCEPT !.purpose = "ENTRY"]
<1>1. /\ TypeOK /\ Stage(u) /\ ~Exists(u) /\ UNCHANGED <<disk, used, dismissing, apiStops>>
      /\ disk \intersect FilesOf(u) = {} /\ u \notin used /\ used \subseteq Uploads
      /\ request \in [Uploads -> Request] /\ row \in [Uploads -> Row \union {NoRow}]
  BY DEF PhotosInv, UsedExist, Reclaim, At, Stage, TypeOK, PhotosTypeOK
<1>2. p \in Uploads \union {NoPhoto} /\ Answer(u, p)
  BY <1>1 DEF Reclaim, Request
<1>3. /\ row' \in [Uploads -> Row \union {NoRow}] /\ \A q \in used : row'[q] = row[q]
      /\ \A q \in Uploads : row'[q] = row[q] \/ ~IsExit(q)'
      /\ \A q \in Uploads : Exists(q)' <=> Exists(q)
  <2>1. CASE p \in Uploads /\ Exists(p) /\ p \notin used /\ row' = [row EXCEPT ![p] = r]
    <3>1. row[p] \in Row
      BY <1>1, <2>1 DEF Exists
    <3>2. r \in Row /\ r.purpose = "ENTRY"
      BY <3>1, RowFacts
    <3> HIDE DEF r
    <3> QED
      BY <1>1, <2>1, <3>1, <3>2, RowFacts DEF Exists, IsExit
  <2>2. CASE row' = row
    BY <1>1, <2>2 DEF Exists
  <2>3. row' = row \/ (Exists(p) /\ p \notin used /\ row' = [row EXCEPT ![p] = r])
    BY DEF Reclaim, Reclaimable, IsExit
  <2>4. ASSUME p \notin Uploads, row' = [row EXCEPT ![p] = r] PROVE row' = row
    BY <1>1, <2>4
  <2> QED
    BY <2>1, <2>2, <2>3, <2>4
<1>4. /\ request' \in [Uploads -> Request] /\ request'[u].phase = "answered"
      /\ \A v \in Uploads : v # u => request'[v] = request[v]
  BY <1>1, <1>2, RequestFacts
<1>5. TypeOK'
  BY <1>1, <1>3, <1>4 DEF TypeOK, PhotosTypeOK, workVars
<1>6. \A v \in Uploads : Stage(v)'
  <2>1. Stage(u)'
    BY <1>1, <1>3, <1>4 DEF Stage, FilesOf
  <2>2. ASSUME NEW v \in Uploads, v # u PROVE Stage(v)'
    <3>1. Stage(v)
      BY DEF PhotosInv
    <3> QED
      BY <1>1, <1>3, <1>4, <2>2, <3>1 DEF Stage, FilesOf
  <2> QED
    BY <2>1, <2>2
<1>7. FilesFirst' /\ UsedExist'
  BY <1>1, <1>3 DEF PhotosInv, FilesFirst, UsedExist, FilesOf
<1>8. UploadMoves(u)
  BY <1>1, <1>3, <1>4 DEF UploadMoves, IsExit, Exists, Early
<1> QED
  BY <1>5, <1>6, <1>7, <1>8 DEF PhotosInv

\* A row whose job was not queued is removed, and a movement that referred to it is left
\* without a photo.
LEMMA WithdrawKeeps ==
  ASSUME PhotosInv, NEW u \in Uploads, Withdraw(u), UNCHANGED workVars
  PROVE  PhotosInv' /\ UploadMoves(u)
<1>1. /\ TypeOK /\ Stage(u) /\ UNCHANGED <<disk, dismissing, apiStops>> /\ used' = used \ {u}
      /\ request \in [Uploads -> Request] /\ row \in [Uploads -> Row \union {NoRow}] /\ "erasing" \in Phases
      /\ used \subseteq Uploads
  BY DEF PhotosInv, Withdraw, TypeOK, PhotosTypeOK, Phases
<1>2. /\ request' \in [Uploads -> Request] /\ request'[u].phase = "erasing"
      /\ \A v \in Uploads : v # u => request'[v] = request[v]
  BY <1>1, RequestFacts DEF Withdraw
<1>3. /\ row' \in [Uploads -> Row \union {NoRow}] /\ row'[u] = NoRow
      /\ \A v \in Uploads : v # u => row'[v] = row[v]
  BY <1>1 DEF Withdraw
<1>4. TypeOK'
  BY <1>1, <1>2, <1>3 DEF TypeOK, PhotosTypeOK, workVars
<1>5. Stage(u)'
  BY <1>1, <1>2, <1>3 DEF Stage, Exists, FilesOf
<1>6. UploadMoves(u)
  BY <1>1, <1>2, <1>3 DEF UploadMoves, IsExit, Exists, Early
<1> QED
  BY <1>1, <1>2, <1>3, <1>4, <1>5, <1>6, OthersStay DEF Exists

\* A step that fails ends the request where it stands; a write may have begun its file.
LEMMA StepFailsKeeps ==
  ASSUME PhotosInv, NEW u \in Uploads, StepFails(u), UNCHANGED workVars
  PROVE  PhotosInv' /\ UploadMoves(u)
<1>1. /\ TypeOK /\ Stage(u) /\ UNCHANGED <<row, used, dismissing, apiStops>> /\ used \subseteq Uploads
      /\ disk \subseteq Uploads \X Kinds /\ "failed" \in Phases /\ UsedExist
      /\ (Exists(u) => FilesOf(u) \subseteq disk)
  BY DEF PhotosInv, FilesFirst, StepFails, TypeOK, PhotosTypeOK, Phases
<1>2. /\ request' \in [Uploads -> Request] /\ request'[u].phase = "failed"
      /\ \A v \in Uploads : v # u => request'[v] = request[v]
  BY <1>1, RequestFacts DEF StepFails
<1>3. /\ disk' \subseteq Uploads \X Kinds /\ disk \subseteq disk'
      /\ \A v \in Uploads : v # u => disk' \intersect FilesOf(v) = disk \intersect FilesOf(v)
  <2>1. disk' = disk \/ disk' = disk \union {<<u, Kind(u)>>}
    BY DEF StepFails, Begin
  <2>2. <<u, Kind(u)>> \in FilesOf(u)
    BY FileFacts DEF Kind
  <2> QED
    BY <1>1, <2>1, <2>2, FileFacts
<1>4. TypeOK'
  BY <1>1, <1>2, <1>3 DEF TypeOK, PhotosTypeOK, workVars
<1>5. Stage(u)'
  BY <1>2 DEF Stage
<1>6. UploadMoves(u)
  BY <1>1, <1>2 DEF UploadMoves, IsExit, Exists, Early
<1>7. Exists(u)' => FilesOf(u) \subseteq disk'
  BY <1>1, <1>3 DEF Exists
<1>8. u \in used' => Exists(u)'
  BY <1>1 DEF UsedExist, Exists
<1> QED
  BY <1>1, <1>2, <1>3, <1>4, <1>5, <1>6, <1>7, <1>8, OthersStay

\* The job is queued, or its queueing has failed.
LEMMA EnqueueKeeps ==
  ASSUME PhotosInv, NEW u \in Uploads, Enqueue(u) \/ EnqueueFails(u)
  PROVE  /\ PhotosInv' /\ UNCHANGED <<row, used>>
         /\ \A v \in Uploads : v # u => request'[v] = request[v] /\ job'[v] = job[v]
         /\ job' \in [Uploads -> JobStates] /\ job'[u] \in {"none", "waiting"}
         /\ (request'[u].phase = "withdrawing" \/ (request'[u].phase = "answered" /\ job'[u] = "waiting"))
<1>1. /\ TypeOK /\ Stage(u) /\ Exists(u) /\ UNCHANGED <<row, disk, used, dismissing, apiStops>>
      /\ UNCHANGED <<tries, up, recovery, workerStops>> /\ "withdrawing" \in Phases /\ FilesOf(u) \subseteq disk
      /\ job \in [Uploads -> JobStates]
  BY DEF PhotosInv, FilesFirst, Enqueue, EnqueueFails, At, Stage, TypeOK, PhotosTypeOK, Phases
<1>2. /\ request' \in [Uploads -> Request] /\ \A v \in Uploads : v # u => request'[v] = request[v] /\ job'[v] = job[v]
      /\ job' \in [Uploads -> JobStates] /\ job'[u] \in {"none", "waiting"}
      /\ (request'[u].phase = "withdrawing" \/ (request'[u].phase = "answered" /\ job'[u] = "waiting"))
  <2>1. CASE Enqueue(u)
    <3>1. Answer(u, u) /\ job' = [job EXCEPT ![u] = "waiting"]
      BY <2>1 DEF Enqueue
    <3> QED
      BY <1>1, <3>1, RequestFacts DEF JobStates
  <2>2. CASE EnqueueFails(u)
    <3>1. PICK landed \in {"none", "waiting"} : Reach(u, "withdrawing") /\ job' = [job EXCEPT ![u] = landed]
      BY <2>2 DEF EnqueueFails
    <3>2. /\ request' \in [Uploads -> Request] /\ request'[u].phase = "withdrawing"
          /\ \A v \in Uploads : v # u => request'[v] = request[v]
      BY <1>1, <3>1, RequestFacts
    <3>3. /\ job' \in [Uploads -> JobStates] /\ job'[u] \in {"none", "waiting"}
          /\ \A v \in Uploads : v # u => job'[v] = job[v]
      BY <1>1, <3>1 DEF JobStates
    <3> QED
      BY <3>2, <3>3
  <2> QED
    BY <2>1, <2>2
<1>3. TypeOK'
  BY <1>1, <1>2 DEF TypeOK, PhotosTypeOK
<1>4. Stage(u)'
  BY <1>1, <1>2 DEF Stage, Exists, FilesOf
<1> QED
  BY <1>1, <1>2, <1>3, <1>4, OthersStay DEF Exists


\* An upload leaves every job as its photo needs it.
LEMMA UploadJobs ==
  ASSUME ExitInv, NEW u \in Uploads, UploadMoves(u), UNCHANGED workVars
  PROVE  \A v \in Uploads : JobOK(v)'
<1>1. UNCHANGED <<job, tries>> /\ \A v \in Uploads : JobOK(v)
  BY DEF workVars, ExitInv
<1>2. JobOK(u)'
  BY <1>1 DEF UploadMoves, JobOK, Early, IsExit, Exists, Settled
<1>3. ASSUME NEW v \in Uploads, v # u PROVE JobOK(v)'
  <2>1. request'[v] = request[v] /\ (row'[v] = row[v] \/ ~IsExit(v)')
    BY <1>3 DEF UploadMoves
  <2> QED
    BY <1>1, <2>1 DEF JobOK, Early, IsExit, Exists, Settled
<1> QED
  BY <1>2, <1>3

\* The image cannot be read: nothing was written.
LEMMA UnreadableKeeps ==
  ASSUME PhotosInv, NEW u \in Uploads, Unreadable(u), UNCHANGED workVars
  PROVE  PhotosInv' /\ UploadMoves(u)
<1>1. /\ TypeOK /\ Stage(u) /\ ~Exists(u) /\ disk \intersect FilesOf(u) = {} /\ Early(u)
      /\ UNCHANGED <<row, disk, used, dismissing, apiStops>> /\ u \notin used
  BY DEF PhotosInv, UsedExist, Unreadable, At, Stage, Early
<1>2. /\ request' \in [Uploads -> Request] /\ request'[u].phase = "answered"
      /\ \A v \in Uploads : v # u => request'[v] = request[v]
  BY <1>1, RequestFacts DEF Unreadable
<1>3. TypeOK'
  BY <1>1, <1>2 DEF TypeOK, PhotosTypeOK, workVars
<1>4. Stage(u)' /\ UploadMoves(u)
  BY <1>1, <1>2 DEF Stage, UploadMoves, IsExit, Exists, FilesOf
<1> QED
  BY <1>1, <1>2, <1>3, <1>4, OthersStay DEF Exists

\* Every step of an upload keeps what photos and jobs have in common.
LEMMA UploadKeeps ==
  ASSUME ExitInv, NEW u \in Uploads, UploadStep(u) \/ Unreadable(u) \/ StepFails(u), UNCHANGED workVars
  PROVE  ExitInv' /\ \A p \in used : row'[p] # NoRow => row'[p].purpose = row[p].purpose
<1>1. PhotosInv
  BY DEF ExitInv
<1>2. PhotosInv' /\ UploadMoves(u)
  BY <1>1, FindKeeps, WriteFileKeeps, CreateKeeps, EraseKeeps, ReclaimKeeps, WithdrawKeeps, UnreadableKeeps,
     StepFailsKeeps
     DEF UploadStep
<1>3. \A v \in Uploads : JobOK(v)'
  BY <1>2, UploadJobs
<1> QED
  BY <1>2, <1>3 DEF ExitInv, UploadMoves

\* So does the queueing of its job.
LEMMA QueueingKeeps ==
  ASSUME ExitInv, NEW u \in Uploads, Enqueue(u) \/ EnqueueFails(u)
  PROVE  ExitInv' /\ \A p \in used : row'[p] # NoRow => row'[p].purpose = row[p].purpose
<1>1. PhotosInv /\ JobOK(u) /\ Early(u) /\ UNCHANGED tries
  BY DEF ExitInv, Enqueue, EnqueueFails, At, Early
<1>2. /\ PhotosInv' /\ UNCHANGED <<row, used>>
      /\ \A v \in Uploads : v # u => request'[v] = request[v] /\ job'[v] = job[v]
      /\ job'[u] \in {"none", "waiting"}
      /\ request'[u].phase = "withdrawing" \/ (request'[u].phase = "answered" /\ job'[u] = "waiting")
  BY <1>1, EnqueueKeeps
<1>3. JobOK(u)'
  BY <1>1, <1>2 DEF JobOK, Early, IsExit, Exists
<1>4. ASSUME NEW v \in Uploads, v # u PROVE JobOK(v)'
  <2>1. request'[v] = request[v] /\ job'[v] = job[v] /\ tries' = tries /\ row' = row /\ JobOK(v)
    BY <1>1, <1>2, <1>4 DEF ExitInv
  <2> QED
    BY <2>1 DEF JobOK, Early, IsExit, Exists, Settled
<1> QED
  BY <1>2, <1>3, <1>4 DEF ExitInv

-----------------------------------------------------------------------------
(* Everybody else *)

\* Confirming, putting aside, and a stop of the api, which loses the requests under way.
LEMMA UsersKeep ==
  ASSUME ExitInv, NEW p \in Uploads, Confirm(p) \/ DismissRead(p) \/ DismissWrite(p), UNCHANGED workVars
  PROVE  ExitInv' /\ SameTable
<1>1. /\ PhotosInv /\ TypeOK /\ PhotosTypeOK /\ row \in [Uploads -> Row \union {NoRow}]
      /\ UNCHANGED <<disk, request, apiStops, job, tries>> /\ \A u \in Uploads : JobOK(u)
  BY DEF ExitInv, PhotosInv, TypeOK, PhotosTypeOK, Confirm, DismissRead, DismissWrite, workVars
<1>2. CASE DismissWrite(p)
  <2> DEFINE r == [row[p] EXCEPT !.dismissed = TRUE]
  <2>1. /\ SameTable
        /\ \A u \in Uploads : row'[u] = row[u] \/ (Exists(u) /\ row'[u].status = row[u].status)
    <3>1. CASE Exists(p)
      <4>1. row[p] \in Row /\ row' = [row EXCEPT ![p] = r]
        BY <1>1, <1>2, <3>1 DEF Exists, DismissWrite
      <4>2. r \in Row /\ r.purpose = row[p].purpose /\ r.status = row[p].status
        BY <4>1, RowFacts
      <4> HIDE DEF r
      <4> QED
        BY <1>1, <3>1, <4>1, <4>2, RowFacts DEF SameTable, Exists
    <3>2. CASE ~Exists(p)
      BY <1>1, <1>2, <3>2 DEF SameTable, DismissWrite
    <3> QED
      BY <3>1, <3>2
  <2>2. TypeOK'
    BY <1>1, <1>2, <2>1 DEF TypeOK, PhotosTypeOK, DismissWrite, SameTable, workVars
  <2>3. PhotosInv'
    BY <1>1, <1>2, <2>1, <2>2, TableKeeps DEF DismissWrite
  <2>4. ASSUME NEW u \in Uploads PROVE JobOK(u)'
    <3>1. JobOK(u) /\ (row'[u] = row[u] \/ (Exists(u) /\ row'[u].status = row[u].status))
          /\ (Exists(u) => row'[u].purpose = row[u].purpose)
      BY <1>1, <2>1 DEF SameTable, Exists
    <3> QED
      BY <1>1, <3>1 DEF JobOK, Early, IsExit, Exists, Settled
  <2> QED
    BY <2>1, <2>3, <2>4 DEF ExitInv
<1>3. CASE Confirm(p) \/ DismissRead(p)
  <2>1. row' = row /\ SameTable
    BY <1>1, <1>3 DEF Confirm, DismissRead, SameTable
  <2>2. TypeOK'
    BY <1>1, <1>3 DEF TypeOK, PhotosTypeOK, Confirm, DismissRead, workVars
  <2>3. \A u \in Uploads : Stage(u)'
    BY <1>1, <2>1 DEF PhotosInv, Stage, Exists, FilesOf
  <2>4. FilesFirst'
    BY <1>1, <2>1 DEF PhotosInv, FilesFirst, Exists, FilesOf
  <2>5. UsedExist'
    BY <1>1, <1>3, <2>1 DEF PhotosInv, UsedExist, Exists, Confirm, DismissRead
  <2>6. \A u \in Uploads : JobOK(u)'
    BY <1>1, <2>1 DEF JobOK, Early, IsExit, Exists, Settled
  <2> QED
    BY <2>1, <2>2, <2>3, <2>4, <2>5, <2>6 DEF ExitInv, PhotosInv
<1> QED
  BY <1>2, <1>3

\* A stop of the api loses the requests in progress, and nothing else.
LEMMA StopKeeps ==
  ASSUME ExitInv, ApiStops, UNCHANGED workVars
  PROVE  ExitInv' /\ SameTable
<1>1. /\ PhotosInv /\ TypeOK /\ PhotosTypeOK /\ request \in [Uploads -> Request] /\ apiStops \in Nat
      /\ UNCHANGED <<row, disk, used, job, tries>> /\ \A u \in Uploads : JobOK(u)
  BY DEF ExitInv, PhotosInv, TypeOK, PhotosTypeOK, ApiStops, workVars
<1>2. apiStops' \in Nat
  BY <1>1 DEF ApiStops
<1>3. ASSUME NEW u \in Uploads
      PROVE  /\ request'[u] \in Request
             /\ request'[u] = request[u] \/ request'[u].phase = "failed"
  <2>1. request'[u] = IF InProgress(u) THEN [request[u] EXCEPT !.phase = "failed"] ELSE request[u]
    BY DEF ApiStops
  <2> QED
    BY <1>1, <2>1 DEF Request, Phases
<1>4. request' \in [Uploads -> Request]
  <2>1. request' = [u \in Uploads |-> request'[u]]
    BY DEF ApiStops
  <2> QED
    BY <1>3, <2>1
<1>5. TypeOK'
  BY <1>1, <1>2, <1>4 DEF TypeOK, PhotosTypeOK, ApiStops, workVars
<1>6. \A u \in Uploads : Stage(u)'
  <2> SUFFICES ASSUME NEW u \in Uploads PROVE Stage(u)'
    OBVIOUS
  <2>1. Stage(u)
    BY <1>1 DEF PhotosInv
  <2> QED
    BY <1>1, <1>2, <1>3, <2>1 DEF Stage, Exists, FilesOf
<1>7. FilesFirst' /\ UsedExist' /\ SameTable
  BY <1>1 DEF PhotosInv, FilesFirst, UsedExist, Exists, FilesOf, SameTable, PhotosTypeOK
<1>8. \A u \in Uploads : JobOK(u)'
  BY <1>1, <1>3 DEF JobOK, Early, IsExit, Exists, Settled
<1> QED
  BY <1>5, <1>6, <1>7, <1>8 DEF ExitInv, PhotosInv

\* An attempt that threw is tried again or was the last.
LEMMA ThrowFacts ==
  ASSUME TypeOK, NEW p \in Uploads, tries[p] < ExitAttempts, Throw(p)
  PROVE  /\ job' \in [Uploads -> JobStates] /\ tries' \in [Uploads -> 0..ExitAttempts]
         /\ \/ job'[p] = "waiting" /\ tries'[p] < ExitAttempts
            \/ job'[p] = "ended" /\ LastAttempt(p)
         /\ \A q \in Uploads : q # p => job'[q] = job[q] /\ tries'[q] = tries[q]
<1>1. /\ job \in [Uploads -> JobStates] /\ tries \in [Uploads -> 0..ExitAttempts] /\ ExitAttempts \in Nat
      /\ tries[p] \in Nat
  BY ExitReadingAssumption DEF TypeOK
<1>2. tries' = [tries EXCEPT ![p] = tries[p] + 1] /\ tries[p] + 1 \in 0..ExitAttempts
  BY <1>1 DEF Throw
<1>3. tries' \in [Uploads -> 0..ExitAttempts] /\ tries'[p] = tries[p] + 1
      /\ \A q \in Uploads : q # p => tries'[q] = tries[q]
  BY <1>1, <1>2
<1>4. CASE tries[p] + 1 < ExitAttempts
  <2>1. job' = [job EXCEPT ![p] = "waiting"]
    BY <1>4 DEF Throw
  <2> QED
    BY <1>1, <1>3, <1>4, <2>1 DEF JobStates
<1>5. CASE ~(tries[p] + 1 < ExitAttempts)
  <2>1. job' = [job EXCEPT ![p] = "ended"]
    BY <1>5 DEF Throw
  <2>2. LastAttempt(p)
    BY <1>1, <1>5 DEF LastAttempt
  <2> QED
    BY <1>1, <1>3, <2>1, <2>2 DEF JobStates
<1> QED
  BY <1>4, <1>5

\* What a job or a recovery needs to keep: the table, the requests, the other jobs.
LEMMA ReadingKeeps ==
  ASSUME ExitInv, NEW p \in Uploads, SameTable, UNCHANGED <<disk, request, used, dismissing, apiStops>>,
         up' \in BOOLEAN, recovery' \in [due : BOOLEAN, list : SUBSET Uploads], workerStops' \in 0..MaxStops,
         job' \in [Uploads -> JobStates], tries' \in [Uploads -> 0..ExitAttempts],
         \A q \in Uploads : q # p => row'[q] = row[q] /\ job'[q] = job[q] /\ tries'[q] = tries[q],
         job'[p] = "none" <=> job[p] = "none",
         IsExit(p)' /\ job'[p] = "ended" => Settled(p)', job'[p] # "ended" => tries'[p] < ExitAttempts
  PROVE  ExitInv'
<1>1. TypeOK'
  BY DEF ExitInv, PhotosInv, TypeOK, PhotosTypeOK, SameTable
<1>2. PhotosInv'
  BY <1>1, TableKeeps DEF ExitInv
<1>3. IsExit(p)' => IsExit(p)
  BY DEF SameTable, IsExit, Exists
<1>4. JobOK(p)'
  BY <1>3 DEF ExitInv, JobOK, Early
<1>5. ASSUME NEW q \in Uploads, q # p PROVE JobOK(q)'
  <2>1. JobOK(q) /\ row'[q] = row[q] /\ job'[q] = job[q] /\ tries'[q] = tries[q] /\ request' = request
    BY <1>5 DEF ExitInv
  <2> QED
    BY <2>1 DEF JobOK, Early, IsExit, Exists, Settled
<1> QED
  BY <1>2, <1>4, <1>5 DEF ExitInv


\* Every step of a job: a photo that is still for an exit when its job ends has a verdict.
LEMMA JobsKeep ==
  ASSUME ExitInv, NEW p \in Uploads, JobStep(p)
  PROVE  ExitInv' /\ SameTable
<1>1. /\ TypeOK /\ JobOK(p) /\ UNCHANGED <<disk, request, used, dismissing, apiStops>>
      /\ up' \in BOOLEAN /\ recovery' \in [due : BOOLEAN, list : SUBSET Uploads] /\ workerStops' \in 0..MaxStops
      /\ job \in [Uploads -> JobStates] /\ tries \in [Uploads -> 0..ExitAttempts]
      /\ row \in [Uploads -> Row \union {NoRow}]
  BY DEF ExitInv, PhotosInv, TypeOK, PhotosTypeOK, JobStep, Take, Mark, Read, GiveUp, Fail, FailWithoutPhoto,
         Otherwise, photoVars
<1>2. job[p] \in {"waiting", "taken", "calling"} /\ tries[p] < ExitAttempts
  BY <1>1 DEF JobStep, Take, Mark, Read, GiveUp, Fail, FailWithoutPhoto, Calling, JobOK
<1>3. ASSUME SameTable, \A q \in Uploads : q # p => row'[q] = row[q],
             \/ UNCHANGED tries /\ job' = [job EXCEPT ![p] = "taken"]
             \/ UNCHANGED tries /\ job' = [job EXCEPT ![p] = "calling"]
             \/ End(p) /\ (IsExit(p)' => Settled(p)')
             \/ Throw(p) /\ (IsExit(p)' /\ LastAttempt(p) => Settled(p)')
      PROVE  ExitInv'
  <2>1. CASE Throw(p) /\ (IsExit(p)' /\ LastAttempt(p) => Settled(p)')
    <3>1. /\ job' \in [Uploads -> JobStates] /\ tries' \in [Uploads -> 0..ExitAttempts]
          /\ \/ job'[p] = "waiting" /\ tries'[p] < ExitAttempts
             \/ job'[p] = "ended" /\ LastAttempt(p)
          /\ \A q \in Uploads : q # p => job'[q] = job[q] /\ tries'[q] = tries[q]
      BY <1>1, <1>2, <2>1, ThrowFacts
    <3> QED
      BY <1>1, <1>2, <1>3, <2>1, <3>1, ReadingKeeps
  <2>2. ASSUME NEW state \in {"taken", "calling", "ended"}, job' = [job EXCEPT ![p] = state], tries' = tries,
               state = "ended" /\ IsExit(p)' => Settled(p)'
        PROVE  ExitInv'
    <3>1. /\ job' \in [Uploads -> JobStates] /\ job'[p] = state
          /\ \A q \in Uploads : q # p => job'[q] = job[q]
      BY <1>1, <2>2 DEF JobStates
    <3>2. job'[p] # "none" /\ job[p] # "none"
      BY <1>2, <2>2, <3>1
    <3> QED
      BY <1>1, <1>2, <1>3, <2>2, <3>1, <3>2, ReadingKeeps
  <2> QED
    BY <1>3, <2>1, <2>2 DEF End
<1>4. CASE Take(p)
  <2>1. row' = row /\ SameTable
    BY <1>1, <1>4 DEF Take, photoVars, SameTable
  <2>2. IsEntry(p) => ~IsExit(p)'
    BY <2>1 DEF IsEntry, IsExit, Exists
  <2> QED
    BY <1>3, <1>4, <2>1, <2>2 DEF Take
<1>5. CASE Mark(p)
  <2>1. SameTable /\ \A q \in Uploads : q # p => row'[q] = row[q]
    BY <1>1, <1>5, WriteFacts DEF Mark, Statuses
  <2>2. ~Exists(p) => ~IsExit(p)'
    BY <2>1 DEF SameTable, IsExit, Exists
  <2> QED
    BY <1>3, <1>5, <2>1, <2>2 DEF Mark
<1>6. ASSUME NEW status \in {"DONE", "FAILED"}, Exists(p), Write(p, status), End(p) PROVE ExitInv' /\ SameTable
  <2>1. SameTable /\ (\A q \in Uploads : q # p => row'[q] = row[q]) /\ Settled(p)'
    BY <1>1, <1>6, WriteFacts DEF Statuses, Settled
  <2> QED
    BY <1>3, <1>6, <2>1
<1>7. CASE Fail(p)
  <2> DEFINE status == IF LastAttempt(p) THEN "FAILED" ELSE "PENDING"
  <2>1. Exists(p) /\ Write(p, status) /\ status \in Statuses /\ Throw(p)
    BY <1>7 DEF Fail, Statuses
  <2>2. LastAttempt(p) => status = "FAILED"
    OBVIOUS
  <2> HIDE DEF status
  <2>3. SameTable /\ (\A q \in Uploads : q # p => row'[q] = row[q]) /\ row'[p].status = status
    BY <1>1, <2>1, WriteFacts
  <2>4. LastAttempt(p) => Settled(p)'
    BY <2>2, <2>3 DEF Settled
  <2> QED
    BY <1>3, <2>1, <2>3, <2>4
<1>8. CASE FailWithoutPhoto(p)
  <2>1. row' = row /\ SameTable /\ ~IsExit(p)'
    BY <1>1, <1>8 DEF FailWithoutPhoto, SameTable, IsExit, Exists
  <2> QED
    BY <1>3, <1>8, <2>1 DEF FailWithoutPhoto
<1>9. CASE Read(p) \/ GiveUp(p)
  BY <1>6, <1>9 DEF Read, GiveUp
<1> QED
  BY <1>4, <1>5, <1>7, <1>8, <1>9 DEF JobStep

\* The worker stops, starts again, and fails the exit photos it left.
LEMMA WorkerKeeps ==
  ASSUME ExitInv, WorkerStops \/ WorkerStarts \/ RecoverStep \/ \E p \in Uploads : ReadByLot(p)
  PROVE  ExitInv' /\ SameTable
<1>1. /\ TypeOK /\ row \in [Uploads -> Row \union {NoRow}] /\ job \in [Uploads -> JobStates]
      /\ tries \in [Uploads -> 0..ExitAttempts] /\ (\A u \in Uploads : JobOK(u))
      /\ recovery \in [due : BOOLEAN, list : SUBSET Uploads] /\ workerStops \in 0..MaxStops /\ PhotosInv
      /\ up \in BOOLEAN /\ PhotosTypeOK
  BY DEF ExitInv, PhotosInv, TypeOK, PhotosTypeOK
<1>2. ASSUME WorkerStops \/ WorkerStarts \/ RecoverRead PROVE ExitInv' /\ SameTable
  <2>1. /\ UNCHANGED <<row, disk, request, used, dismissing, apiStops, tries>>
        /\ job' \in [Uploads -> JobStates]
        /\ \A u \in Uploads : job'[u] = job[u] \/ (job'[u] = "waiting" /\ job[u] \in {"taken", "calling"})
    BY <1>1, <1>2 DEF WorkerStops, WorkerStarts, RecoverRead, photoVars, JobStates
  <2>2. up' \in BOOLEAN /\ workerStops' \in 0..MaxStops /\ recovery' \in [due : BOOLEAN, list : SUBSET Uploads]
    <3> DEFINE no == FALSE
               yes == TRUE
    <3>1. no \in BOOLEAN /\ yes \in BOOLEAN
      OBVIOUS
    <3>2. CASE WorkerStops
      <4>1. up' = no /\ workerStops' = workerStops + 1 /\ workerStops < MaxStops /\ recovery' = [due |-> no, list |-> {}]
        BY <3>2 DEF WorkerStops
      <4> HIDE DEF no, yes
      <4> QED
        BY <1>1, <3>1, <4>1, ExitReadingAssumption
    <3>3. CASE WorkerStarts
      <4>1. up' = yes /\ workerStops' = workerStops /\ recovery' = [due |-> yes, list |-> {}]
        BY <3>3 DEF WorkerStarts
      <4> HIDE DEF no, yes
      <4> QED
        BY <1>1, <3>1, <4>1
    <3>4. CASE RecoverRead
      <4>1. up' = up /\ workerStops' = workerStops /\ recovery' = [due |-> no, list |-> Unfinished]
            /\ Unfinished \subseteq Uploads
        BY <3>4 DEF RecoverRead, Unfinished
      <4> HIDE DEF no, yes
      <4> QED
        BY <1>1, <3>1, <4>1
    <3> QED
      BY <1>2, <3>2, <3>3, <3>4
  <2>3. SameTable
    BY <1>1, <2>1 DEF SameTable
  <2>4. TypeOK'
    BY <1>1, <2>1, <2>2 DEF TypeOK, PhotosTypeOK
  <2>5. PhotosInv'
    BY <1>1, <2>1, <2>3, <2>4, TableKeeps
  <2>6. ASSUME NEW u \in Uploads PROVE JobOK(u)'
    BY <1>1, <2>1 DEF JobOK, Early, IsExit, Exists, Settled
  <2> QED
    BY <2>3, <2>5, <2>6 DEF ExitInv
<1>3. ASSUME NEW p \in Uploads, NEW status \in {"DONE", "FAILED"}, Write(p, status),
             UNCHANGED <<disk, request, used, dismissing, apiStops, job, tries, up, workerStops>>,
             recovery' \in [due : BOOLEAN, list : SUBSET Uploads]
      PROVE  ExitInv' /\ SameTable
  <2>1. SameTable /\ (\A q \in Uploads : q # p => row'[q] = row[q]) /\ (Exists(p) => row'[p].status = status)
    BY <1>1, <1>3, WriteFacts DEF Statuses
  <2>2. IsExit(p)' => Settled(p)'
    BY <2>1 DEF SameTable, IsExit, Exists, Settled
  <2> QED
    BY <1>1, <1>3, <2>1, <2>2, ReadingKeeps DEF JobOK
<1>4. ASSUME NEW p \in Uploads, RecoverWrite(p) PROVE ExitInv' /\ SameTable
  <2> DEFINE left == IF Exists(p) THEN recovery.list \ {p} ELSE {}
  <2>1. recovery' = [recovery EXCEPT !.list = left] /\ left \subseteq Uploads
    BY <1>1, <1>4 DEF RecoverWrite
  <2> HIDE DEF left
  <2>2. recovery' \in [due : BOOLEAN, list : SUBSET Uploads]
    BY <1>1, <2>1
  <2> QED
    BY <1>3, <1>4, <2>2 DEF RecoverWrite
<1>5. ASSUME NEW p \in Uploads, ReadByLot(p) PROVE ExitInv' /\ SameTable
  <2>1. PICK status \in {"DONE", "FAILED"} : Write(p, status)
    BY <1>5 DEF ReadByLot
  <2> QED
    BY <1>1, <1>3, <1>5, <2>1 DEF ReadByLot, workVars
<1> QED
  BY <1>2, <1>4, <1>5 DEF RecoverStep

-----------------------------------------------------------------------------
(* The results *)

\* Nothing is uploaded, written or queued at the start.
LEMMA ExitInit == Init => ExitInv
<1> SUFFICES ASSUME Init PROVE ExitInv
  OBVIOUS
<1>1. /\ row = [u \in Uploads |-> NoRow] /\ disk = {} /\ used = {} /\ dismissing = {} /\ apiStops = 0
      /\ request \in [Uploads -> [phase : {"idle"}, asks : Purposes, found : {NoPhoto}]]
      /\ job = [u \in Uploads |-> "none"] /\ tries = [u \in Uploads |-> 0]
  BY DEF Init, PhotosInit
<1>2. request \in [Uploads -> Request] /\ \A u \in Uploads : request[u].phase = "idle"
  BY <1>1 DEF Request, Phases
<1>3. TypeOK
  <2> DEFINE no == FALSE
             yes == TRUE
  <2>1. no \in BOOLEAN /\ yes \in BOOLEAN
    OBVIOUS
  <2>2. up = yes /\ recovery = [due |-> no, list |-> {}] /\ workerStops = 0
    BY DEF Init
  <2> HIDE DEF no, yes
  <2>3. up \in BOOLEAN /\ recovery \in [due : BOOLEAN, list : SUBSET Uploads] /\ workerStops \in 0..MaxStops
    BY <2>1, <2>2, ExitReadingAssumption
  <2>4. PhotosTypeOK
    BY <1>1, <1>2 DEF PhotosTypeOK
  <2>5. job \in [Uploads -> JobStates] /\ tries \in [Uploads -> 0..ExitAttempts]
    BY <1>1, ExitReadingAssumption DEF JobStates
  <2> QED
    BY <2>3, <2>4, <2>5 DEF TypeOK
<1>4. \A u \in Uploads : Stage(u) /\ ~Exists(u)
  BY <1>1, <1>2 DEF Stage, Exists
<1>5. FilesFirst /\ UsedExist
  BY <1>1, <1>4 DEF FilesFirst, UsedExist
<1>6. \A u \in Uploads : JobOK(u)
  BY <1>1, <1>4, ExitReadingAssumption DEF JobOK, Early, IsExit
<1> QED
  BY <1>3, <1>4, <1>5, <1>6 DEF ExitInv, PhotosInv

\* Every step keeps the invariant, and the purpose of the photos a movement refers to.
LEMMA ExitStep ==
  ASSUME ExitInv, [Next]_vars
  PROVE  ExitInv' /\ \A p \in used : row'[p] # NoRow => row'[p].purpose = row[p].purpose
<1>1. /\ used \subseteq Uploads /\ UsedExist /\ row \in [Uploads -> Row \union {NoRow}]
  BY DEF ExitInv, PhotosInv, TypeOK, PhotosTypeOK
<1>2. SameTable => \A p \in used : row'[p] # NoRow => row'[p].purpose = row[p].purpose
  BY <1>1 DEF SameTable, UsedExist, Exists
<1>3. CASE \E u \in Uploads : Handler(u)
  BY <1>3, UploadKeeps, QueueingKeeps DEF Handler
<1>4. CASE Users
  BY <1>2, <1>4, UploadKeeps, UsersKeep, StopKeeps DEF Users
<1>5. CASE \E p \in Uploads : JobStep(p)
  BY <1>2, <1>5, JobsKeep
<1>6. CASE WorkerStops \/ WorkerStarts \/ RecoverStep \/ \E p \in Uploads : ReadByLot(p)
  BY <1>2, <1>6, WorkerKeeps
<1>7. CASE UNCHANGED vars
  <2>1. UNCHANGED <<row, disk, request, used, apiStops, job, tries>> /\ TypeOK'
    BY <1>7 DEF vars, photoVars, ExitInv, PhotosInv, TypeOK, PhotosTypeOK
  <2>2. SameTable
    BY <1>1, <2>1 DEF SameTable
  <2>3. PhotosInv'
    BY <2>1, <2>2, TableKeeps DEF ExitInv
  <2>4. \A u \in Uploads : JobOK(u)'
    BY <2>1 DEF ExitInv, JobOK, Early, IsExit, Exists, Settled
  <2> QED
    BY <1>2, <2>2, <2>3, <2>4 DEF ExitInv
<1> QED
  BY <1>3, <1>4, <1>5, <1>6, <1>7 DEF Next

\* What uploads, confirmations, the exit job and its recovery keep, any step of an upload
\* failing and the api and the worker stopping where they may: the files are there before
\* the row and after it, a movement refers to no photo that is gone, a job that ends has
\* left a verdict (photos.service.ts, extraction.processor.ts).
THEOREM ReadingOfExits == Spec => []ExitInv
<1>1. ExitInv /\ [Next]_vars => ExitInv'
  BY ExitStep
<1> QED
  BY <1>1, ExitInit, PTL DEF Spec

\* A photo in the table can be shown, and a file without a row is that of an upload still
\* at work or ended in the middle, however many uploads of one image cross and wherever
\* they fail (photos.service.ts).
THEOREM FilesAreWithRows == Spec => []FilesFollowRows
<1>1. ExitInv => FilesFollowRows
  <2> SUFFICES ASSUME ExitInv PROVE FilesFollowRows
    OBVIOUS
  <2>1. \A p \in Uploads : Exists(p) => FilesOf(p) \subseteq disk
    BY DEF ExitInv, PhotosInv, FilesFirst
  <2>2. ASSUME NEW f \in disk, ~Exists(f[1]) PROVE InProgress(f[1]) \/ At(f[1], "failed")
    <3>1. PICK u \in Uploads, k \in Kinds : f = <<u, k>>
      BY DEF ExitInv, PhotosInv, TypeOK, PhotosTypeOK
    <3>2. f[1] = u /\ f \in disk \intersect FilesOf(u) /\ Stage(u)
      BY <3>1 DEF ExitInv, PhotosInv, FilesOf
    <3> QED
      BY <2>2, <3>2 DEF Stage, InProgress, At
  <2> QED
    BY <2>1, <2>2 DEF FilesFollowRows
<1> QED
  BY <1>1, ReadingOfExits, PTL

\* A photo that has moved bottles keeps its purpose, even if the same image is sent for an
\* entry at the same moment: the row is taken back under a condition (photos.service.ts).
THEOREM UsedPhotosKeepPurpose == Spec => UsedKeepsPurpose
<1>1. ExitInv /\ [Next]_vars => [\A p \in used : row'[p] # NoRow => row'[p].purpose = row[p].purpose]_photoVars
  BY ExitStep
<1> QED
  BY <1>1, ReadingOfExits, PTL DEF Spec, UsedKeepsPurpose

\* The photo of somebody who holds the bottle has a job on its way, or has been read or
\* failed: what ExitSettles rests on, with any number of attempts and of stops.
THEOREM EveryExitHasItsJob == Spec => []ExitsHaveTheirJob
<1>1. ExitInv => ExitsHaveTheirJob
  <2> SUFFICES ASSUME ExitInv, NEW u \in Uploads, At(u, "answered"), request[u].found = u, IsExit(u), ~Settled(u)
               PROVE  job[u] \in {"waiting", "taken", "calling"}
    BY DEF ExitsHaveTheirJob
  <2>1. job[u] \in JobStates /\ JobOK(u)
    BY DEF ExitInv, PhotosInv, TypeOK
  <2> QED
    BY <2>1 DEF JobStates, JobOK, At
<1> QED
  BY <1>1, ReadingOfExits, PTL
=============================================================================
