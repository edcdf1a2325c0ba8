----------------------------- MODULE ExitReading -----------------------------
(***************************************************************************)
(* The reading of an exit photo: the job an upload queues, the worker that *)
(* takes it, and the recovery a restarted worker runs beside it.  The      *)
(* entry loop is here in one step: EntryQueue has its detail.              *)
(***************************************************************************)
EXTENDS Photos

CONSTANTS
  ExitAttempts, \* EXIT_ATTEMPTS
  MaxStops      \* bound: stops of the api, and stops of the worker

ASSUME ExitReadingAssumption == ExitAttempts \in Nat \ {0} /\ MaxStops \in Nat

VARIABLES
  job,         \* the BullMQ job of each photo
  tries,       \* attempts its job has made
  up,          \* the worker runs
  recovery,    \* what the recovery at the start has left to do
  workerStops  \* how often the worker stopped

vars == <<photoVars, job, tries, up, recovery, workerStops>>
workVars == <<job, tries, up, recovery, workerStops>>

\* "taken": the job has read the photo; "calling": it has marked it.
JobStates == {"none", "waiting", "taken", "calling", "ended"}

TypeOK ==
  /\ PhotosTypeOK
  /\ job \in [Uploads -> JobStates]
  /\ tries \in [Uploads -> 0..ExitAttempts]
  /\ up \in BOOLEAN
  /\ recovery \in [due : BOOLEAN, list : SUBSET Uploads]
  /\ workerStops \in 0..MaxStops

Init ==
  /\ PhotosInit
  /\ job = [u \in Uploads |-> "none"]
  /\ tries = [u \in Uploads |-> 0]
  /\ up = TRUE
  /\ recovery = [due |-> FALSE, list |-> {}]
  /\ workerStops = 0

-----------------------------------------------------------------------------
(* Queueing *)

Enqueue(u) ==
  /\ At(u, "queueing")
  /\ Answer(u, u)
  /\ job' = [job EXCEPT ![u] = "waiting"]
  /\ UNCHANGED <<row, disk, used, dismissing, apiStops, tries, up, recovery, workerStops>>

\* Refused or too late: a job that was late in coming is queued all the same.
EnqueueFails(u) ==
  /\ At(u, "queueing")
  /\ Reach(u, "withdrawing")
  /\ \E landed \in {"none", "waiting"} : job' = [job EXCEPT ![u] = landed]
  /\ UNCHANGED <<row, disk, used, dismissing, apiStops, tries, up, recovery, workerStops>>

-----------------------------------------------------------------------------
(* The job *)

\* Mutant: one attempt too many is believed to be left.
LastAttemptForgotten(p) == tries[p] >= ExitAttempts

LastAttempt(p) == tries[p] + 1 >= ExitAttempts

\* BullMQ retries an attempt that threw until the attempts of the job are spent.
Throw(p) ==
  /\ tries' = [tries EXCEPT ![p] = @ + 1]
  /\ job' = [job EXCEPT ![p] = IF tries[p] + 1 < ExitAttempts THEN "waiting" ELSE "ended"]

End(p) == job' = [job EXCEPT ![p] = "ended"] /\ UNCHANGED tries

Write(p, status) == row' = IF Exists(p) THEN [row EXCEPT ![p].status = status] ELSE row

\* An entry photo is left to the lots.
Take(p) ==
  /\ up /\ job[p] = "waiting"
  /\ IF IsEntry(p) THEN End(p) ELSE job' = [job EXCEPT ![p] = "taken"] /\ UNCHANGED tries
  /\ UNCHANGED <<photoVars, up, recovery, workerStops>>

\* The update of a photo that is gone throws, before the call.
Mark(p) ==
  /\ up /\ job[p] = "taken"
  /\ Write(p, "PROCESSING")
  /\ IF Exists(p) THEN job' = [job EXCEPT ![p] = "calling"] /\ UNCHANGED tries ELSE Throw(p)
  /\ UNCHANGED <<disk, request, used, dismissing, apiStops, up, recovery, workerStops>>

Calling(p) == up /\ job[p] = "calling"
Otherwise  == UNCHANGED <<disk, request, used, dismissing, apiStops, up, recovery, workerStops>>

Read(p) == Calling(p) /\ Exists(p) /\ Write(p, "DONE") /\ End(p) /\ Otherwise

\* A pause of Gemini, or an error no retry will mend: failed at once.
GiveUp(p) == Calling(p) /\ Exists(p) /\ Write(p, "FAILED") /\ End(p) /\ Otherwise

\* A passing failure, the budget's included: put off, or failed at the last attempt.
Fail(p) ==
  /\ Calling(p) /\ Exists(p)
  /\ Write(p, IF LastAttempt(p) THEN "FAILED" ELSE "PENDING")
  /\ Throw(p)
  /\ Otherwise

\* The photo went away during the call: nothing can be written.
FailWithoutPhoto(p) == Calling(p) /\ ~Exists(p) /\ Throw(p) /\ UNCHANGED row /\ Otherwise

JobStep(p) == Take(p) \/ Mark(p) \/ Read(p) \/ GiveUp(p) \/ Fail(p) \/ FailWithoutPhoto(p)

-----------------------------------------------------------------------------
(* The worker stops and starts *)

\* BullMQ hands a job whose worker died to the next one.
WorkerStops ==
  /\ up /\ workerStops < MaxStops
  /\ up' = FALSE
  /\ workerStops' = workerStops + 1
  /\ job' = [p \in Uploads |-> IF job[p] \in {"taken", "calling"} THEN "waiting" ELSE job[p]]
  /\ recovery' = [due |-> FALSE, list |-> {}]
  /\ UNCHANGED <<photoVars, tries>>

WorkerStarts ==
  /\ ~up
  /\ up' = TRUE
  /\ recovery' = [due |-> TRUE, list |-> {}]
  /\ UNCHANGED <<photoVars, job, tries, workerStops>>

Unfinished == {p \in Uploads : IsExit(p) /\ ~Settled(p)}

RecoverRead ==
  /\ up /\ recovery.due
  /\ recovery' = [due |-> FALSE, list |-> Unfinished]
  /\ UNCHANGED <<photoVars, job, tries, up, workerStops>>

\* By id, whatever became of the photo; one that is gone ends the recovery.
RecoverWrite(p) ==
  /\ up /\ p \in recovery.list
  /\ Write(p, "FAILED")
  /\ recovery' = [recovery EXCEPT !.list = IF Exists(p) THEN @ \ {p} ELSE {}]
  /\ UNCHANGED <<disk, request, used, dismissing, apiStops, job, tries, up, workerStops>>

RecoverStep == RecoverRead \/ \E p \in Uploads : RecoverWrite(p)

-----------------------------------------------------------------------------
(* The whole *)

\* The entry loop reads, or gives up, a photo that waits for it.
ReadByLot(p) ==
  /\ up /\ IsEntry(p) /\ ~Settled(p) /\ ~row[p].dismissed
  /\ \E status \in {"DONE", "FAILED"} : Write(p, status)
  /\ UNCHANGED <<disk, request, used, dismissing, apiStops, workVars>>

Handler(u) == Enqueue(u) \/ EnqueueFails(u) \/ (UploadStep(u) /\ UNCHANGED workVars)

Users ==
  /\ \/ \E u \in Uploads : Unreadable(u) \/ StepFails(u)
     \/ \E p \in Uploads : Confirm(p) \/ DismissRead(p) \/ DismissWrite(p)
     \/ apiStops < MaxStops /\ ApiStops
  /\ UNCHANGED workVars

Next ==
  \/ \E u \in Uploads : Handler(u)
  \/ Users
  \/ \E p \in Uploads : JobStep(p) \/ ReadByLot(p)
  \/ WorkerStops \/ WorkerStarts \/ RecoverStep

Spec == Init /\ [][Next]_vars

\* The api serves what it received, the worker runs and takes its jobs, and the
\* container is started again; nobody is obliged to upload or to confirm.
Fairness ==
  /\ \A u \in Uploads : WF_vars(~At(u, "idle") /\ Handler(u)) /\ WF_vars(JobStep(u))
  /\ WF_vars(WorkerStarts) /\ WF_vars(RecoverStep)

FairSpec == Spec /\ Fairness

-----------------------------------------------------------------------------
(* Properties *)

\* The person holding the bottle is not left waiting: an exit photo whose own
\* upload was answered is read or failed, or has become an entry photo, even
\* when the worker stops at any point of the reading.
ExitSettles ==
  \A u \in Uploads :
    (At(u, "answered") /\ request[u].found = u /\ IsExit(u)) ~> (Settled(u) \/ IsEntry(u))

=============================================================================
