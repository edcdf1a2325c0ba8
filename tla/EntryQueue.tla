----------------------------- MODULE EntryQueue -----------------------------
(***************************************************************************)
(* The reading of entry photos by lots: EntryBatchProcessor.  The photo    *)
(* table is the queue; a worker's tick takes back expired reservations,    *)
(* reserves a lot of one cellar, and has it read by Gemini, in one call or *)
(* photo by photo.  Every write of a row is a step of its own, so that a   *)
(* worker can stop, or another come, between any two.                      *)
(*                                                                         *)
(* Time is counted in minutes left, and passes only while workers rest or  *)
(* wait for Gemini: the steps on the database are short beside a minute.   *)
(* A dismissal and an upload are the only steps of the api modelled here.  *)
(***************************************************************************)
EXTENDS Gemini, FiniteSetsExt

CONSTANTS
  Photos,       \* entry photos, numbered in the order of createdAt
  PhotoCave,    \* the cellar of each photo
  Workers,      \* worker processes
  BatchSize,    \* ENTRY_BATCH_SIZE
  MaxSkips,     \* MAX_OVER_SHARE_CAVES_PER_TICK
  MaxAttempts,  \* EXTRACTION_ATTEMPTS
  Reservation,  \* RESERVATION_MS
  CallTimeout,  \* ENTRY_BATCH_CALL_TIMEOUT_MS
  MaxWait,      \* ENTRY_BATCH_MAX_WAIT_MS
  FirstDelay,   \* FIRST_DELAY_MS
  MaxDelay,     \* MAX_DELAY_MS
  CallCost,     \* cents Gemini bills for an answered call
  MaxBilled,    \* bound: the cents Gemini bills in all
  MaxMishaps,   \* bound: how often a worker stops or the database fails it
  NoTime        \* next_attempt_at NULL

ASSUME EntryQueueAssumption ==
  /\ Photos \subseteq Nat /\ IsFiniteSet(Photos)
  /\ PhotoCave \in [Photos -> Caves]
  /\ {BatchSize, MaxSkips, MaxAttempts, Reservation, CallTimeout, MaxDelay} \subseteq Nat \ {0}
  /\ {MaxWait, FirstDelay, CallCost, MaxBilled, MaxMishaps} \subseteq Nat
  /\ NoTime \notin Nat

VARIABLES
  photo,        \* the photo rows
  work,         \* what each worker is doing, and what it holds in memory
  billed,       \* cents of the calls Gemini has answered
  mishaps       \* how often a worker has stopped, or the database has failed it

vars == <<geminiVars, photo, work, billed, mishaps>>

Statuses == {"absent", "PENDING", "PROCESSING", "DONE", "FAILED"}
Delays == 0..Max({Reservation, MaxDelay, RefusalPause})

\* What a worker has decided for a photo and has yet to write.
Verdicts == {"read", "unreadable", "retry", "wait", "pause"}

\* off: a process that is not deployed.
Phases == {"off", "down", "idle", "rest", "scan", "reserve", "budget", "files", "ask", "called", "write"}

\* A worker's memory: the lot it reserved with what it read and spent for each
\* photo, the verdicts still to write, the cellars this tick skips (overShare),
\* whether the lot is read photo by photo (mixed), whether runBatch's catch has
\* run (rescued), the phase after the verdicts (next), the end of the pause that
\* stopped it (until), and the minutes since the tick began and the call was sent.
WorkOK(k) ==
  /\ k.phase \in Phases /\ k.next \in {"rest", "scan", "ask"}
  /\ k.skips \subseteq Caves
  /\ {k.mixed, k.rescued} \subseteq BOOLEAN
  /\ {k.elapsed, k.calling} \subseteq Nat /\ k.until \in Delays
  /\ DOMAIN k.lot \subseteq Photos /\ DOMAIN k.verdict \subseteq DOMAIN k.lot
  /\ \A p \in DOMAIN k.lot : k.lot[p].attempts \in 0..MaxAttempts /\ k.lot[p].cost \in Nat
  /\ \A p \in DOMAIN k.verdict : k.verdict[p] \in Verdicts

TypeOK ==
  /\ GeminiTypeOK
  /\ photo \in [Photos -> [status : Statuses, dismissed : BOOLEAN, age : 0..MaxWait,
                           attempts : 0..MaxAttempts, due : Delays \union {NoTime}, cost : 0..MaxBilled]]
  /\ \A w \in Workers : WorkOK(work[w])
  /\ billed \in 0..MaxBilled
  /\ mishaps \in 0..MaxMishaps

NoPhotos == [p \in {} |-> 0]
At(phase) == [phase |-> phase, skips |-> {}, lot |-> NoPhotos, verdict |-> NoPhotos, mixed |-> FALSE,
              rescued |-> FALSE, next |-> "rest", until |-> 0, elapsed |-> 0, calling |-> 0]

\* No photo, no bill and no mishap yet.
NothingYet ==
  /\ GeminiInit
  /\ photo = [p \in Photos |-> [status |-> "absent", dismissed |-> FALSE, age |-> 0,
                                attempts |-> 0, due |-> NoTime, cost |-> 0]]
  /\ billed = 0

Init == NothingYet /\ mishaps = 0 /\ work = [w \in Workers |-> At("idle")]

-----------------------------------------------------------------------------
(* The photos, and the rules that pick them *)

Due(p) == photo[p].due \in {NoTime, 0}

Candidates(skips) ==
  {p \in Photos : photo[p].status = "PENDING" /\ ~ photo[p].dismissed /\ Due(p)
                  /\ PhotoCave[p] \notin skips}

\* Mutant: a lot only leaves full.
ShouldRunFull(S) == Cardinality(S) >= BatchSize

ShouldRun(S) ==
  \/ Cardinality(S) >= BatchSize
  \/ \E p \in S : photo[p].age = MaxWait \/ photo[p].due = 0

\* The n oldest photos of S.
Oldest(S, n) == {p \in S : Cardinality({q \in S : q < p}) < n}

\* Mutant: each share is rounded up.
ShareRoundedUp(total, S) ==
  [p \in S |-> (total + Cardinality(S) - 1) \div Cardinality(S)]

\* The cents of a call of cost total that each photo of S bears (splitCostExact).
Share(total, S) ==
  [p \in S |-> (total \div Cardinality(S))
               + IF Cardinality({q \in S : q < p}) < total % Cardinality(S) THEN 1 ELSE 0]

Backoff(attempts) ==
  LET delay == FirstDelay * 2 ^ (attempts - 1) IN IF delay > MaxDelay THEN MaxDelay ELSE delay

\* Minutes left of a delay counted from the tick's start.
Left(delay, elapsed) == IF elapsed >= delay THEN 0 ELSE delay - elapsed

-----------------------------------------------------------------------------
(* The api *)

Upload(p) ==
  /\ photo[p].status = "absent"
  /\ \A q \in Photos : q < p => photo[q].status # "absent"
  /\ photo' = [photo EXCEPT ![p].status = "PENDING"]
  /\ UNCHANGED <<geminiVars, work, billed, mishaps>>

\* Refused once a movement stands for the photo, which is only after its reading.
Dismiss(p) ==
  /\ photo[p].status # "absent" /\ ~ photo[p].dismissed
  /\ photo' = [photo EXCEPT ![p].dismissed = TRUE]
  /\ UNCHANGED <<geminiVars, work, billed, mishaps>>

Mishap == mishaps < MaxMishaps /\ mishaps' = mishaps + 1

-----------------------------------------------------------------------------
(* A tick, up to the call *)

\* Mutants: the status is not looked at, or the end of the reservation.
StuckWhateverStatus(p) == photo[p].status # "absent" /\ Due(p)
StuckBeforeTheEnd(p) == photo[p].status = "PROCESSING"

Stuck(p) == photo[p].status = "PROCESSING" /\ Due(p)

\* Mutants: one attempt too many, or attempts without end.
ReclaimedOnceMore(row) ==
  [row EXCEPT !.status = IF row.attempts >= MaxAttempts THEN "FAILED" ELSE "PENDING",
              !.attempts = row.attempts + 1, !.due = NoTime]
Reclaimed(row) ==
  [row EXCEPT !.status = IF row.attempts >= MaxAttempts - 1 THEN "FAILED" ELSE "PENDING",
              !.attempts = row.attempts + 1, !.due = NoTime]

\* Between two ticks: "idle" when the next one is due within the minute, "rest"
\* when one has run in this minute (ENTRY_BATCH_TICK_MS is a quarter of it).
Resting(w) == work[w].phase \in {"idle", "rest"}

\* reclaimExpired, then the pause is read.
Tick(w) ==
  /\ Resting(w)
  /\ photo' = [p \in Photos |-> IF Stuck(p) THEN Reclaimed(photo[p]) ELSE photo[p]]
  /\ work' = [work EXCEPT ![w] = At(IF Paused THEN "rest" ELSE "scan")]
  /\ UNCHANGED <<geminiVars, billed, mishaps>>

Scan(w) ==
  LET skips == work[w].skips IN
  /\ work[w].phase = "scan"
  /\ work' = [work EXCEPT ![w].phase =
       IF Cardinality(skips) < MaxSkips /\ ShouldRun(Candidates(skips)) THEN "reserve" ELSE "rest"]
  /\ UNCHANGED <<geminiVars, photo, billed, mishaps>>

\* The oldest photos of the oldest candidate's cellar (FOR UPDATE SKIP LOCKED).
Reserve(w) ==
  LET due == Candidates(work[w].skips)
      lot == Oldest({p \in due : PhotoCave[p] = PhotoCave[Min(due)]}, BatchSize)
  IN
  /\ work[w].phase = "reserve"
  /\ IF due = {}
     THEN /\ work' = [work EXCEPT ![w] = At("rest")]
          /\ UNCHANGED photo
     ELSE /\ photo' = [p \in Photos |-> IF p \in lot THEN [photo[p] EXCEPT !.status = "PROCESSING", !.due = Reservation]
                                        ELSE photo[p]]
          /\ work' = [work EXCEPT ![w].phase = "budget",
                                  ![w].lot = [p \in lot |-> [attempts |-> photo[p].attempts, cost |-> photo[p].cost]]]
  /\ UNCHANGED <<geminiVars, billed, mishaps>>

\* The database fails the tick before it has reserved anything.
GiveUp(w) ==
  /\ work[w].phase \in {"scan", "reserve"}
  /\ Mishap
  /\ work' = [work EXCEPT ![w] = At("rest")]
  /\ UNCHANGED <<geminiVars, photo, billed>>

\* The photos in a worker's memory whose verdict it has not written.
Held(w) == DOMAIN work[w].lot

\* The worker will write the verdict v for the photos of S, then go on to next.
Decide(w, S, v, next) ==
  work' = [work EXCEPT ![w].phase = "write", ![w].verdict = [p \in S |-> v], ![w].next = next]

\* The global cap, then the cellar's share.
Budget(w) ==
  LET cave == PhotoCave[Min(Held(w))] IN
  /\ work[w].phase = "budget"
  /\ work' = IF capped \/ cave \in overShare
             THEN [work EXCEPT ![w].phase = "write",
                               ![w].verdict = [p \in Held(w) |-> "wait"],
                               ![w].next = IF capped THEN "rest" ELSE "scan",
                               ![w].skips = IF capped THEN @ ELSE @ \union {cave}]
             ELSE [work EXCEPT ![w].phase = "files"]
  /\ UNCHANGED <<geminiVars, photo, billed, mishaps>>

\* readBatch: the photos whose file is gone fail.
Files(w) ==
  /\ work[w].phase = "files"
  /\ \/ work' = [work EXCEPT ![w].phase = "ask"]
     \/ \E lost \in (SUBSET Held(w)) \ {{}} : Decide(w, lost, "unreadable", "ask")
  /\ UNCHANGED <<geminiVars, photo, billed, mishaps>>

-----------------------------------------------------------------------------
(* The verdicts are written, one row at a time *)

Verdict(w, p) ==
  LET held == work[w].lot[p]
      v == work[w].verdict[p]
      late(delay) == Left(delay, work[w].elapsed)
      row == [photo[p] EXCEPT !.cost = held.cost, !.due = NoTime]
  IN
  CASE v = "read"       -> [row EXCEPT !.status = "DONE"]
    [] v = "unreadable" -> [row EXCEPT !.status = "FAILED"]
    [] v = "wait"       -> [row EXCEPT !.status = "PENDING", !.due = late(MaxDelay)]
    [] v = "pause"      -> [row EXCEPT !.status = "PENDING", !.due = work[w].until]
    [] v = "retry"      -> IF held.attempts + 1 >= MaxAttempts
                           THEN [row EXCEPT !.status = "FAILED", !.attempts = held.attempts + 1]
                           ELSE [row EXCEPT !.status = "PENDING", !.attempts = held.attempts + 1,
                                            !.due = late(Backoff(held.attempts + 1))]

\* What the worker still holds once p is written.
Without(f, p) == [q \in DOMAIN f \ {p} |-> f[q]]

Onward(w, lot, verdict) ==
  IF DOMAIN verdict # {} THEN "write"
  ELSE IF work[w].next = "ask" /\ DOMAIN lot = {} THEN "rest"
  ELSE work[w].next

Write(w) ==
  LET p == Min(DOMAIN work[w].verdict)
      lot == Without(work[w].lot, p)
      verdict == Without(work[w].verdict, p)
  IN
  /\ work[w].phase = "write"
  /\ photo' = [photo EXCEPT ![p] = Verdict(w, p)]
  /\ work' = [work EXCEPT ![w].phase = Onward(w, lot, verdict), ![w].lot = lot, ![w].verdict = verdict]
  /\ UNCHANGED <<geminiVars, billed, mishaps>>

\* A write fails: once, every photo still held is put off; then the tick ends.
WriteFails(w) ==
  /\ work[w].phase = "write"
  /\ Mishap
  /\ work' = IF work[w].rescued THEN [work EXCEPT ![w] = At("rest")]
             ELSE [work EXCEPT ![w].verdict = [p \in Held(w) |-> "retry"],
                               ![w].next = "rest", ![w].rescued = TRUE]
  /\ UNCHANGED <<geminiVars, photo, billed>>

-----------------------------------------------------------------------------
(* The calls *)

\* The photos of the next call: all of them, or the oldest alone.
Asked(w) ==
  IF work[w].mixed \/ Cardinality(Held(w)) = 1 THEN {Min(Held(w))} ELSE Held(w)

\* assertNotPaused, then the call is sent; it is sent too when the pause cannot
\* be read, as seldom as the database fails.
Ask(w) ==
  /\ work[w].phase = "ask" /\ ~ Paused
  /\ work' = [work EXCEPT ![w].phase = "called", ![w].calling = 0]
  /\ UNCHANGED <<geminiVars, photo, billed, mishaps>>

AskUnread(w) ==
  /\ work[w].phase = "ask" /\ Paused /\ Mishap
  /\ work' = [work EXCEPT ![w].phase = "called", ![w].calling = 0]
  /\ UNCHANGED <<geminiVars, photo, billed>>

PutOff(w) ==
  /\ work[w].phase = "ask" /\ Paused
  /\ work' = [work EXCEPT ![w].phase = "write", ![w].verdict = [p \in Held(w) |-> "pause"],
                          ![w].next = "rest", ![w].until = pause]
  /\ UNCHANGED <<geminiVars, photo, billed, mishaps>>

Called(w) == work[w].phase = "called"
Alone(w) == Called(w) /\ Cardinality(Asked(w)) = 1

Bill == billed + CallCost <= MaxBilled /\ billed' = billed + CallCost

\* Each photo of the lot with its share of the call's cost.
Spent(lot, S) ==
  [p \in DOMAIN lot |-> IF p \in S THEN [lot[p] EXCEPT !.cost = @ + Share(CallCost, S)[p]] ELSE lot[p]]

\* The call is answered for every photo asked; a group's answer may have
\* readings that cannot be used.
Answered(w) ==
  /\ Called(w)
  /\ \E bad \in IF Alone(w) THEN {{}} ELSE SUBSET Asked(w) :
       work' = [work EXCEPT ![w].phase = "write", ![w].next = "ask",
                            ![w].lot = Spent(@, Asked(w)),
                            ![w].verdict = [p \in Asked(w) |-> IF p \in bad THEN "unreadable" ELSE "read"]]
  /\ Bill
  /\ UNCHANGED <<geminiVars, photo, mishaps>>

\* A group's answer cannot be told apart: the photos are read again, alone.
Mismatch(w) ==
  /\ Called(w) /\ ~ Alone(w)
  /\ work' = [work EXCEPT ![w].phase = "ask", ![w].mixed = TRUE, ![w].lot = Spent(@, Asked(w))]
  /\ Bill
  /\ UNCHANGED <<geminiVars, photo, mishaps>>

\* The answer for a photo alone is not a label (VisionInvalidOutputError).
Invalid(w) ==
  /\ Alone(w)
  /\ Decide(w, Asked(w), "unreadable", "ask")
  /\ Bill
  /\ UNCHANGED <<geminiVars, photo, mishaps>>

\* An error that a later try would meet again (HTTP 400): nothing is billed.
Rejected(w) ==
  /\ Called(w)
  /\ Decide(w, Asked(w), "unreadable", "ask")
  /\ UNCHANGED <<geminiVars, photo, billed, mishaps>>

\* Network, configuration, no answer in CallTimeout, or a budget that cannot be
\* read: all are put off.
Fails(w) ==
  /\ Called(w) \/ work[w].phase = "budget"
  /\ Decide(w, Held(w), "retry", "rest")
  /\ UNCHANGED <<geminiVars, photo, billed, mishaps>>

\* Google refuses: the common pause too is set.
Refused(w) ==
  /\ Called(w)
  /\ Decide(w, Held(w), "retry", "rest")
  /\ \E length \in 1..RefusalPause : ExtendPause(length)
  /\ UNCHANGED <<capped, overShare, photo, billed, mishaps>>

-----------------------------------------------------------------------------
(* Workers stop and start; time passes *)

Crash(w) ==
  /\ work[w].phase \notin {"off", "down"}
  /\ Mishap
  /\ work' = [work EXCEPT ![w] = At("down")]
  /\ UNCHANGED <<geminiVars, photo, billed>>

Restart(w) ==
  /\ work[w].phase = "down"
  /\ work' = [work EXCEPT ![w] = At("idle")]
  /\ UNCHANGED <<geminiVars, photo, billed, mishaps>>

Pass ==
  /\ \A w \in Workers : \/ work[w].phase \in {"off", "down", "rest"}
                        \/ Called(w) /\ work[w].calling < CallTimeout
  /\ photo' = [p \in Photos |-> IF photo[p].status = "absent" THEN photo[p]
       ELSE [photo[p] EXCEPT !.age = IF @ < MaxWait THEN @ + 1 ELSE @,
                             !.due = IF @ \in {NoTime, 0} THEN @ ELSE @ - 1]]
  /\ work' = [w \in Workers |->
       CASE Called(w) -> [work[w] EXCEPT !.elapsed = @ + 1, !.calling = @ + 1]
         [] work[w].phase = "rest" -> [work[w] EXCEPT !.phase = "idle"]
         [] work[w].phase \in {"off", "down"} -> work[w]]
  /\ pause' = IF Paused THEN pause - 1 ELSE 0
  /\ UNCHANGED <<capped, overShare, billed, mishaps>>

Step(w) ==
  \/ Tick(w)
  \/ Scan(w)
  \/ Reserve(w)
  \/ Budget(w)
  \/ Files(w)
  \/ Write(w)
  \/ Ask(w)
  \/ PutOff(w)
  \/ Answered(w)
  \/ Mismatch(w)
  \/ Invalid(w)
  \/ Rejected(w)
  \/ Fails(w)
  \/ Refused(w)
  \/ Restart(w)

Environment ==
  \/ RefusedElsewhere /\ UNCHANGED <<photo, work, billed, mishaps>>
  \/ BudgetMoves /\ UNCHANGED <<photo, work, billed, mishaps>>

Next ==
  \/ \E p \in Photos : Upload(p) \/ Dismiss(p)
  \/ \E w \in Workers : Step(w) \/ GiveUp(w) \/ WriteFails(w) \/ AskUnread(w) \/ Crash(w)
  \/ Pass
  \/ Environment

\* A worker's process keeps running, or is started again; the clock advances.
Fairness ==
  /\ \A w \in Workers : WF_vars(Step(w))
  /\ SF_vars(Pass)

Spec == Init /\ [][Next]_vars
FairSpec == Spec /\ Fairness

-----------------------------------------------------------------------------
(* Properties *)

\* A photo once read or given up is never taken up again: no late write of a
\* worker, no expired reservation, no restart brings it back or changes it.
VerdictsStand ==
  [][\A p \in Photos : photo[p].status \in {"DONE", "FAILED"} =>
       photo'[p].status = photo[p].status /\ photo'[p].cost = photo[p].cost]_vars

\* No more is counted than Gemini billed, shares of a group, second readings and
\* mishaps included (splitCostExact: "jamais de dépense comptée en trop").
NeverOvercounted == MapThenSumSet(LAMBDA p : photo[p].cost, Photos) <= billed

\* A photo that makes every reader fall does not go round for ever: its attempts
\* run out, those of its reclaimed reservations and of its failed calls together
\* (reclaimExpired: "finit en échec au lieu de tourner sans fin").
AttemptsRunOut ==
  \A p \in Photos : photo[p].status \in {"PENDING", "PROCESSING"} => photo[p].attempts < MaxAttempts

\* A photo is never forgotten: once its own cellar may be read for good, it is
\* read or given up, whatever the other cellars' budgets, the lots, the pauses
\* and the mishaps before.
NoPhotoForgotten ==
  \A p \in Photos :
    <>[]Open(PhotoCave[p]) =>
      (photo[p].status # "absent" ~> photo[p].status \in {"DONE", "FAILED"} \/ photo[p].dismissed)

\* A blocked call puts the lot off before the reservation runs out: no photo is
\* in the hands of two workers, or in one's hands without being reserved.
NoSecondReading ==
  \A v, w \in Workers : v # w => Held(v) \intersect Held(w) = {}

=============================================================================
