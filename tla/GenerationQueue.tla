--------------------------- MODULE GenerationQueue ---------------------------
(***************************************************************************)
(* Pairings and producer profiles by lots: GenerationBatchProcessor.  A    *)
(* table is the queue; a request stays PENDING until it is served, and a   *)
(* worker's writes count only while the reservation it made still stands.  *)
(* The two tables have their own loops and share nothing but the pause and *)
(* the budget: one queue is modelled, Editable is empty for pairings.      *)
(*                                                                         *)
(* Time is counted in intervals between two ticks of a worker: it passes   *)
(* when every worker has ticked, is down, or waits for Gemini.             *)
(***************************************************************************)
EXTENDS Gemini, FiniteSetsExt

CONSTANTS
  Requests,      \* the wines, or the producers, a text may be asked for
  Editable,      \* those whose text an administrator may write
  Deserted,      \* producers none of whose wines is left
  Workers,       \* worker processes
  BatchSize,     \* GENERATION_BATCH_SIZE
  MaxAttempts,   \* GENERATION_MAX_ATTEMPTS
  Reservation,   \* GENERATION_RESERVATION_MS
  CallTimeout,   \* GENERATION_CALL_TIMEOUT_MS
  MaxWait,       \* GENERATION_BATCH_MAX_WAIT_MS
  GiveUpAge,     \* GENERATION_GIVE_UP_MS
  FirstRetry,    \* FIRST_RETRY_MS
  MaxRetry,      \* MAX_TRANSIENT_RETRY_MS
  BudgetDelay,   \* MAX_DELAY_MS
  RecheckDelay,  \* ORPHAN_RECHECK_MS
  MaxAsked,      \* bound: how often a text is asked for
  MaxMishaps,    \* bound: how often a worker stops or the database fails it
  Nobody,        \* reserved_until NULL
  NoTime         \* next_attempt_at NULL

ASSUME GenerationAssumption ==
  /\ {Editable, Deserted} \subseteq SUBSET Requests
  /\ {BatchSize, MaxAttempts, Reservation, CallTimeout, MaxWait, GiveUpAge, FirstRetry, MaxRetry,
      BudgetDelay, RecheckDelay} \subseteq Nat \ {0}
  /\ {MaxAsked, MaxMishaps} \subseteq Nat
  /\ MaxWait <= GiveUpAge
  /\ Nobody \notin Workers /\ NoTime \notin Nat

VARIABLES
  row,        \* the rows of the table
  renewing,   \* regenerations that have read the source and not yet written
  work,       \* what each worker is doing, and what it holds in memory
  mishaps     \* how often a worker has stopped, or the database has failed it

vars == <<geminiVars, row, renewing, work, mishaps>>

Statuses == {"absent", "PENDING", "DONE", "UNKNOWN", "FAILED"}
Delays == 0..Max({MaxRetry, BudgetDelay, RecheckDelay, RefusalPause, FirstRetry * 4 ^ MaxAttempts})

\* by, left: the worker whose reservation stands and the time until its end;
\* reserved_until, the tick's time in milliseconds, tells reservations apart.
\* text: whose text the description is.  asked, answered: how often it was asked
\* for, and which of these the text answers.
Row == [status : Statuses, manual : BOOLEAN, text : {"none", "manual", "generated"},
        age : 0..GiveUpAge, attempts : 0..MaxAttempts, due : Delays \union {NoTime},
        by : Workers \union {Nobody}, left : 0..Reservation,
        asked : 0..MaxAsked, answered : 0..MaxAsked]

\* What a worker has decided for a request and has yet to write.
Verdicts == {"known", "unknown", "invalid", "deserted", "budget", "pause", "failure"}
Phases == {"down", "idle", "rest", "scan", "reserve", "budget", "prepare", "ask", "called", "write"}

\* late: requests asked for since the tick began.  lot: the requests reserved and
\* not settled.  until: the pause that stopped the lot, or that a refusal set.
WorkOK(k) ==
  /\ k.phase \in Phases /\ k.next \in {"rest", "ask"}
  /\ k.late \subseteq Requests /\ k.rescued \in BOOLEAN
  /\ {k.elapsed, k.calling} \subseteq Nat /\ k.until \in 0..RefusalPause
  /\ DOMAIN k.lot \subseteq Requests /\ DOMAIN k.verdict \subseteq DOMAIN k.lot
  /\ \A q \in DOMAIN k.lot :
       k.lot[q] \in [attempts : 0..MaxAttempts, age : 0..GiveUpAge, asked : 0..MaxAsked]
  /\ \A q \in DOMAIN k.verdict : k.verdict[q] \in Verdicts

TypeOK ==
  /\ GeminiTypeOK
  /\ row \in [Requests -> Row]
  /\ renewing \subseteq [request : Editable, manual : BOOLEAN]
  /\ \A w \in Workers : WorkOK(work[w])
  /\ mishaps \in 0..MaxMishaps

Nothing == [q \in {} |-> 0]
At(phase) == [phase |-> phase, late |-> {}, lot |-> Nothing, verdict |-> Nothing, rescued |-> FALSE,
              next |-> "rest", until |-> 0, elapsed |-> 0, calling |-> 0]

NothingYet ==
  /\ GeminiInit
  /\ row = [q \in Requests |-> [status |-> "absent", manual |-> FALSE, text |-> "none", age |-> 0,
                                attempts |-> 0, due |-> NoTime, by |-> Nobody, left |-> 0,
                                asked |-> 0, answered |-> 0]]
  /\ renewing = {}
  /\ mishaps = 0

Init == NothingYet /\ work = [w \in Workers |-> At("idle")]

-----------------------------------------------------------------------------
(* Who asks *)

\* The columns every new request sets: no attempt, no delay, no reservation.
Renewed(r) == [r EXCEPT !.status = "PENDING", !.manual = FALSE, !.age = 0, !.attempts = 0,
                        !.due = NoTime, !.by = Nobody, !.left = 0, !.asked = @ + 1]

\* A request made now is not ready for the ticks that have already begun.
Late(q) ==
  work' = [w \in Workers |-> IF work[w].phase \in {"scan", "reserve"}
                             THEN [work[w] EXCEPT !.late = @ \union {q}] ELSE work[w]]

\* A wine was created, or the worker found it without a request (skipDuplicates).
Schedule(q) ==
  /\ row[q].status = "absent" /\ row[q].asked < MaxAsked
  /\ row' = [row EXCEPT ![q] = Renewed(@)]
  /\ Late(q)
  /\ UNCHANGED <<geminiVars, renewing, mishaps>>

\* A text nobody may write by hand is asked for again in one write.
Renew(q) ==
  /\ q \notin Editable /\ row[q].asked < MaxAsked
  /\ row' = [row EXCEPT ![q] = Renewed(@)]
  /\ Late(q)
  /\ UNCHANGED <<geminiVars, renewing, mishaps>>

\* Any other: regenerate reads whether the text is manual, then writes.
RenewRead(q) ==
  /\ q \in Editable
  /\ renewing' = renewing \union {[request |-> q, manual |-> row[q].manual]}
  /\ UNCHANGED <<geminiVars, row, work, mishaps>>

RenewWrite(r) ==
  LET q == r.request IN
  /\ r \in renewing /\ row[q].asked < MaxAsked
  /\ row' = [row EXCEPT ![q] = IF r.manual THEN [Renewed(@) EXCEPT !.text = "none"] ELSE Renewed(@)]
  /\ renewing' = renewing \ {r}
  /\ Late(q)
  /\ UNCHANGED <<geminiVars, mishaps>>

Edit(q) ==
  /\ q \in Editable
  /\ row' = [row EXCEPT ![q] = [@ EXCEPT !.status = "DONE", !.manual = TRUE, !.text = "manual",
                                         !.attempts = 0, !.due = NoTime, !.by = Nobody, !.left = 0]]
  /\ UNCHANGED <<geminiVars, renewing, work, mishaps>>

Mishap == mishaps < MaxMishaps /\ mishaps' = mishaps + 1

-----------------------------------------------------------------------------
(* A tick, up to the call *)

Queued(q) == row[q].status = "PENDING" /\ ~ row[q].manual

Stuck(q) == Queued(q) /\ row[q].by # Nobody /\ row[q].left = 0

\* Mutant: the attempt that runs out goes round once more.
ReclaimedOnceMore(r) ==
  LET gone == r.attempts >= MaxAttempts IN
  [r EXCEPT !.status = IF gone THEN "FAILED" ELSE "PENDING", !.attempts = @ + 1,
            !.by = Nobody, !.due = IF gone THEN NoTime ELSE @]

Reclaimed(r) ==
  LET gone == r.attempts >= MaxAttempts - 1 IN
  [r EXCEPT !.status = IF gone THEN "FAILED" ELSE "PENDING", !.attempts = @ + 1,
            !.by = Nobody, !.due = IF gone THEN NoTime ELSE @]

Ready(late) ==
  {q \in Requests \ late : Queued(q) /\ row[q].by = Nobody /\ row[q].due \in {NoTime, 0}}

\* Mutant: a lot only leaves full.
ShouldRunFull(S) == Cardinality(S) >= BatchSize

ShouldRun(S) == Cardinality(S) >= BatchSize \/ \E q \in S : row[q].age >= MaxWait

Taken(S) == [q \in Requests |-> IF q \in S THEN Reclaimed(row[q]) ELSE row[q]]
StuckOnes == {q \in Requests : Stuck(q)}

\* reclaimExpired, then the pause is read.
Tick(w) ==
  /\ work[w].phase = "idle"
  /\ row' = Taken(StuckOnes)
  /\ work' = [work EXCEPT ![w] = At(IF Paused THEN "rest" ELSE "scan")]
  /\ UNCHANGED <<geminiVars, renewing, mishaps>>

Scan(w) ==
  /\ work[w].phase = "scan"
  /\ work' = IF ShouldRun(Ready(work[w].late)) THEN [work EXCEPT ![w].phase = "reserve"]
             ELSE [work EXCEPT ![w] = At("rest")]
  /\ UNCHANGED <<geminiVars, row, renewing, mishaps>>

\* What the oldest ready requests make a lot of: a head that has already come
\* back goes alone.
Lots(S) ==
  LET older(p, q) == row[p].age >= row[q].age
      Heads(T) == {q \in T : \A p \in T : older(q, p)}
  IN  {T \in SUBSET S :
         \/ \E q \in Heads(S) : row[q].attempts >= 1 /\ T = {q}
         \/ /\ \E q \in Heads(S) \intersect T : row[q].attempts = 0
            /\ Cardinality(T) = Min({Cardinality(S), BatchSize})
            /\ \A q \in T, p \in S \ T : older(q, p)}

\* SKIP LOCKED: what another worker's reservation has locked is not seen.
Seen(w, S) == IF \E v \in Workers \ {w} : work[v].phase = "reserve" THEN SUBSET S ELSE {S}

Reserve(w) ==
  /\ work[w].phase = "reserve"
  /\ \E seen \in Seen(w, Ready(work[w].late)) :
     \/ /\ seen = {}
        /\ work' = [work EXCEPT ![w] = At("rest")]
        /\ UNCHANGED row
     \/ \E lot \in Lots(seen) :
          /\ row' = [q \in Requests |->
                       IF q \in lot THEN [row[q] EXCEPT !.by = w, !.left = Reservation] ELSE row[q]]
          /\ work' = [work EXCEPT ![w].phase = "budget", ![w].late = {},
               ![w].lot = [q \in lot |-> [attempts |-> row[q].attempts, age |-> row[q].age, asked |-> row[q].asked]]]
  /\ UNCHANGED <<geminiVars, renewing, mishaps>>

\* The database fails the tick before it has reserved anything, maybe between
\* the two updates of reclaimExpired: those given up come first.
TickFails(w) ==
  /\ Mishap
  /\ \/ work[w].phase = "idle" /\ row' \in {row, Taken({q \in StuckOnes : row[q].attempts >= MaxAttempts - 1}), Taken(StuckOnes)}
     \/ work[w].phase \in {"scan", "reserve"} /\ UNCHANGED row
  /\ work' = [work EXCEPT ![w] = At("rest")]
  /\ UNCHANGED <<geminiVars, renewing>>

Held(w) == DOMAIN work[w].lot

\* The worker will write these verdicts, then go on to next.
Decide(w, verdict, next) ==
  work' = [work EXCEPT ![w].phase = "write", ![w].verdict = verdict, ![w].next = next]

All(w, v) == [q \in Held(w) |-> v]

Budget(w) ==
  /\ work[w].phase = "budget"
  /\ IF capped THEN Decide(w, All(w, "budget"), "rest")
     ELSE work' = [work EXCEPT ![w].phase = "prepare"]
  /\ UNCHANGED <<geminiVars, row, renewing, mishaps>>

Prepare(w) ==
  LET deserted == Held(w) \intersect Deserted IN
  /\ work[w].phase = "prepare"
  /\ IF deserted = {} THEN work' = [work EXCEPT ![w].phase = "ask"]
     ELSE Decide(w, [q \in deserted |-> "deserted"], "ask")
  /\ UNCHANGED <<geminiVars, row, renewing, mishaps>>

-----------------------------------------------------------------------------
(* The call *)

\* assertNotPaused, then the call is sent; it is sent too when the pause cannot
\* be read, as seldom as the database fails.
Ask(w) ==
  /\ work[w].phase = "ask"
  /\ \/ ~ Paused /\ UNCHANGED mishaps
     \/ Paused /\ Mishap
  /\ work' = [work EXCEPT ![w].phase = "called", ![w].calling = 0]
  /\ UNCHANGED <<geminiVars, row, renewing>>

PutOff(w) ==
  /\ work[w].phase = "ask" /\ Paused
  /\ work' = [work EXCEPT ![w].phase = "write", ![w].verdict = All(w, "pause"),
                          ![w].next = "rest", ![w].until = pause]
  /\ UNCHANGED <<geminiVars, row, renewing, mishaps>>

Called(w) == work[w].phase = "called"

\* Each request of the lot is answered, or is missing from the answer; a lot
\* whose answer cannot be told apart is missing as a whole.
Answered(w) ==
  /\ Called(w)
  /\ \E verdict \in [Held(w) -> {"known", "unknown", "invalid"}] : Decide(w, verdict, "rest")
  /\ UNCHANGED <<geminiVars, row, renewing, mishaps>>

\* Network, configuration, no answer in CallTimeout; or the database, before.
Fails(w) ==
  /\ \/ Called(w) /\ UNCHANGED mishaps
     \/ work[w].phase \in {"budget", "prepare"} /\ Mishap
  /\ Decide(w, All(w, "failure"), "rest")
  /\ UNCHANGED <<geminiVars, row, renewing>>

\* Google refuses: the common pause is set, and the lot waits at least as long.
Refused(w) ==
  /\ Called(w)
  /\ \E length \in 1..RefusalPause :
       /\ ExtendPause(length)
       /\ work' = [work EXCEPT ![w].phase = "write", ![w].verdict = All(w, "failure"),
                               ![w].next = "rest", ![w].until = length]
  /\ UNCHANGED <<capped, overShare, row, renewing, mishaps>>

-----------------------------------------------------------------------------
(* The verdicts are written, one row at a time *)

\* Time left of a delay counted from the tick's start.
Left(delay, elapsed) == IF elapsed >= delay THEN 0 ELSE delay - elapsed

InvalidDelay(attempts) == FirstRetry * 4 ^ (attempts - 1)
FailureDelay(age, refusal) == Max({Min({Max({age, FirstRetry}), MaxRetry}), refusal})

\* Mutant: four attempts for five.
ExhaustedTooSoon(attempts) == attempts >= MaxAttempts - 1
Exhausted(attempts) == attempts >= MaxAttempts

Verdict(w, q) ==
  LET held == work[w].lot[q]
      v == work[w].verdict[q]
      late(delay) == Left(delay, work[w].elapsed)
      free == [row[q] EXCEPT !.by = Nobody, !.left = 0]
      served == [free EXCEPT !.attempts = 0, !.due = NoTime, !.answered = held.asked]
  IN
  CASE v = "known"    -> [served EXCEPT !.status = "DONE", !.text = "generated"]
    [] v = "unknown"  -> [served EXCEPT !.status = "UNKNOWN", !.text = "none"]
    [] v = "deserted" -> [free EXCEPT !.due = late(RecheckDelay)]
    [] v = "budget"   -> [free EXCEPT !.due = late(BudgetDelay)]
    [] v = "pause"    -> [free EXCEPT !.due = work[w].until]
    [] v = "invalid"  -> LET gone == Exhausted(held.attempts + 1) IN
         [free EXCEPT !.attempts = held.attempts + 1, !.status = IF gone THEN "FAILED" ELSE "PENDING",
                      !.due = IF gone THEN NoTime ELSE late(InvalidDelay(held.attempts + 1))]
    [] v = "failure"  -> LET gone == held.age >= GiveUpAge IN
         [free EXCEPT !.status = IF gone THEN "FAILED" ELSE "PENDING",
                      !.due = IF gone THEN NoTime ELSE late(FailureDelay(held.age, work[w].until))]

\* Mutant: a worker writes whether its reservation stands or not.
StandsAlways(w, q) == TRUE

\* The write finds the row only under the deadline of its own reservation.
Stands(w, q) == row[q].by = w

Written(w, q) == IF Stands(w, q) THEN [row EXCEPT ![q] = Verdict(w, q)] ELSE row

Without(f, q) == [p \in DOMAIN f \ {q} |-> f[p]]

Write(w) ==
  /\ work[w].phase = "write"
  /\ \E q \in DOMAIN work[w].verdict :
       LET lot == Without(work[w].lot, q)
           verdict == Without(work[w].verdict, q)
       IN
       /\ row' = Written(w, q)
       /\ work' = IF DOMAIN verdict # {} THEN [work EXCEPT ![w].lot = lot, ![w].verdict = verdict]
                  ELSE IF work[w].next = "ask" /\ DOMAIN lot # {}
                    THEN [work EXCEPT ![w].phase = "ask", ![w].lot = lot, ![w].verdict = verdict]
                  ELSE [work EXCEPT ![w] = At("rest")]
  /\ UNCHANGED <<geminiVars, renewing, mishaps>>

\* The database fails a write, done or not: once, all that is not settled is put
\* off; then the tick ends.
WriteFails(w) ==
  /\ work[w].phase = "write"
  /\ Mishap
  /\ row' \in {row} \union {Written(w, q) : q \in DOMAIN work[w].verdict}
  /\ work' = IF work[w].rescued THEN [work EXCEPT ![w] = At("rest")]
             ELSE [work EXCEPT ![w].verdict = All(w, "failure"), ![w].next = "rest",
                               ![w].rescued = TRUE, ![w].until = 0]
  /\ UNCHANGED <<geminiVars, renewing>>

-----------------------------------------------------------------------------
(* Workers stop and start; time passes *)

Crash(w) ==
  /\ work[w].phase # "down"
  /\ Mishap
  /\ work' = [work EXCEPT ![w] = At("down")]
  /\ UNCHANGED <<geminiVars, row, renewing>>

Restart(w) ==
  /\ work[w].phase = "down"
  /\ work' = [work EXCEPT ![w] = At("idle")]
  /\ UNCHANGED <<geminiVars, row, renewing, mishaps>>

Pass ==
  /\ \A w \in Workers : \/ work[w].phase \in {"down", "rest"}
                        \/ Called(w) /\ work[w].calling < CallTimeout
  /\ row' = [q \in Requests |-> IF row[q].status # "PENDING" THEN row[q]
       ELSE [row[q] EXCEPT !.age = IF @ < GiveUpAge THEN @ + 1 ELSE @,
                           !.due = IF @ \in {NoTime, 0} THEN @ ELSE @ - 1,
                           !.left = IF @ > 0 THEN @ - 1 ELSE 0]]
  /\ work' = [w \in Workers |->
       CASE Called(w) -> [work[w] EXCEPT !.elapsed = @ + 1, !.calling = @ + 1]
         [] work[w].phase = "rest" -> [work[w] EXCEPT !.phase = "idle"]
         [] work[w].phase = "down" -> work[w]]
  /\ pause' = IF Paused THEN pause - 1 ELSE 0
  /\ UNCHANGED <<capped, overShare, renewing, mishaps>>

Step(w) ==
  \/ Tick(w)
  \/ Scan(w)
  \/ Reserve(w)
  \/ Budget(w)
  \/ Prepare(w)
  \/ Ask(w)
  \/ PutOff(w)
  \/ Answered(w)
  \/ Fails(w)
  \/ Refused(w)
  \/ Write(w)
  \/ Restart(w)

Environment == (RefusedElsewhere \/ BudgetMoves) /\ UNCHANGED <<row, renewing, work, mishaps>>

Next ==
  \/ \E q \in Requests : Schedule(q) \/ Renew(q) \/ RenewRead(q) \/ Edit(q)
  \/ \E r \in renewing : RenewWrite(r)
  \/ \E w \in Workers : Step(w) \/ TickFails(w) \/ WriteFails(w) \/ Crash(w)
  \/ Pass
  \/ Environment

\* A worker's process keeps running, or is started again; the clock advances.
Fairness ==
  /\ \A w \in Workers : WF_vars(Step(w))
  /\ SF_vars(Pass)

Spec == Init /\ [][Next]_vars
FairSpec == Spec /\ Fairness

-----------------------------------------------------------------------------
(* Properties *)

\* The queue as its users see it.
State(r) ==
  IF r.status = "absent" THEN "none"
  ELSE IF r.manual THEN "written"
  ELSE IF r.status = "PENDING" THEN "waiting"
  ELSE IF r.status = "FAILED" THEN "failed"
  ELSE "served"

wishes == [q \in Requests |-> [state |-> State(row[q]), asked |-> row[q].asked, answered |-> row[q].answered]]

Promise == INSTANCE GenerationPromise WITH wish <- wishes

\* The queue keeps its promise: whatever a worker still writes after its lot was
\* taken back, asked for again or edited, a request is served once per asking, by
\* what was generated since, and a text written by hand is not overwritten.
KeepsItsPromise == Promise!Spec

\* A request that makes every worker fall, or Gemini stammer, is given up after
\* MaxAttempts and not later, reclaimed reservations and invalid answers together.
AttemptsRunOut == \A q \in Requests : row[q].status = "PENDING" => row[q].attempts < MaxAttempts

\* A request that is given up had spent its own attempts or waited out a week:
\* what a pause, a budget or a failure costs its lot never ends it by itself ("une
\* panne ... n'en consomment jamais"). Who pays for a failure is not said here.
GivenUpForAReason ==
  [][\A q \in Requests : row[q].status = "PENDING" /\ row'[q].status = "FAILED" =>
       row'[q].attempts >= MaxAttempts \/ row[q].age >= GiveUpAge]_vars

\* A request is served, or given up, once Gemini may be called for good, whatever
\* the pauses, failures, lots and mishaps before.
NoRequestForgotten ==
  \A q \in Requests \ Deserted :
    <>[](~ Paused /\ ~ capped) => (row[q].status = "PENDING" ~> row[q].status # "PENDING")

=============================================================================
