-------------------------- MODULE GenerationProofs --------------------------
(***************************************************************************)
(* The queue of pairings and producer profiles keeps its promise, for      *)
(* every number of requests and workers, every lot and every delay.        *)
(***************************************************************************)
EXTENDS GenerationQueue, TLAPS

-----------------------------------------------------------------------------
(* The inductive invariant *)

\* A row, but for the length of its delay: powers are out of the provers' reach.
RowOf(due) ==
  [status : Statuses, manual : BOOLEAN, text : {"none", "manual", "generated"},
   age : 0..GiveUpAge, attempts : 0..MaxAttempts, due : {due},
   by : Workers \union {Nobody}, left : 0..Reservation,
   asked : 0..MaxAsked, answered : 0..MaxAsked]

RowsTyped ==
  /\ row = [q \in Requests |-> row[q]]
  /\ \A q \in Requests : row[q] \in RowOf(row[q].due)

\* Functions on some of the requests: what a worker holds in memory.
Partial(T) == UNION {[S -> T] : S \in SUBSET Requests}

Holding == [attempts : 0..(MaxAttempts - 1), age : 0..GiveUpAge, asked : 0..MaxAsked]

Worker == [phase : Phases, late : SUBSET Requests, lot : Partial(Holding), verdict : Partial(Verdicts),
           rescued : BOOLEAN, next : {"rest", "ask"}, until : 0..RefusalPause,
           elapsed : Nat, calling : Nat]

\* Before it has reserved, a worker holds nothing.
HoldsNothing(k) == k.phase \in {"down", "idle", "rest", "scan", "reserve"} => DOMAIN k.lot = {}

WorkTyped ==
  /\ work \in [Workers -> Worker]
  /\ \A w \in Workers : DOMAIN work[w].verdict \subseteq Held(w) /\ HoldsNothing(work[w])

\* While a reservation stands, the request is what its holder read.
StandingOK(r, held) ==
  r.status = "PENDING" /\ ~ r.manual /\ r.asked = held.asked /\ held.age <= r.age

HeldOK == \A w \in Workers : \A q \in Held(w) : row[q].by = w => StandingOK(row[q], work[w].lot[q])

GInv == GeminiTypeOK /\ RowsTyped /\ WorkTyped /\ HeldOK /\ AttemptsRunOut

-----------------------------------------------------------------------------
(* What a worker holds *)

\* Partial functions have typed values on some of the requests.
LEMMA PartialFacts ==
  ASSUME NEW T
  PROVE  /\ \A f \in Partial(T) : DOMAIN f \subseteq Requests /\ \A q \in DOMAIN f : f[q] \in T
         /\ \A S \in SUBSET Requests : \A f \in [S -> T] : f \in Partial(T)
  BY DEF Partial

\* What is left of one without a request is one.
LEMMA WithoutFacts ==
  ASSUME NEW T, NEW f \in Partial(T), NEW q
  PROVE  /\ Without(f, q) \in Partial(T) /\ DOMAIN Without(f, q) = DOMAIN f \ {q}
         /\ \A p \in DOMAIN f \ {q} : Without(f, q)[p] = f[p]
<1>1. PICK S \in SUBSET Requests : f \in [S -> T]
  BY DEF Partial
<1>2. Without(f, q) \in [S \ {q} -> T]
  BY <1>1 DEF Without
<1>3. QED BY <1>1, <1>2, PartialFacts DEF Without

\* A worker that begins again holds nothing.
LEMMA AtTyped ==
  ASSUME NEW phase \in Phases
  PROVE  At(phase) \in Worker /\ At(phase).phase = phase /\ DOMAIN At(phase).lot = {} /\ DOMAIN At(phase).verdict = {}
<1>1. Nothing \in [{} -> Holding] /\ Nothing \in [{} -> Verdicts] /\ DOMAIN Nothing = {}
  BY DEF Nothing
<1>2. Nothing \in Partial(Holding) /\ Nothing \in Partial(Verdicts)
  BY <1>1, PartialFacts
<1>3. 0 \in 0..RefusalPause
  BY GeminiAssumption
<1>4. QED BY <1>1, <1>2, <1>3 DEF At, Worker

\* A worker keeps some of its lot, and nobody's grows.
LotsShrink ==
  \A w \in Workers : /\ DOMAIN work'[w].lot \subseteq Held(w)
                     /\ \A q \in DOMAIN work'[w].lot : work'[w].lot[q] = work[w].lot[q]

\* The workers after a step of one of them that reserves nothing.
LEMMA OneWorker ==
  ASSUME WorkTyped, NEW w \in Workers, NEW k \in Worker, work' = [work EXCEPT ![w] = k],
         DOMAIN k.verdict \subseteq DOMAIN k.lot, HoldsNothing(k),
         DOMAIN k.lot \subseteq Held(w), \A q \in DOMAIN k.lot : k.lot[q] = work[w].lot[q]
  PROVE  WorkTyped' /\ LotsShrink
  BY DEF WorkTyped, LotsShrink, Held

\* One of them begins its tick again, or stops.
LEMMA WorkerBegins ==
  ASSUME WorkTyped, NEW w \in Workers, NEW phase \in {"down", "idle", "rest", "scan", "reserve"},
         work' = [work EXCEPT ![w] = At(phase)]
  PROVE  WorkTyped' /\ LotsShrink
<1>1. phase \in Phases
  BY DEF Phases
<1>2. QED BY <1>1, AtTyped, OneWorker DEF HoldsNothing

\* Nothing changes in what they hold.
LEMMA WorkersSame ==
  ASSUME WorkTyped, work' = work
  PROVE  WorkTyped' /\ LotsShrink
  BY DEF WorkTyped, LotsShrink, Held

\* A late request reserves nothing.
LEMMA LateKeeps ==
  ASSUME WorkTyped, NEW q \in Requests, Late(q)
  PROVE  WorkTyped' /\ LotsShrink
<1>1. ASSUME NEW w \in Workers
      PROVE  /\ work'[w] \in Worker /\ work'[w].lot = work[w].lot /\ work'[w].verdict = work[w].verdict
             /\ work'[w].phase = work[w].phase
  <2>1. work[w] \in Worker
    BY DEF WorkTyped
  <2>2. work'[w] = IF work[w].phase \in {"scan", "reserve"}
                   THEN [work[w] EXCEPT !.late = @ \union {q}] ELSE work[w]
    BY DEF Late
  <2>3. QED BY <2>1, <2>2 DEF Worker
<1>2. work' \in [Workers -> Worker]
  BY <1>1 DEF Late
<1>3. QED BY <1>1, <1>2 DEF WorkTyped, LotsShrink, Held, HoldsNothing

-----------------------------------------------------------------------------
(* Each step of a worker but the reservation *)

\* A verdict for requests of the lot.
LEMMA DecideKeeps ==
  ASSUME WorkTyped, NEW w \in Workers, NEW S \in SUBSET Held(w), NEW verdict \in [S -> Verdicts],
         NEW next \in {"rest", "ask"}, NEW until \in 0..RefusalPause,
         \/ Decide(w, verdict, next)
         \/ work' = [work EXCEPT ![w].phase = "write", ![w].verdict = verdict,
                                 ![w].next = next, ![w].until = until]
  PROVE  WorkTyped' /\ LotsShrink
<1>1. work[w] \in Worker /\ Held(w) \subseteq Requests
  BY PartialFacts DEF WorkTyped, Held, Worker
<1>2. verdict \in Partial(Verdicts) /\ DOMAIN verdict = S
  BY <1>1, PartialFacts
<1>3. work' = [work EXCEPT ![w] = work'[w]]
  BY DEF Decide, WorkTyped
<1>4. work'[w] \in Worker /\ work'[w].lot = work[w].lot /\ work'[w].verdict = verdict
      /\ work'[w].phase = "write"
  BY <1>1, <1>2 DEF Decide, WorkTyped, Worker, Phases
<1>5. HoldsNothing(work'[w])
  BY <1>4 DEF HoldsNothing
<1>6. QED BY <1>2, <1>3, <1>4, <1>5, OneWorker DEF Held

\* The phases before the verdicts change nothing in the lot.
LEMMA PhaseKeeps ==
  ASSUME WorkTyped, NEW w \in Workers, NEW phase \in Phases, HoldsNothing(work[w]),
         phase \in {"down", "idle", "rest", "scan", "reserve"} => Held(w) = {},
         \/ work' = [work EXCEPT ![w].phase = phase]
         \/ work' = [work EXCEPT ![w].phase = phase, ![w].calling = 0]
  PROVE  WorkTyped' /\ LotsShrink
<1>1. work[w] \in Worker /\ DOMAIN work[w].verdict \subseteq Held(w)
  BY DEF WorkTyped
<1>2. work' = [work EXCEPT ![w] = work'[w]]
  BY DEF WorkTyped
<1>3. work'[w] \in Worker /\ work'[w].lot = work[w].lot /\ work'[w].verdict = work[w].verdict
      /\ work'[w].phase = phase
  BY <1>1 DEF WorkTyped, Worker
<1>4. HoldsNothing(work'[w])
  BY <1>3 DEF HoldsNothing, Held
<1>5. QED BY <1>1, <1>2, <1>3, <1>4, OneWorker DEF Held

\* Writing a verdict settles one request.
LEMMA WriteKeeps ==
  ASSUME WorkTyped, NEW w \in Workers, Write(w)
  PROVE  WorkTyped' /\ LotsShrink
<1>1. work[w] \in Worker /\ DOMAIN work[w].verdict \subseteq Held(w) /\ work[w].phase = "write"
  BY DEF WorkTyped, Write
<1>2. PICK q \in DOMAIN work[w].verdict :
        LET lot == Without(work[w].lot, q)
            verdict == Without(work[w].verdict, q)
        IN  \/ work' = [work EXCEPT ![w].lot = lot, ![w].verdict = verdict]
            \/ work' = [work EXCEPT ![w].phase = "ask", ![w].lot = lot, ![w].verdict = verdict]
            \/ work' = [work EXCEPT ![w] = At("rest")]
  BY DEF Write
<1> DEFINE lot == Without(work[w].lot, q)
           verdict == Without(work[w].verdict, q)
<1>3. /\ lot \in Partial(Holding) /\ DOMAIN lot = Held(w) \ {q} /\ \A p \in DOMAIN lot : lot[p] = work[w].lot[p]
      /\ verdict \in Partial(Verdicts) /\ DOMAIN verdict = DOMAIN work[w].verdict \ {q}
  <2>1. work[w].lot \in Partial(Holding) /\ work[w].verdict \in Partial(Verdicts)
    BY <1>1 DEF Worker
  <2>2. lot \in Partial(Holding) /\ DOMAIN lot = Held(w) \ {q} /\ \A p \in Held(w) \ {q} : lot[p] = work[w].lot[p]
    <3> DEFINE f == work[w].lot
    <3> HIDE DEF f
    <3>1. f \in Partial(Holding)
      BY <2>1 DEF f
    <3>2. /\ Without(f, q) \in Partial(Holding) /\ DOMAIN Without(f, q) = DOMAIN f \ {q}
          /\ \A p \in DOMAIN f \ {q} : Without(f, q)[p] = f[p]
      BY <3>1, WithoutFacts
    <3>3. QED BY <3>2 DEF Held, f
  <2>3. verdict \in Partial(Verdicts) /\ DOMAIN verdict = DOMAIN work[w].verdict \ {q}
    BY <2>1, WithoutFacts
  <2>4. QED BY <2>2, <2>3
<1> HIDE DEF lot, verdict
<1>4. CASE work' = [work EXCEPT ![w] = At("rest")]
  BY <1>4, WorkerBegins
<1>5. CASE \/ work' = [work EXCEPT ![w].lot = lot, ![w].verdict = verdict]
           \/ work' = [work EXCEPT ![w].phase = "ask", ![w].lot = lot, ![w].verdict = verdict]
  <2>1. work' = [work EXCEPT ![w] = work'[w]]
    BY <1>5 DEF WorkTyped
  <2>2. /\ work'[w] \in Worker /\ work'[w].lot = lot /\ work'[w].verdict = verdict
        /\ work'[w].phase \in {"write", "ask"}
    BY <1>1, <1>3, <1>5 DEF WorkTyped, Worker, Phases
  <2>3. HoldsNothing(work'[w])
    BY <2>2 DEF HoldsNothing
  <2>4. QED BY <1>1, <1>3, <2>1, <2>2, <2>3, OneWorker DEF Held
<1>6. QED BY <1>2, <1>4, <1>5 DEF lot, verdict

\* A failed write keeps the lot, to put it off, or ends the tick.
LEMMA WriteFailsKeeps ==
  ASSUME WorkTyped, GeminiTypeOK, NEW w \in Workers, WriteFails(w)
  PROVE  WorkTyped' /\ LotsShrink
<1>1. work[w] \in Worker /\ Held(w) \subseteq Requests
  BY PartialFacts DEF WorkTyped, Held, Worker
<1>2. CASE work' = [work EXCEPT ![w] = At("rest")]
  BY <1>2, WorkerBegins
<1>3. CASE work' = [work EXCEPT ![w].verdict = All(w, "failure"), ![w].next = "rest",
                                ![w].rescued = TRUE, ![w].until = 0]
  <2>1. All(w, "failure") \in [Held(w) -> Verdicts]
    BY DEF All, Verdicts
  <2>2. All(w, "failure") \in Partial(Verdicts) /\ DOMAIN All(w, "failure") = Held(w)
    BY <1>1, <2>1, PartialFacts
  <2> DEFINE a == All(w, "failure")
             yes == TRUE
  <2> HIDE DEF a, yes
  <2>3. work' = [work EXCEPT ![w] = work'[w]] /\ 0 \in 0..RefusalPause
    <3>1. work' = [work EXCEPT ![w].verdict = a, ![w].next = "rest", ![w].rescued = yes, ![w].until = 0]
      BY <1>3 DEF a, yes
    <3>2. work' = [work EXCEPT ![w] = work'[w]]
      BY <3>1 DEF WorkTyped
    <3>3. QED BY <3>2, GeminiAssumption
  <2>4. /\ work'[w] \in Worker /\ work'[w].lot = work[w].lot /\ work'[w].verdict = All(w, "failure")
        /\ work'[w].phase = "write"
    BY <1>1, <1>3, <2>2, <2>3 DEF WorkTyped, Worker, WriteFails
  <2>5. HoldsNothing(work'[w])
    BY <2>4 DEF HoldsNothing
  <2>6. QED BY <2>2, <2>3, <2>4, <2>5, OneWorker DEF Held
<1>4. QED BY <1>2, <1>3 DEF WriteFails

\* Time passes for the calls on their way.
LEMMA PassKeepsWork ==
  ASSUME WorkTyped, Pass
  PROVE  WorkTyped' /\ LotsShrink
<1>1. ASSUME NEW w \in Workers
      PROVE  /\ work'[w] \in Worker /\ work'[w].lot = work[w].lot /\ work'[w].verdict = work[w].verdict
             /\ HoldsNothing(work'[w])
  <2>1. work[w] \in Worker /\ HoldsNothing(work[w])
    BY DEF WorkTyped
  <2>2. work'[w] = CASE Called(w) -> [work[w] EXCEPT !.elapsed = @ + 1, !.calling = @ + 1]
                     [] work[w].phase = "rest" -> [work[w] EXCEPT !.phase = "idle"]
                     [] work[w].phase = "down" -> work[w]
    BY DEF Pass
  <2>3. Called(w) \/ work[w].phase = "rest" \/ work[w].phase = "down"
    BY DEF Pass
  <2>4. CASE Called(w)
    <3>1. work'[w] = [work[w] EXCEPT !.elapsed = @ + 1, !.calling = @ + 1]
      BY <2>2, <2>4 DEF Called
    <3>2. work'[w] \in Worker /\ work'[w].lot = work[w].lot /\ work'[w].verdict = work[w].verdict
          /\ work'[w].phase = "called"
      <4>1. work[w].elapsed + 1 \in Nat /\ work[w].calling + 1 \in Nat
        BY <2>1 DEF Worker
      <4>2. QED BY <2>1, <2>4, <3>1, <4>1 DEF Worker, Called
    <3>3. QED BY <3>2 DEF HoldsNothing
  <2>5. CASE work[w].phase = "rest"
    <3>1. work'[w] = [work[w] EXCEPT !.phase = "idle"]
      BY <2>2, <2>5 DEF Called
    <3>2. QED BY <2>1, <2>5, <3>1 DEF Worker, HoldsNothing, Phases
  <2>6. CASE work[w].phase = "down"
    <3>1. work'[w] = work[w]
      BY <2>2, <2>6 DEF Called
    <3>2. QED BY <2>1, <3>1
  <2>7. QED BY <2>3, <2>4, <2>5, <2>6
<1>2. work' \in [Workers -> Worker]
  BY <1>1 DEF Pass
<1>3. QED BY <1>1, <1>2 DEF WorkTyped, LotsShrink, Held

-----------------------------------------------------------------------------
(* Rows *)

\* A request a worker's step leaves where it was keeps what its holder read.
RowKeeps(r, s) ==
  /\ s \in RowOf(s.due)
  /\ s.status = "PENDING" => s.attempts < MaxAttempts
  /\ s.by # Nobody => /\ s.by = r.by /\ s.status = r.status /\ s.manual = r.manual
                      /\ s.asked = r.asked /\ r.age <= s.age

\* A step that reserves nothing keeps the rows and what is held of them.
LEMMA RowsKeep ==
  ASSUME RowsTyped, HeldOK, LotsShrink,
         row' = [q \in Requests |-> row'[q]], \A q \in Requests : RowKeeps(row[q], row'[q]),
         \A w \in Workers : Held(w) \subseteq Requests /\ \A q \in Held(w) : work[w].lot[q] \in Holding
  PROVE  RowsTyped' /\ HeldOK' /\ AttemptsRunOut'
<1>1. RowsTyped'
  BY DEF RowsTyped, RowKeeps
<1>2. AttemptsRunOut'
  BY DEF AttemptsRunOut, RowKeeps
<1>3. ASSUME NEW w \in Workers, NEW q \in Held(w)', row'[q].by = w
      PROVE  StandingOK(row'[q], work'[w].lot[q])
  <2>1. q \in Held(w) /\ work'[w].lot[q] = work[w].lot[q] /\ q \in Requests
    BY <1>3 DEF LotsShrink, Held
  <2>2. row[q].by = w /\ RowKeeps(row[q], row'[q]) /\ row'[q].by # Nobody
    BY <1>3, <2>1, GenerationAssumption DEF RowKeeps
  <2>3. StandingOK(row[q], work[w].lot[q])
    BY <2>1, <2>2 DEF HeldOK
  <2>4. row[q].age \in Nat /\ row'[q].age \in Nat /\ work[w].lot[q].age \in Nat
    BY <2>1, <2>2 DEF RowsTyped, RowOf, RowKeeps, Holding
  <2>5. QED BY <2>1, <2>2, <2>3, <2>4 DEF StandingOK, RowKeeps
<1>4. HeldOK'
  BY <1>3 DEF HeldOK, StandingOK
<1>5. QED BY <1>1, <1>2, <1>4

\* What workers hold is typed.
LEMMA HeldTyped ==
  ASSUME WorkTyped, NEW w \in Workers
  PROVE  Held(w) \subseteq Requests /\ \A q \in Held(w) : work[w].lot[q] \in Holding
<1> DEFINE f == work[w].lot
<1> HIDE DEF f
<1>1. f \in Partial(Holding)
  BY DEF WorkTyped, Worker, f
<1>2. DOMAIN f \subseteq Requests /\ \A q \in DOMAIN f : f[q] \in Holding
  BY <1>1, PartialFacts
<1>3. QED BY <1>2 DEF Held, f

\* A row that does not change.
LEMMA RowStays ==
  ASSUME RowsTyped, AttemptsRunOut, NEW q \in Requests
  PROVE  RowKeeps(row[q], row[q])
  BY DEF RowsTyped, AttemptsRunOut, RowKeeps, RowOf

\* One row changes.
LEMMA OneRow ==
  ASSUME RowsTyped, AttemptsRunOut, NEW q \in Requests, NEW r, row' = [row EXCEPT ![q] = r],
         RowKeeps(row[q], r)
  PROVE  row' = [p \in Requests |-> row'[p]] /\ \A p \in Requests : RowKeeps(row[p], row'[p])
<1>1. row' = [p \in Requests |-> IF p = q THEN r ELSE row[p]]
  BY DEF RowsTyped
<1>2. QED BY <1>1, RowStays

\* A new request: nobody holds it.
LEMMA RenewedFacts ==
  ASSUME RowsTyped, NEW q \in Requests, row[q].asked < MaxAsked
  PROVE  /\ RowKeeps(row[q], Renewed(row[q])) /\ Renewed(row[q]).by = Nobody
         /\ Renewed(row[q]) \in RowOf(NoTime)
         /\ Renewed(row[q]).status = "PENDING" /\ ~ Renewed(row[q]).manual
         /\ Renewed(row[q]).asked = row[q].asked + 1 /\ Renewed(row[q]).answered = row[q].answered
<1>1. row[q] \in RowOf(row[q].due)
  BY DEF RowsTyped
<1>2. Renewed(row[q]) \in RowOf(NoTime) /\ Renewed(row[q]).due = NoTime /\ Renewed(row[q]).attempts = 0
  <2> DEFINE no == FALSE
  <2>1. no \in BOOLEAN
    OBVIOUS
  <2> HIDE DEF no
  <2>2. Renewed(row[q]) = [row[q] EXCEPT !.status = "PENDING", !.manual = no, !.age = 0, !.attempts = 0,
                                         !.due = NoTime, !.by = Nobody, !.left = 0, !.asked = @ + 1]
    BY DEF Renewed, no
  <2>3. 0 \in 0..GiveUpAge /\ 0 \in 0..MaxAttempts /\ 0 \in 0..Reservation /\ row[q].asked + 1 \in 0..MaxAsked
    BY <1>1, GenerationAssumption DEF RowOf
  <2> DEFINE r == Renewed(row[q])
             a == row[q].asked + 1
  <2> HIDE DEF r, a
  <2>4. r = [row[q] EXCEPT !.status = "PENDING", !.manual = no, !.age = 0, !.attempts = 0,
                           !.due = NoTime, !.by = Nobody, !.left = 0, !.asked = a]
    BY <2>2 DEF r, a
  <2>5. r.due = NoTime /\ r.attempts = 0
    BY <1>1, <2>4 DEF RowOf
  <2>6. r \in RowOf(NoTime)
    BY <1>1, <2>1, <2>3, <2>4 DEF RowOf, Statuses, a
  <2>7. QED BY <2>5, <2>6 DEF r
<1>3. /\ Renewed(row[q]).by = Nobody /\ Renewed(row[q]).status = "PENDING" /\ ~ Renewed(row[q]).manual
      /\ Renewed(row[q]).asked = row[q].asked + 1 /\ Renewed(row[q]).answered = row[q].answered
  BY <1>1 DEF Renewed, RowOf
<1>4. QED BY <1>2, <1>3, GenerationAssumption DEF RowKeeps

\* A reservation taken back costs an attempt, and the last one ends the request.
LEMMA ReclaimedFacts ==
  ASSUME RowsTyped, AttemptsRunOut, NEW q \in Requests, row[q].status = "PENDING",
         NEW r, r = Reclaimed(row[q])
  PROVE  /\ RowKeeps(row[q], r) /\ r.by = Nobody
         /\ r.manual = row[q].manual /\ r.asked = row[q].asked /\ r.answered = row[q].answered
         /\ r.status = "PENDING" \/ (r.status = "FAILED" /\ r.attempts >= MaxAttempts)
<1>1. row[q] \in RowOf(row[q].due) /\ row[q].attempts \in Nat /\ row[q].attempts < MaxAttempts
      /\ MaxAttempts \in Nat
  BY GenerationAssumption DEF RowsTyped, AttemptsRunOut, RowOf
<1>2. /\ r.by = Nobody /\ r.manual = row[q].manual /\ r.asked = row[q].asked /\ r.answered = row[q].answered
      /\ r.attempts = row[q].attempts + 1
      /\ r.status = IF row[q].attempts >= MaxAttempts - 1 THEN "FAILED" ELSE "PENDING"
  BY <1>1 DEF Reclaimed, RowOf
<1>3. r \in RowOf(r.due)
  <2>1. row[q].attempts + 1 \in 0..MaxAttempts
    BY <1>1
  <2>2. CASE row[q].attempts >= MaxAttempts - 1
    <3>1. r = [row[q] EXCEPT !.status = "FAILED", !.attempts = @ + 1, !.by = Nobody, !.due = NoTime]
      BY <2>2 DEF Reclaimed
    <3>2. QED BY <1>1, <2>1, <3>1 DEF RowOf, Statuses
  <2>3. CASE ~ (row[q].attempts >= MaxAttempts - 1)
    <3>1. r = [row[q] EXCEPT !.status = "PENDING", !.attempts = @ + 1, !.by = Nobody, !.due = @]
      BY <2>3 DEF Reclaimed
    <3>2. QED BY <1>1, <2>1, <3>1 DEF RowOf, Statuses
  <2>4. QED BY <2>2, <2>3
<1>4. RowKeeps(row[q], r)
  BY <1>1, <1>2, <1>3 DEF RowKeeps
<1>5. CASE row[q].attempts >= MaxAttempts - 1
  <2>1. r.status = "FAILED" /\ r.attempts >= MaxAttempts
    BY <1>1, <1>2, <1>5
  <2>2. QED BY <1>2, <1>4, <2>1
<1>6. CASE ~ (row[q].attempts >= MaxAttempts - 1)
  BY <1>2, <1>4, <1>6
<1>7. QED BY <1>5, <1>6

\* Time passes for a row.
LEMMA AgedFacts ==
  ASSUME RowsTyped, AttemptsRunOut, NEW q \in Requests, Pass
  PROVE  /\ RowKeeps(row[q], row'[q])
         /\ row'[q].status = row[q].status /\ row'[q].manual = row[q].manual
         /\ row'[q].asked = row[q].asked /\ row'[q].answered = row[q].answered
<1>1. row[q] \in RowOf(row[q].due) /\ GiveUpAge \in Nat /\ Reservation \in Nat
  BY GenerationAssumption DEF RowsTyped
<1>2. CASE row[q].status # "PENDING"
  <2>1. row'[q] = row[q]
    BY <1>2 DEF Pass
  <2>2. QED BY <2>1, RowStays
<1>3. CASE row[q].status = "PENDING"
  <2> DEFINE age == IF row[q].age < GiveUpAge THEN row[q].age + 1 ELSE row[q].age
             due == IF row[q].due \in {NoTime, 0} THEN row[q].due ELSE row[q].due - 1
             left == IF row[q].left > 0 THEN row[q].left - 1 ELSE 0
  <2>1. row'[q] = [row[q] EXCEPT !.age = age, !.due = due, !.left = left]
    BY <1>3 DEF Pass
  <2>2. age \in 0..GiveUpAge /\ row[q].age <= age
    BY <1>1 DEF RowOf
  <2>3. left \in 0..Reservation
    BY <1>1 DEF RowOf
  <2> HIDE DEF age, due, left
  <2>4. /\ row'[q].status = row[q].status /\ row'[q].manual = row[q].manual
        /\ row'[q].asked = row[q].asked /\ row'[q].answered = row[q].answered
        /\ row'[q].by = row[q].by /\ row'[q].attempts = row[q].attempts /\ row'[q].age = age
        /\ row'[q].due = due
    BY <1>1, <2>1 DEF RowOf
  <2>5. row'[q] \in RowOf(due)
    BY <1>1, <2>1, <2>2, <2>3 DEF RowOf
  <2>6. row[q].attempts < MaxAttempts
    BY <1>3 DEF AttemptsRunOut
  <2>7. RowKeeps(row[q], row'[q])
    BY <2>2, <2>4, <2>5, <2>6 DEF RowKeeps
  <2>8. QED BY <2>4, <2>7
<1>4. QED BY <1>2, <1>3

\* What a verdict makes of the row it was reached for.
VerdictOf(r, held, s) ==
  /\ RowKeeps(r, s) /\ s.by = Nobody /\ s.manual = r.manual /\ s.asked = r.asked
  /\ \/ s.status \in {"DONE", "UNKNOWN"} /\ s.answered = held.asked
     \/ s.status = "PENDING" /\ s.answered = r.answered
     \/ /\ s.status = "FAILED" /\ s.answered = r.answered
        /\ s.attempts >= MaxAttempts \/ held.age >= GiveUpAge

\* Each of the seven verdicts, written while the reservation stands.
LEMMA VerdictFacts ==
  ASSUME GInv, NEW w \in Workers, NEW q \in DOMAIN work[w].verdict, row[q].by = w
  PROVE  VerdictOf(row[q], work[w].lot[q], Verdict(w, q))
<1> DEFINE r == row[q]
           held == work[w].lot[q]
           v == work[w].verdict[q]
           late(delay) == Left(delay, work[w].elapsed)
           free == [row[q] EXCEPT !.by = Nobody, !.left = 0]
           served == [free EXCEPT !.attempts = 0, !.due = NoTime, !.answered = held.asked]
           s == Verdict(w, q)
<1>1. /\ q \in Held(w) /\ q \in Requests /\ v \in Verdicts /\ held \in Holding
      /\ r \in RowOf(r.due) /\ MaxAttempts \in Nat \ {0} /\ GiveUpAge \in Nat
      /\ r.status = "PENDING" /\ held.asked = r.asked /\ held.age <= r.age
      /\ r.attempts < MaxAttempts /\ 0 \in 0..MaxAttempts /\ 0 \in 0..Reservation
  <2>1. q \in Held(w)
    BY DEF GInv, WorkTyped
  <2>2. q \in Requests /\ held \in Holding
    BY <2>1, HeldTyped DEF GInv
  <2>3. v \in Verdicts
    <3> DEFINE f == work[w].verdict
    <3> HIDE DEF f
    <3>1. f \in Partial(Verdicts) /\ q \in DOMAIN f
      BY DEF GInv, WorkTyped, Worker, f
    <3>2. f[q] \in Verdicts
      BY <3>1, PartialFacts
    <3>3. QED BY <3>2 DEF f
  <2>4. StandingOK(r, held)
    BY <2>1 DEF GInv, HeldOK
  <2>5. QED BY <2>1, <2>2, <2>3, <2>4, GenerationAssumption DEF StandingOK, GInv, RowsTyped, AttemptsRunOut
<1>2. held.asked \in 0..MaxAsked /\ held.attempts \in 0..(MaxAttempts - 1) /\ held.age \in 0..GiveUpAge
  BY <1>1 DEF Holding
<1>3. /\ free \in RowOf(free.due) /\ free.by = Nobody /\ free.status = "PENDING" /\ free.manual = r.manual
      /\ free.asked = r.asked /\ free.answered = r.answered /\ free.attempts = r.attempts /\ free.due = r.due
  BY <1>1 DEF RowOf
<1> HIDE DEF free
<1>4. /\ served \in RowOf(NoTime) /\ served.by = Nobody /\ served.manual = r.manual /\ served.asked = r.asked
      /\ served.answered = held.asked /\ served.status = "PENDING" /\ served.attempts = 0 /\ served.due = NoTime
  BY <1>1, <1>2, <1>3 DEF RowOf
<1> HIDE DEF served, r, held, v, s, late
<1>5. ASSUME NEW st \in {"DONE", "UNKNOWN"}, NEW t \in {"generated", "none"},
             s = [served EXCEPT !.status = st, !.text = t]
      PROVE  VerdictOf(r, held, s)
  <2>1. /\ s.status = st /\ s.by = Nobody /\ s.manual = r.manual /\ s.asked = r.asked
        /\ s.answered = held.asked /\ s.due = NoTime
    BY <1>4, <1>5 DEF RowOf
  <2>2. s \in RowOf(NoTime)
    BY <1>4, <1>5 DEF RowOf, Statuses
  <2>3. st # "PENDING"
    BY <1>5
  <2>4. RowKeeps(r, s)
    BY <2>1, <2>2, <2>3 DEF RowKeeps
  <2>5. QED BY <1>5, <2>1, <2>4 DEF VerdictOf
<1>6. ASSUME NEW due, s = [free EXCEPT !.due = due] PROVE VerdictOf(r, held, s)
  <2>1. /\ s.status = "PENDING" /\ s.by = Nobody /\ s.manual = r.manual /\ s.asked = r.asked
        /\ s.answered = r.answered /\ s.due = due /\ s.attempts = r.attempts
    BY <1>3, <1>6 DEF RowOf
  <2>2. s \in RowOf(due)
    BY <1>3, <1>6 DEF RowOf
  <2>3. s.attempts < MaxAttempts
    BY <1>1, <2>1 DEF r
  <2>4. RowKeeps(r, s)
    BY <2>1, <2>2, <2>3 DEF RowKeeps
  <2>5. QED BY <2>1, <2>4 DEF VerdictOf
<1>7. ASSUME NEW due, NEW st \in {"FAILED", "PENDING"}, NEW n \in 0..MaxAttempts,
             st = "PENDING" => n < MaxAttempts,
             st = "FAILED" => n >= MaxAttempts \/ held.age >= GiveUpAge,
             \/ s = [free EXCEPT !.attempts = n, !.status = st, !.due = due]
             \/ s = [free EXCEPT !.status = st, !.due = due] /\ n = free.attempts
      PROVE  VerdictOf(r, held, s)
  <2>1. /\ s.status = st /\ s.by = Nobody /\ s.manual = r.manual /\ s.asked = r.asked
        /\ s.answered = r.answered /\ s.due = due /\ s.attempts = n
    BY <1>3, <1>7 DEF RowOf
  <2>2. s \in RowOf(due)
    <3>1. st \in Statuses
      BY <1>7 DEF Statuses
    <3>2. CASE s = [free EXCEPT !.attempts = n, !.status = st, !.due = due]
      BY <1>3, <3>1, <3>2 DEF RowOf
    <3>3. CASE s = [free EXCEPT !.status = st, !.due = due]
      BY <1>3, <3>1, <3>3 DEF RowOf
    <3> QED
      BY <1>7, <3>2, <3>3
  <2>3. RowKeeps(r, s)
    BY <1>7, <2>1, <2>2 DEF RowKeeps
  <2>4. QED BY <1>7, <2>1, <2>3 DEF VerdictOf
<1>8. CASE v = "known"
  <2>1. s = [served EXCEPT !.status = "DONE", !.text = "generated"]
    BY <1>8 DEF Verdict, s, v, served, free, held
  <2>2. QED BY <1>5, <2>1 DEF s, r, held
<1>9. CASE v = "unknown"
  <2>1. s = [served EXCEPT !.status = "UNKNOWN", !.text = "none"]
    BY <1>9 DEF Verdict, s, v, served, free, held
  <2>2. QED BY <1>5, <2>1 DEF s, r, held
<1>10. CASE v \in {"deserted", "budget", "pause"}
  <2>1. s \in {[free EXCEPT !.due = late(RecheckDelay)], [free EXCEPT !.due = late(BudgetDelay)],
               [free EXCEPT !.due = work[w].until]}
    BY <1>10 DEF Verdict, s, v, free, late
  <2>2. QED BY <1>6, <2>1 DEF s, r, held
<1>11. CASE v = "invalid"
  <2> DEFINE n == held.attempts + 1
             gone == Exhausted(n)
             due == IF gone THEN NoTime ELSE late(InvalidDelay(n))
             st == IF gone THEN "FAILED" ELSE "PENDING"
  <2>1. s = [free EXCEPT !.attempts = n, !.status = st, !.due = due]
    BY <1>11 DEF Verdict, s, v, free, late, held
  <2>2. n \in 0..MaxAttempts
    BY <1>1, <1>2
  <2>3. st \in {"FAILED", "PENDING"} /\ (st = "PENDING" => n < MaxAttempts)
        /\ (st = "FAILED" => n >= MaxAttempts)
    BY <1>1, <2>2 DEF Exhausted
  <2> HIDE DEF n, st, due
  <2>4. QED BY <1>7, <2>1, <2>2, <2>3 DEF s, r, held
<1>12. CASE v = "failure"
  <2> DEFINE gone == held.age >= GiveUpAge
             due == IF gone THEN NoTime ELSE late(FailureDelay(held.age, work[w].until))
             st == IF gone THEN "FAILED" ELSE "PENDING"
  <2>1. s = [free EXCEPT !.status = st, !.due = due]
    BY <1>12 DEF Verdict, s, v, free, late, held
  <2>2. free.attempts \in 0..MaxAttempts /\ free.attempts < MaxAttempts
    BY <1>1, <1>3 DEF RowOf, r
  <2>3. st \in {"FAILED", "PENDING"} /\ (st = "FAILED" => held.age >= GiveUpAge)
    OBVIOUS
  <2> HIDE DEF st, due
  <2>4. QED BY <1>7, <2>1, <2>2, <2>3 DEF s, r, held
<1>13. QED BY <1>1, <1>8, <1>9, <1>10, <1>11, <1>12 DEF Verdicts, v, s, r, held

-----------------------------------------------------------------------------
(* What each step does to the rows *)

\* The rows after a step, request by request: all that the promise and the
\* invariant need to know of it.
Asked(q) ==
  /\ row' = [row EXCEPT ![q] = row'[q]]
  /\ row'[q].status = "PENDING" /\ ~ row'[q].manual /\ row'[q].by = Nobody
  /\ row'[q].asked = row[q].asked + 1 /\ row'[q].answered = row[q].answered

Edited(q) ==
  /\ row' = [row EXCEPT ![q] = row'[q]]
  /\ row'[q].status = "DONE" /\ row'[q].manual /\ row'[q].by = Nobody
  /\ row'[q].asked = row[q].asked /\ row'[q].answered = row[q].answered

\* Some reservations are taken back; the requests that had no attempt left fail.
TakenBack ==
  \A q \in Requests :
    \/ row'[q] = row[q]
    \/ Queued(q) /\ row'[q] = Reclaimed(row[q])

Verdicted ==
  \/ row' = row
  \/ \E w \in Workers : \E q \in DOMAIN work[w].verdict :
       row[q].by = w /\ row' = [row EXCEPT ![q] = Verdict(w, q)]

RowsMove ==
  \/ \E q \in Requests : (Asked(q) \/ Edited(q)) /\ RowKeeps(row[q], row'[q])
  \/ TakenBack
  \/ Verdicted
  \/ Pass

\* Whichever it is, rows stay typed and attempts do not run over.
LEMMA RowsMoveKeep ==
  ASSUME GInv, LotsShrink, row' = [q \in Requests |-> row'[q]], RowsMove
  PROVE  RowsTyped' /\ HeldOK' /\ AttemptsRunOut'
<1>1. RowsTyped /\ HeldOK /\ AttemptsRunOut /\ WorkTyped
  BY DEF GInv
<1>2. SUFFICES \A q \in Requests : RowKeeps(row[q], row'[q])
  BY <1>1, HeldTyped, RowsKeep
<1>3. ASSUME NEW p \in Requests, Asked(p) \/ Edited(p), RowKeeps(row[p], row'[p])
      PROVE  \A q \in Requests : RowKeeps(row[q], row'[q])
  BY <1>1, <1>3, OneRow DEF Asked, Edited
<1>4. CASE TakenBack
  BY <1>1, <1>4, ReclaimedFacts, RowStays DEF TakenBack, Queued
<1>5. CASE Verdicted
  <2>1. CASE row' = row
    BY <1>1, <2>1, RowStays
  <2>2. ASSUME NEW w \in Workers, NEW p \in DOMAIN work[w].verdict, row[p].by = w,
               row' = [row EXCEPT ![p] = Verdict(w, p)]
        PROVE  \A q \in Requests : RowKeeps(row[q], row'[q])
    <3>1. VerdictOf(row[p], work[w].lot[p], Verdict(w, p))
      BY <2>2, VerdictFacts
    <3>2. RowKeeps(row[p], Verdict(w, p))
      BY <3>1 DEF VerdictOf
    <3>3. p \in Requests
      BY <1>1, <2>2, HeldTyped DEF WorkTyped
    <3>4. QED BY <1>1, <2>2, <3>2, <3>3, OneRow
  <2>3. QED BY <1>5, <2>1, <2>2 DEF Verdicted
<1>6. CASE Pass
  BY <1>1, <1>6, AgedFacts
<1>7. QED BY <1>3, <1>4, <1>5, <1>6 DEF RowsMove

\* Those who ask and those who write.
LEMMA AskedMoves ==
  ASSUME GInv, NEW q \in Requests, Schedule(q) \/ Renew(q) \/ (\E r \in renewing : r.request = q /\ RenewWrite(r))
  PROVE  RowsMove /\ row' = [p \in Requests |-> row'[p]] /\ WorkTyped' /\ LotsShrink
<1>1. RowsTyped /\ WorkTyped /\ AttemptsRunOut
  BY DEF GInv
<1>2. Late(q) /\ row[q].asked < MaxAsked
  BY DEF Schedule, Renew, RenewWrite
<1>3. row' = [row EXCEPT ![q] = [Renewed(row[q]) EXCEPT !.text = "none"]] \/ row' = [row EXCEPT ![q] = Renewed(row[q])]
  BY DEF Schedule, Renew, RenewWrite
<1> DEFINE s == Renewed(row[q])
<1>4. /\ RowKeeps(row[q], s) /\ s.by = Nobody /\ s \in RowOf(NoTime)
      /\ s.status = "PENDING" /\ ~ s.manual
      /\ s.asked = row[q].asked + 1 /\ s.answered = row[q].answered
  BY <1>1, <1>2, RenewedFacts
<1> HIDE DEF s
<1>5. row'[q] = s \/ row'[q] = [s EXCEPT !.text = "none"]
  BY <1>1, <1>3 DEF RowsTyped, s
<1>6. /\ row' = [row EXCEPT ![q] = row'[q]]
      /\ row' = [p \in Requests |-> row'[p]]
  BY <1>1, <1>3 DEF RowsTyped
<1>8. /\ row'[q] \in RowOf(NoTime)
      /\ row'[q].by = Nobody /\ row'[q].status = "PENDING" /\ ~ row'[q].manual
      /\ row'[q].asked = row[q].asked + 1 /\ row'[q].answered = row[q].answered
      /\ row'[q].attempts = s.attempts /\ row'[q].due = NoTime
  BY <1>4, <1>5 DEF RowOf
<1>9. RowKeeps(row[q], row'[q])
  BY <1>4, <1>8 DEF RowKeeps
<1>10. RowsMove
  BY <1>6, <1>8, <1>9 DEF RowsMove, Asked
<1>11. QED BY <1>1, <1>2, <1>6, <1>10, LateKeeps

\* An edition releases the row and takes it out of the queue.
LEMMA EditMoves ==
  ASSUME GInv, NEW q \in Requests, Edit(q)
  PROVE  RowsMove /\ row' = [p \in Requests |-> row'[p]] /\ WorkTyped' /\ LotsShrink
<1>1. RowsTyped /\ WorkTyped /\ row[q] \in RowOf(row[q].due)
  BY DEF GInv, RowsTyped
<1> DEFINE yes == TRUE
<1> HIDE DEF yes
<1>2. row' = [row EXCEPT ![q] = [row[q] EXCEPT !.status = "DONE", !.manual = yes, !.text = "manual",
                                               !.attempts = 0, !.due = NoTime, !.by = Nobody, !.left = 0]]
  BY DEF Edit, yes
<1>3. row' = [row EXCEPT ![q] = row'[q]] /\ row' = [p \in Requests |-> row'[p]]
      /\ row'[q] = [row[q] EXCEPT !.status = "DONE", !.manual = yes, !.text = "manual",
                                  !.attempts = 0, !.due = NoTime, !.by = Nobody, !.left = 0]
  BY <1>1, <1>2 DEF RowsTyped
<1>4. yes \in BOOLEAN /\ 0 \in 0..MaxAttempts /\ 0 \in 0..Reservation
  BY GenerationAssumption DEF yes
<1>5. /\ row'[q].status = "DONE" /\ row'[q].manual = yes /\ row'[q].by = Nobody /\ row'[q].due = NoTime
      /\ row'[q].asked = row[q].asked /\ row'[q].answered = row[q].answered
  BY <1>1, <1>3 DEF RowOf
<1>6. row'[q] \in RowOf(NoTime)
  BY <1>1, <1>3, <1>4 DEF RowOf, Statuses
<1>7. RowKeeps(row[q], row'[q])
  BY <1>5, <1>6 DEF RowKeeps
<1>8. row'[q].manual
  BY <1>5 DEF yes
<1>9. RowsMove
  BY <1>3, <1>5, <1>7, <1>8 DEF RowsMove, Edited
<1>10. work' = work
  BY DEF Edit
<1>11. QED BY <1>1, <1>3, <1>9, <1>10, WorkersSame

\* Taking back every expired reservation, or those of the requests given up.
LEMMA TakenMoves ==
  ASSUME RowsTyped, NEW S \in SUBSET StuckOnes, row' = Taken(S)
  PROVE  TakenBack /\ row' = [p \in Requests |-> row'[p]]
  BY DEF Taken, TakenBack, StuckOnes, Stuck

\* Rows that stay are rows taken back from nobody.
LEMMA SameMoves ==
  ASSUME RowsTyped, row' = row
  PROVE  RowsMove /\ row' = [p \in Requests |-> row'[p]]
  BY DEF RowsTyped, RowsMove, TakenBack

\* A reservation makes a worker the holder of what it has just read.
LEMMA ReserveKeeps ==
  ASSUME GInv, NEW w \in Workers, Reserve(w)
  PROVE  /\ RowsTyped' /\ WorkTyped' /\ HeldOK' /\ AttemptsRunOut'
         /\ \A q \in Requests : row'[q] = row[q] \/ row'[q] = [row[q] EXCEPT !.by = w, !.left = Reservation]
         /\ row' = [q \in Requests |-> row'[q]]
<1>1. RowsTyped /\ WorkTyped /\ HeldOK /\ AttemptsRunOut /\ work[w] \in Worker
      /\ work[w].phase = "reserve" /\ Held(w) = {} /\ DOMAIN work[w].verdict = {}
  BY DEF GInv, WorkTyped, Reserve, HoldsNothing, Held
<1>2. CASE work' = [work EXCEPT ![w] = At("rest")] /\ UNCHANGED row
  <2>1. WorkTyped' /\ LotsShrink
    BY <1>1, <1>2, WorkerBegins
  <2>2. RowsMove /\ row' = [p \in Requests |-> row'[p]]
    BY <1>1, <1>2, SameMoves
  <2>3. QED BY <1>2, <2>1, <2>2, RowsMoveKeep
<1>3. ASSUME NEW lot \in SUBSET Ready(work[w].late),
             row' = [q \in Requests |->
                       IF q \in lot THEN [row[q] EXCEPT !.by = w, !.left = Reservation] ELSE row[q]],
             work' = [work EXCEPT ![w].phase = "budget", ![w].late = {},
               ![w].lot = [q \in lot |-> [attempts |-> row[q].attempts, age |-> row[q].age, asked |-> row[q].asked]]]
      PROVE  /\ RowsTyped' /\ WorkTyped' /\ HeldOK' /\ AttemptsRunOut'
             /\ \A q \in Requests : row'[q] = row[q] \/ row'[q] = [row[q] EXCEPT !.by = w, !.left = Reservation]
             /\ row' = [q \in Requests |-> row'[q]]
  <2> DEFINE held == [q \in lot |-> [attempts |-> row[q].attempts, age |-> row[q].age, asked |-> row[q].asked]]
  <2>1. lot \subseteq Requests /\ \A q \in lot : row[q].status = "PENDING" /\ ~ row[q].manual
    BY <1>3 DEF Ready, Queued
  <2>2. ASSUME NEW q \in Requests
        PROVE  /\ row[q] \in RowOf(row[q].due)
               /\ q \in lot => row[q].attempts \in 0..(MaxAttempts - 1)
    <3>1. row[q] \in RowOf(row[q].due)
      BY <1>1 DEF RowsTyped
    <3>2. q \in lot => row[q].attempts < MaxAttempts
      BY <1>1, <2>1 DEF AttemptsRunOut
    <3>3. QED BY <3>1, <3>2, GenerationAssumption DEF RowOf
  <2>3. held \in [lot -> Holding]
    BY <2>1, <2>2 DEF Holding, RowOf
  <2>4. held \in Partial(Holding) /\ DOMAIN held = lot
    BY <2>1, <2>3, PartialFacts
  <2>5. \A q \in lot : held[q].asked = row[q].asked /\ held[q].age = row[q].age
    OBVIOUS
  <2> HIDE DEF held
  <2>6. work' = [work EXCEPT ![w].phase = "budget", ![w].late = {}, ![w].lot = held]
    BY <1>3 DEF held
  <2>7. /\ work' = [work EXCEPT ![w] = work'[w]] /\ work'[w] \in Worker
        /\ work'[w].lot = held /\ work'[w].phase = "budget" /\ work'[w].verdict = work[w].verdict
    BY <1>1, <2>4, <2>6 DEF WorkTyped, Worker, Phases
  <2>8. WorkTyped'
    <3>1. HoldsNothing(work'[w]) /\ DOMAIN work'[w].verdict \subseteq DOMAIN work'[w].lot
      BY <1>1, <2>7 DEF HoldsNothing
    <3>2. QED BY <1>1, <2>7, <3>1 DEF WorkTyped, Held
  <2>9. ASSUME NEW q \in Requests
        PROVE  /\ row'[q] \in RowOf(row'[q].due) /\ row'[q].by = IF q \in lot THEN w ELSE row[q].by
               /\ row'[q].status = row[q].status /\ row'[q].manual = row[q].manual
               /\ row'[q].asked = row[q].asked /\ row'[q].age = row[q].age /\ row'[q].attempts = row[q].attempts
    <3>1. CASE q \in lot
      <4>1. row'[q] = [row[q] EXCEPT !.by = w, !.left = Reservation]
        BY <1>3, <3>1
      <4>2. Reservation \in 0..Reservation
        BY GenerationAssumption
      <4>3. QED BY <2>2, <3>1, <4>1, <4>2 DEF RowOf
    <3>2. CASE q \notin lot
      BY <1>3, <2>2, <3>2
    <3>3. QED BY <3>1, <3>2
  <2>10. RowsTyped'
    BY <1>3, <2>9 DEF RowsTyped
  <2>11. AttemptsRunOut'
    BY <1>1, <2>9 DEF AttemptsRunOut
  <2>12. HeldOK'
    <3>1. SUFFICES ASSUME NEW v \in Workers, NEW q \in Held(v)', row'[q].by = v
                   PROVE  StandingOK(row'[q], work'[v].lot[q])
      BY DEF HeldOK, StandingOK
    <3>2. CASE v = w
      <4>1. q \in lot /\ q \in Requests /\ work'[v].lot[q] = held[q]
        BY <2>1, <2>4, <2>7, <3>1, <3>2 DEF Held
      <4>2. row[q].age \in Nat
        BY <2>2, <4>1 DEF RowOf
      <4>3. QED BY <2>1, <2>5, <2>9, <4>1, <4>2 DEF StandingOK
    <3>3. CASE v # w
      <4>1. work'[v] = work[v] /\ q \in Held(v)
        BY <1>1, <2>7, <3>1, <3>3 DEF Held, WorkTyped
      <4>2. q \in Requests
        BY <1>1, <4>1, HeldTyped
      <4>3. row[q].by = v
        BY <2>9, <3>1, <3>3, <4>2
      <4>4. StandingOK(row[q], work[v].lot[q])
        BY <1>1, <4>1, <4>3 DEF HeldOK
      <4>5. QED BY <2>9, <4>1, <4>2, <4>4 DEF StandingOK
    <3>4. QED BY <3>2, <3>3
  <2>13. QED BY <1>3, <2>8, <2>10, <2>11, <2>12
<1>4. \A S : \A seen \in Seen(w, S) : seen \subseteq S
  BY DEF Seen
<1>5. \A S : \A lot \in Lots(S) : lot \subseteq S
  BY DEF Lots
<1>6. QED BY <1>2, <1>3, <1>4, <1>5 DEF Reserve

\* The other steps of a worker.
LEMMA WorkerMoves ==
  ASSUME GInv, NEW w \in Workers, Step(w) \/ TickFails(w) \/ WriteFails(w) \/ Crash(w), ~ Reserve(w)
  PROVE  RowsMove /\ row' = [q \in Requests |-> row'[q]] /\ WorkTyped' /\ LotsShrink
<1>1. /\ RowsTyped /\ WorkTyped /\ work[w] \in Worker /\ HoldsNothing(work[w])
      /\ GeminiTypeOK /\ Held(w) \subseteq Requests
  BY HeldTyped DEF GInv, WorkTyped
<1>2. ASSUME row' = row PROVE RowsMove /\ row' = [q \in Requests |-> row'[q]]
  BY <1>1, <1>2, SameMoves
<1>3. /\ {"down", "idle", "rest", "scan", "reserve", "budget", "prepare", "ask", "called", "write"} = Phases
      /\ {"budget", "pause", "failure", "deserted"} \subseteq Verdicts
  BY DEF Phases, Verdicts
<1>4. \A v \in Verdicts : All(w, v) \in [Held(w) -> Verdicts]
  BY DEF All
<1>5. 0 \in 0..RefusalPause /\ pause \in 0..RefusalPause
  BY <1>1, GeminiAssumption DEF GeminiTypeOK
<1>6. CASE Tick(w)
  <2>1. RowsMove /\ row' = [q \in Requests |-> row'[q]]
    BY <1>1, <1>6, TakenMoves DEF Tick, RowsMove
  <2>2. WorkTyped' /\ LotsShrink
    BY <1>1, <1>6, WorkerBegins DEF Tick
  <2>3. QED BY <2>1, <2>2
<1>7. CASE Scan(w)
  <2>1. work' = [work EXCEPT ![w].phase = "reserve"] \/ work' = [work EXCEPT ![w] = At("rest")]
    BY <1>7 DEF Scan
  <2>2. Held(w) = {}
    BY <1>1, <1>7 DEF Scan, HoldsNothing, Held
  <2>3. WorkTyped' /\ LotsShrink
    BY <1>1, <1>3, <2>1, <2>2, PhaseKeeps, WorkerBegins
  <2>4. QED BY <1>2, <1>7, <2>3 DEF Scan
<1>8. CASE Budget(w)
  <2>1. WorkTyped' /\ LotsShrink
    BY <1>1, <1>3, <1>4, <1>5, <1>8, DecideKeeps, PhaseKeeps DEF Budget
  <2>2. QED BY <1>2, <1>8, <2>1 DEF Budget
<1>9. CASE Prepare(w)
  <2> DEFINE deserted == Held(w) \intersect Deserted
  <2>1. CASE deserted = {}
    BY <1>1, <1>2, <1>3, <1>9, <2>1, PhaseKeeps DEF Prepare
  <2>2. CASE deserted # {}
    <3>1. [q \in deserted |-> "deserted"] \in [deserted -> Verdicts] /\ deserted \in SUBSET Held(w)
      BY <1>3
    <3>2. Decide(w, [q \in deserted |-> "deserted"], "ask") /\ row' = row
      BY <1>9, <2>2 DEF Prepare
    <3>3. WorkTyped' /\ LotsShrink
      BY <1>1, <1>5, <3>1, <3>2, DecideKeeps
    <3>4. QED BY <1>2, <3>2, <3>3
  <2>3. QED BY <2>1, <2>2
<1>10. CASE Ask(w)
  <2>1. WorkTyped' /\ LotsShrink
    BY <1>1, <1>3, <1>10, PhaseKeeps DEF Ask
  <2>2. QED BY <1>2, <1>10, <2>1 DEF Ask
<1>11. CASE PutOff(w)
  <2>1. WorkTyped' /\ LotsShrink
    BY <1>1, <1>3, <1>4, <1>5, <1>11, DecideKeeps DEF PutOff
  <2>2. QED BY <1>2, <1>11, <2>1 DEF PutOff
<1>12. CASE Answered(w)
  <2>1. PICK verdict \in [Held(w) -> {"known", "unknown", "invalid"}] : Decide(w, verdict, "rest")
    BY <1>12 DEF Answered
  <2>2. verdict \in [Held(w) -> Verdicts]
    BY <2>1 DEF Verdicts
  <2>3. WorkTyped' /\ LotsShrink
    BY <1>1, <1>5, <2>1, <2>2, DecideKeeps
  <2>4. QED BY <1>2, <1>12, <2>3 DEF Answered
<1>13. CASE Fails(w)
  <2>1. WorkTyped' /\ LotsShrink
    BY <1>1, <1>3, <1>4, <1>5, <1>13, DecideKeeps DEF Fails
  <2>2. QED BY <1>2, <1>13, <2>1 DEF Fails
<1>14. CASE Refused(w)
  <2>1. PICK length \in 1..RefusalPause :
          work' = [work EXCEPT ![w].phase = "write", ![w].verdict = All(w, "failure"),
                               ![w].next = "rest", ![w].until = length]
    BY <1>14 DEF Refused
  <2>2. length \in 0..RefusalPause
    BY <2>1, GeminiAssumption
  <2>3. WorkTyped' /\ LotsShrink
    BY <1>1, <1>3, <1>4, <2>1, <2>2, DecideKeeps
  <2>4. QED BY <1>2, <1>14, <2>3 DEF Refused
<1>15. CASE Write(w)
  <2>1. WorkTyped' /\ LotsShrink
    BY <1>1, <1>15, WriteKeeps
  <2>2. Verdicted
    BY <1>15 DEF Write, Written, Stands, Verdicted
  <2>3. row' = [q \in Requests |-> row'[q]]
    BY <1>1, <2>2 DEF Verdicted, RowsTyped
  <2>4. QED BY <2>1, <2>2, <2>3 DEF RowsMove
<1>16. CASE WriteFails(w)
  <2>1. WorkTyped' /\ LotsShrink
    BY <1>1, <1>16, WriteFailsKeeps
  <2>2. Verdicted
    BY <1>16 DEF WriteFails, Written, Stands, Verdicted
  <2>3. row' = [q \in Requests |-> row'[q]]
    BY <1>1, <2>2 DEF Verdicted, RowsTyped
  <2>4. QED BY <2>1, <2>2, <2>3 DEF RowsMove
<1>17. CASE Restart(w) \/ Crash(w)
  <2>1. WorkTyped' /\ LotsShrink
    BY <1>1, <1>17, WorkerBegins DEF Restart, Crash
  <2>2. QED BY <1>2, <1>17, <2>1 DEF Restart, Crash
<1>18. CASE TickFails(w)
  <2>1. WorkTyped' /\ LotsShrink
    BY <1>1, <1>18, WorkerBegins DEF TickFails
  <2>2. row' = row \/ \E S \in SUBSET StuckOnes : row' = Taken(S)
    BY <1>18 DEF TickFails
  <2>3. RowsMove /\ row' = [q \in Requests |-> row'[q]]
    BY <1>1, <1>2, <2>2, TakenMoves DEF RowsMove
  <2>4. QED BY <2>1, <2>3
<1>19. QED BY <1>6, <1>7, <1>8, <1>9, <1>10, <1>11, <1>12, <1>13, <1>14, <1>15, <1>16, <1>17, <1>18 DEF Step

-----------------------------------------------------------------------------
(* The invariant *)

\* Regenerations are asked for texts an administrator may write.
RenewingTyped == renewing \subseteq [request : Editable, manual : BOOLEAN]

QueueInv == GInv /\ RenewingTyped

\* The pause, the cap and the shares keep their types.
LEMMA GeminiKeeps ==
  ASSUME GeminiTypeOK, [Next]_vars
  PROVE  GeminiTypeOK'
<1>1. CASE UNCHANGED geminiVars
  BY <1>1 DEF GeminiTypeOK, geminiVars
<1>2. ASSUME NEW length \in 1..RefusalPause, ExtendPause(length), UNCHANGED <<capped, overShare>>
      PROVE  GeminiTypeOK'
  BY <1>2, GeminiAssumption DEF GeminiTypeOK, ExtendPause
<1>3. CASE Pass
  <2>1. pause' = (IF Paused THEN pause - 1 ELSE 0) /\ UNCHANGED <<capped, overShare>>
    BY <1>3 DEF Pass
  <2>2. pause' \in 0..RefusalPause
    BY <2>1, GeminiAssumption DEF Paused, GeminiTypeOK
  <2>3. QED BY <2>1, <2>2 DEF GeminiTypeOK
<1>4. CASE Environment
  BY <1>2, <1>4 DEF Environment, RefusedElsewhere, BudgetMoves, GeminiTypeOK
<1>5. ASSUME NEW w \in Workers, Step(w) \/ TickFails(w) \/ WriteFails(w) \/ Crash(w)
      PROVE  GeminiTypeOK'
  <2>1. CASE Refused(w)
    BY <1>2, <2>1 DEF Refused
  <2>2. CASE ~ Refused(w)
    BY <1>1, <1>5, <2>2 DEF Step, TickFails, WriteFails, Crash, Tick, Scan, Reserve, Budget, Prepare, Ask,
       PutOff, Answered, Fails, Write, Restart
  <2>3. QED BY <2>1, <2>2
<1>6. ASSUME NEW q \in Requests, Schedule(q) \/ Renew(q) \/ RenewRead(q) \/ Edit(q)
      PROVE  GeminiTypeOK'
  BY <1>1, <1>6 DEF Schedule, Renew, RenewRead, Edit
<1>7. ASSUME NEW r \in renewing, RenewWrite(r)
      PROVE  GeminiTypeOK'
  BY <1>1, <1>7 DEF RenewWrite
<1>8. QED BY <1>1, <1>3, <1>4, <1>5, <1>6, <1>7 DEF Next, vars

\* ... and so do the regenerations on their way.
LEMMA RenewingKeeps ==
  ASSUME QueueInv, [Next]_vars
  PROVE  RenewingTyped'
<1>1. CASE UNCHANGED renewing
  BY <1>1 DEF QueueInv, RenewingTyped
<1>2. ASSUME NEW q \in Requests, RenewRead(q)
      PROVE  RenewingTyped'
  <2>1. row[q].manual \in BOOLEAN
    BY DEF QueueInv, GInv, RowsTyped, RowOf
  <2>2. QED BY <1>2, <2>1 DEF RenewRead, QueueInv, RenewingTyped
<1>3. ASSUME NEW r \in renewing, RenewWrite(r)
      PROVE  RenewingTyped'
  BY <1>3 DEF RenewWrite, QueueInv, RenewingTyped
<1>4. ASSUME NEW w \in Workers, Step(w) \/ TickFails(w) \/ WriteFails(w) \/ Crash(w)
      PROVE  RenewingTyped'
  BY <1>1, <1>4 DEF Step, TickFails, WriteFails, Crash, Tick, Scan, Reserve, Budget, Prepare, Ask,
     PutOff, Answered, Fails, Refused, Write, Restart
<1>5. QED BY <1>1, <1>2, <1>3, <1>4 DEF Next, vars, Schedule, Renew, Edit, Pass, Environment

\* Every row is as it was, or is now w's.
Reserved(w) ==
  \A q \in Requests : row'[q] = row[q] \/ row'[q] = [row[q] EXCEPT !.by = w, !.left = Reservation]

\* A step moves the rows as described, or it is a reservation.
LEMMA StepMoves ==
  ASSUME QueueInv, [Next]_vars
  PROVE  /\ row' = [q \in Requests |-> row'[q]]
         /\ \/ RowsMove /\ WorkTyped' /\ LotsShrink
            \/ (\E w \in Workers : Reserved(w)) /\ RowsTyped' /\ WorkTyped' /\ HeldOK' /\ AttemptsRunOut'
<1>1. GInv /\ RowsTyped /\ WorkTyped
  BY DEF QueueInv, GInv
<1>2. CASE row' = row /\ work' = work
  BY <1>1, <1>2, SameMoves, WorkersSame
<1>3. ASSUME NEW q \in Requests, Schedule(q) \/ Renew(q) \/ RenewRead(q) \/ Edit(q)
      PROVE  (RowsMove /\ WorkTyped' /\ LotsShrink) /\ row' = [p \in Requests |-> row'[p]]
  <2>1. CASE Schedule(q) \/ Renew(q)
    BY <1>1, <2>1, AskedMoves
  <2>2. CASE RenewRead(q)
    BY <1>1, <2>2, SameMoves, WorkersSame DEF RenewRead
  <2>3. CASE Edit(q)
    BY <1>1, <2>3, EditMoves
  <2>4. QED BY <1>3, <2>1, <2>2, <2>3
<1>4. ASSUME NEW r \in renewing, RenewWrite(r)
      PROVE  (RowsMove /\ WorkTyped' /\ LotsShrink) /\ row' = [p \in Requests |-> row'[p]]
  <2> DEFINE q == r.request
  <2>1. q \in Requests
    BY GenerationAssumption DEF QueueInv, RenewingTyped
  <2>2. \E s \in renewing : s.request = q /\ RenewWrite(s)
    BY <1>4
  <2> HIDE DEF q
  <2>3. QED BY <1>1, <2>1, <2>2, AskedMoves
<1>5. ASSUME NEW w \in Workers, Step(w) \/ TickFails(w) \/ WriteFails(w) \/ Crash(w), ~ Reserve(w)
      PROVE  (RowsMove /\ WorkTyped' /\ LotsShrink) /\ row' = [p \in Requests |-> row'[p]]
  BY <1>1, <1>5, WorkerMoves
<1>6. ASSUME NEW w \in Workers, Reserve(w)
      PROVE  /\ Reserved(w) /\ RowsTyped' /\ WorkTyped' /\ HeldOK' /\ AttemptsRunOut'
             /\ row' = [p \in Requests |-> row'[p]]
  BY <1>1, <1>6, ReserveKeeps DEF Reserved
<1>7. CASE Pass
  <2>1. RowsMove /\ row' = [q \in Requests |-> row'[q]]
    BY <1>7 DEF RowsMove, Pass
  <2>2. QED BY <1>1, <1>7, <2>1, PassKeepsWork
<1>8. CASE Environment
  BY <1>2, <1>8 DEF Environment
<1>9. CASE UNCHANGED vars
  BY <1>2, <1>9 DEF vars
<1>10. QED BY <1>3, <1>4, <1>5, <1>6, <1>7, <1>8, <1>9 DEF Next

\* Nothing is asked for yet, and the workers hold nothing.
LEMMA InitQueueInv ==
  Init => QueueInv
<1> SUFFICES ASSUME Init PROVE QueueInv
  OBVIOUS
<1>1. GeminiTypeOK
  <2>1. pause \in 0..RefusalPause
    BY GeminiAssumption DEF Init, NothingYet, GeminiInit
  <2>2. capped \in BOOLEAN /\ overShare \subseteq Caves
    BY DEF Init, NothingYet, GeminiInit
  <2>3. QED BY <2>1, <2>2 DEF GeminiTypeOK
<1>2. \A q \in Requests : /\ row[q] \in RowOf(NoTime) /\ row[q].status = "absent" /\ row[q].due = NoTime
  BY GenerationAssumption DEF Init, NothingYet, RowOf, Statuses
<1>3. RowsTyped /\ AttemptsRunOut
  BY <1>2 DEF Init, NothingYet, RowsTyped, AttemptsRunOut
<1>4. "idle" \in Phases
  BY DEF Phases
<1>5. At("idle") \in Worker /\ DOMAIN At("idle").lot = {} /\ DOMAIN At("idle").verdict = {}
  BY <1>4, AtTyped
<1>6. WorkTyped /\ HeldOK
  BY <1>5 DEF Init, NothingYet, WorkTyped, HeldOK, Held, HoldsNothing
<1>7. RenewingTyped
  BY DEF Init, NothingYet, RenewingTyped
<1>8. QED BY <1>1, <1>3, <1>6, <1>7 DEF QueueInv, GInv

\* A step keeps the invariant.
LEMMA NextQueueInv ==
  QueueInv /\ [Next]_vars => QueueInv'
<1> SUFFICES ASSUME QueueInv, [Next]_vars PROVE QueueInv'
  OBVIOUS
<1>1. GeminiTypeOK' /\ RenewingTyped'
  BY GeminiKeeps, RenewingKeeps DEF QueueInv, GInv
<1>2. RowsTyped' /\ WorkTyped' /\ HeldOK' /\ AttemptsRunOut'
  BY StepMoves, RowsMoveKeep DEF QueueInv
<1>3. QED BY <1>1, <1>2 DEF QueueInv, GInv

\* The rows and what the workers hold of them keep their types, and whoever still has
\* its reservation holds the request as it stands: asked for as often as it read, not
\* edited since, and at least as old.
THEOREM QueueInvariance == Spec => []QueueInv
  BY InitQueueInv, NextQueueInv, PTL DEF Spec

\* No request waits on after MaxAttempts reclaimed reservations and invalid answers.
THEOREM AttemptsAlwaysRunOut == Spec => []AttemptsRunOut
<1>1. QueueInv => AttemptsRunOut
  BY DEF QueueInv, GInv
<1>2. QED BY <1>1, QueueInvariance, PTL

-----------------------------------------------------------------------------
(* Why a request is given up *)

\* A step that fails a request found it out of attempts, or a week old.
LEMMA StepGivesUpForAReason ==
  ASSUME QueueInv, [Next]_vars, NEW q \in Requests, row[q].status = "PENDING", row'[q].status = "FAILED"
  PROVE  row'[q].attempts >= MaxAttempts \/ row[q].age >= GiveUpAge
<1>1. GInv /\ RowsTyped /\ AttemptsRunOut /\ WorkTyped /\ row[q] \in RowOf(row[q].due)
  BY DEF QueueInv, GInv, RowsTyped
<1>2. CASE \E w \in Workers : Reserved(w)
  BY <1>1, <1>2 DEF Reserved, RowOf
<1>3. ASSUME NEW p \in Requests, Asked(p) \/ Edited(p)
      PROVE  FALSE
  <2>1. row'[p].status # "FAILED" /\ row' = [row EXCEPT ![p] = row'[p]]
    BY <1>3 DEF Asked, Edited
  <2>2. QED BY <1>1, <2>1 DEF RowsTyped
<1>4. CASE TakenBack
  BY <1>1, <1>4, ReclaimedFacts DEF TakenBack, Queued
<1>5. CASE Verdicted
  <2>1. row' # row
    OBVIOUS
  <2>2. PICK w \in Workers : \E p \in DOMAIN work[w].verdict :
          row[p].by = w /\ row' = [row EXCEPT ![p] = Verdict(w, p)]
    BY <1>5, <2>1 DEF Verdicted
  <2>3. PICK p \in DOMAIN work[w].verdict :
          row[p].by = w /\ row' = [row EXCEPT ![p] = Verdict(w, p)]
    BY <2>2
  <2>4. p = q
    BY <2>3
  <2>5. VerdictOf(row[q], work[w].lot[q], row'[q])
    BY <1>1, <2>3, <2>4, VerdictFacts DEF RowsTyped
  <2>6. row'[q].attempts >= MaxAttempts \/ work[w].lot[q].age >= GiveUpAge
    BY <2>5 DEF VerdictOf
  <2>7. q \in Held(w) /\ work[w].lot[q] \in Holding
    BY <1>1, <2>3, <2>4, HeldTyped DEF WorkTyped
  <2>8. work[w].lot[q].age <= row[q].age
    BY <1>1, <2>3, <2>4, <2>7 DEF GInv, HeldOK, StandingOK
  <2>9. work[w].lot[q].age \in Nat /\ row[q].age \in Nat /\ GiveUpAge \in Nat
    BY <1>1, <2>7, GenerationAssumption DEF Holding, RowOf
  <2>10. QED BY <2>6, <2>8, <2>9
<1>6. CASE Pass
  BY <1>1, <1>6, AgedFacts
<1>7. QED BY <1>2, <1>3, <1>4, <1>5, <1>6, StepMoves DEF RowsMove

\* Neither a pause, nor a budget, nor the failure of a younger request ends a request.
THEOREM RequestsFailForAReason == Spec => GivenUpForAReason
<1>1. QueueInv /\ [Next]_vars =>
        [\A q \in Requests : row[q].status = "PENDING" /\ row'[q].status = "FAILED" =>
           row'[q].attempts >= MaxAttempts \/ row[q].age >= GiveUpAge]_vars
  BY StepGivesUpForAReason
<1>2. QED BY <1>1, QueueInvariance, PTL DEF Spec, GivenUpForAReason

-----------------------------------------------------------------------------
(* The queue keeps its promise *)

\* What the users of the queue see of a request.
Sight(r) == [state |-> State(r), asked |-> r.asked, answered |-> r.answered]

\* Nothing they see changes with the columns the workers keep for themselves.
LEMMA SameSight ==
  ASSUME NEW r, NEW s, s.status = r.status, s.manual = r.manual, s.asked = r.asked, s.answered = r.answered
  PROVE  Sight(s) = Sight(r)
  BY DEF Sight, State

\* A step of one request is that step of its wish.
LEMMA OneWish ==
  ASSUME NEW q \in Requests, RowsTyped, row' = [row EXCEPT ![q] = row'[q]]
  PROVE  wishes' = [wishes EXCEPT ![q] = Sight(row'[q])]
<1>1. \A p \in Requests : row'[p] = IF p = q THEN row'[q] ELSE row[p]
  BY DEF RowsTyped
<1>2. wishes' = [p \in Requests |-> Sight(row'[p])] /\ wishes = [p \in Requests |-> Sight(row[p])]
  BY DEF wishes, Sight
<1>3. QED BY <1>1, <1>2

\* Nobody sees a reservation, nor time.
LEMMA SameWishes ==
  ASSUME \A q \in Requests : /\ row'[q].status = row[q].status /\ row'[q].manual = row[q].manual
                             /\ row'[q].asked = row[q].asked /\ row'[q].answered = row[q].answered
  PROVE  wishes' = wishes
  BY SameSight DEF wishes, Sight

\* Reservations taken back give up the requests that had no attempt left, at once.
LEMMA TakenBackPromised ==
  ASSUME GInv, TakenBack, row' = [q \in Requests |-> row'[q]]
  PROVE  \E some \in SUBSET Requests : Promise!GiveUp(some)
<1> DEFINE some == {q \in Requests : row[q].status = "PENDING" /\ row'[q].status = "FAILED"}
           seen == [q \in Requests |-> Sight(row[q])]
           after == [q \in Requests |-> Sight(row'[q])]
<1>1. wishes = seen /\ wishes' = after
  BY DEF wishes, Sight
<1>2. ASSUME NEW q \in Requests
      PROVE  /\ q \in some => State(row[q]) = "waiting" /\ State(row'[q]) = "failed"
             /\ q \notin some => Sight(row'[q]) = Sight(row[q])
             /\ row'[q].asked = row[q].asked /\ row'[q].answered = row[q].answered
  <2>1. CASE row'[q] = row[q]
    BY <2>1
  <2>2. CASE Queued(q) /\ row'[q] = Reclaimed(row[q])
    <3>1. /\ row'[q].manual = row[q].manual /\ row'[q].asked = row[q].asked /\ row'[q].answered = row[q].answered
          /\ row'[q].status = "PENDING" \/ row'[q].status = "FAILED"
      BY <2>2, ReclaimedFacts DEF GInv, Queued
    <3>2. CASE row'[q].status = "PENDING"
      BY <2>2, <3>1, <3>2, SameSight DEF Queued
    <3>3. CASE row'[q].status = "FAILED"
      BY <2>2, <3>1, <3>3 DEF Queued, State
    <3>4. QED BY <3>1, <3>2, <3>3
  <2>3. QED BY <2>1, <2>2 DEF TakenBack
<1>3. \A q \in some : seen[q].state = "waiting"
  BY <1>2 DEF Sight
<1>4. after = [q \in Requests |-> IF q \in some THEN [seen[q] EXCEPT !.state = "failed"] ELSE seen[q]]
  <2>1. \A q \in some : after[q] = [seen[q] EXCEPT !.state = "failed"]
    BY <1>2 DEF Sight
  <2>2. \A q \in Requests \ some : after[q] = seen[q]
    BY <1>2
  <2> HIDE DEF seen, some
  <2>3. QED BY <2>1, <2>2
<1>5. some \in SUBSET Requests
  OBVIOUS
<1> HIDE DEF seen, after, some
<1>6. Promise!GiveUp(some)
  BY <1>1, <1>3, <1>4 DEF Promise!GiveUp
<1>7. QED BY <1>5, <1>6

\* A verdict written under a standing reservation serves the request, for the last time it
\* was asked, or gives it up, or leaves it waiting.
LEMMA VerdictPromised ==
  ASSUME GInv, Verdicted
  PROVE  wishes' = wishes \/ Promise!Next
<1>1. CASE row' = row
  BY <1>1, SameWishes
<1>2. ASSUME NEW w \in Workers, NEW q \in DOMAIN work[w].verdict, row[q].by = w,
             row' = [row EXCEPT ![q] = Verdict(w, q)]
      PROVE  wishes' = wishes \/ Promise!Next
  <2>1. q \in Held(w) /\ q \in Requests
    BY <1>2, HeldTyped DEF GInv, WorkTyped
  <2>2. row'[q] = Verdict(w, q) /\ row' = [row EXCEPT ![q] = row'[q]]
    BY <1>2, <2>1 DEF GInv, RowsTyped
  <2>3. VerdictOf(row[q], work[w].lot[q], row'[q])
    BY <1>2, <2>2, VerdictFacts
  <2>4. row[q].status = "PENDING" /\ ~ row[q].manual /\ row[q].asked = work[w].lot[q].asked
    BY <1>2, <2>1 DEF GInv, HeldOK, StandingOK
  <2>5. wishes' = [wishes EXCEPT ![q] = Sight(row'[q])]
    BY <2>1, <2>2, OneWish DEF GInv
  <2>6. /\ wishes[q] = Sight(row[q]) /\ wishes[q].state = "waiting"
        /\ wishes[q].asked = row[q].asked
        /\ wishes = [p \in Requests |-> wishes[p]]
    BY <2>1, <2>4 DEF wishes, Sight, State
  <2>7. row'[q].asked = row[q].asked /\ row'[q].manual = row[q].manual
    BY <2>3 DEF VerdictOf
  <2>8. CASE row'[q].status \in {"DONE", "UNKNOWN"} /\ row'[q].answered = row[q].asked
    <3>1. State(row'[q]) = "served"
      BY <2>4, <2>7, <2>8 DEF State
    <3>2. Sight(row'[q]) = [Sight(row[q]) EXCEPT !.state = "served", !.answered = row[q].asked]
      <4> DEFINE r == Sight(row[q])
      <4>1. r = [state |-> State(row[q]), asked |-> row[q].asked, answered |-> row[q].answered]
        BY DEF Sight
      <4> HIDE DEF r
      <4>2. [r EXCEPT !.state = "served", !.answered = row[q].asked]
              = [state |-> "served", asked |-> row[q].asked, answered |-> row[q].asked]
        <5> DEFINE one == [r EXCEPT !.state = "served"]
        <5>1. one = [state |-> "served", asked |-> row[q].asked, answered |-> row[q].answered]
          BY <4>1
        <5> HIDE DEF one
        <5>2. [one EXCEPT !.answered = row[q].asked]
                = [state |-> "served", asked |-> row[q].asked, answered |-> row[q].asked]
          BY <5>1
        <5>3. QED BY <5>2 DEF one
      <4>3. Sight(row'[q]) = [state |-> "served", asked |-> row[q].asked, answered |-> row[q].asked]
        BY <2>7, <2>8, <3>1 DEF Sight
      <4>4. QED BY <4>2, <4>3 DEF r
    <3>3. Promise!Serve(q)
      BY <2>1, <2>5, <2>6, <3>2 DEF Promise!Serve
    <3>4. QED BY <2>1, <3>3 DEF Promise!Next
  <2>9. CASE row'[q].status = "PENDING" /\ row'[q].answered = row[q].answered
    <3>1. Sight(row'[q]) = Sight(row[q])
      BY <2>4, <2>7, <2>9, SameSight
    <3>2. QED BY <2>1, <2>5, <2>6, <3>1
  <2>10. CASE row'[q].status = "FAILED" /\ row'[q].answered = row[q].answered
    <3>1. State(row'[q]) = "failed"
      BY <2>4, <2>7, <2>10 DEF State
    <3>2. Sight(row'[q]) = [Sight(row[q]) EXCEPT !.state = "failed"]
      BY <2>7, <2>10, <3>1 DEF Sight
    <3>3. \A p \in {q} : wishes[p].state = "waiting"
      BY <2>6
    <3>4. wishes' = [p \in Requests |-> IF p \in {q} THEN [wishes[p] EXCEPT !.state = "failed"] ELSE wishes[p]]
      BY <2>1, <2>5, <2>6, <3>2
    <3>5. Promise!GiveUp({q})
      BY <3>3, <3>4 DEF Promise!GiveUp
    <3>6. QED BY <2>1, <3>5 DEF Promise!Next
  <2>11. QED BY <2>3, <2>4, <2>8, <2>9, <2>10 DEF VerdictOf
<1>3. QED BY <1>1, <1>2 DEF Verdicted

\* Every step of the queue is one the promise allows, or none its users see.
LEMMA StepKeepsPromise ==
  ASSUME QueueInv, [Next]_vars
  PROVE  wishes' = wishes \/ Promise!Next
<1>1. GInv /\ RowsTyped /\ AttemptsRunOut
  BY DEF QueueInv, GInv
<1>2. CASE \E w \in Workers : Reserved(w)
  <2>1. ASSUME NEW q \in Requests
        PROVE  /\ row'[q].status = row[q].status /\ row'[q].manual = row[q].manual
               /\ row'[q].asked = row[q].asked /\ row'[q].answered = row[q].answered
    <3>1. row[q] \in RowOf(row[q].due)
      BY <1>1 DEF RowsTyped
    <3>2. QED BY <1>2, <3>1 DEF Reserved, RowOf
  <2>2. QED BY <2>1, SameWishes
<1>3. ASSUME NEW q \in Requests, Asked(q)
      PROVE  Promise!Next
  <2>1. wishes' = [wishes EXCEPT ![q] = Sight(row'[q])] /\ wishes[q] = Sight(row[q])
        /\ wishes = [p \in Requests |-> wishes[p]]
    BY <1>1, <1>3, OneWish DEF Asked, wishes, Sight
  <2>2. State(row'[q]) = "waiting"
    BY <1>3 DEF Asked, State
  <2>3. Sight(row'[q]) = [Sight(row[q]) EXCEPT !.state = "waiting", !.asked = row[q].asked + 1]
    <3> DEFINE r == Sight(row[q])
               more == row[q].asked + 1
    <3>1. r = [state |-> State(row[q]), asked |-> row[q].asked, answered |-> row[q].answered]
      BY DEF Sight
    <3>2. Sight(row'[q]) = [state |-> "waiting", asked |-> more, answered |-> row[q].answered]
      BY <1>3, <2>2 DEF Asked, Sight
    <3> HIDE DEF r, more
    <3>3. [r EXCEPT !.state = "waiting", !.asked = more]
            = [state |-> "waiting", asked |-> more, answered |-> row[q].answered]
      <4> DEFINE one == [r EXCEPT !.state = "waiting"]
      <4>1. one = [state |-> "waiting", asked |-> row[q].asked, answered |-> row[q].answered]
        BY <3>1
      <4> HIDE DEF one
      <4>2. [one EXCEPT !.asked = more] = [state |-> "waiting", asked |-> more, answered |-> row[q].answered]
        BY <4>1
      <4>3. QED BY <4>2 DEF one
    <3>4. QED BY <3>2, <3>3 DEF r, more
  <2>4. Sight(row[q]).asked = row[q].asked
    BY DEF Sight
  <2>5. wishes' = [wishes EXCEPT ![q] = [wishes[q] EXCEPT !.state = "waiting", !.asked = wishes[q].asked + 1]]
    BY <2>1, <2>3, <2>4
  <2>6. Promise!Ask(q)
    BY <2>1, <2>5 DEF Promise!Ask
  <2>7. QED BY <2>6 DEF Promise!Next
<1>4. ASSUME NEW q \in Requests, Edited(q)
      PROVE  Promise!Next
  <2>1. wishes' = [wishes EXCEPT ![q] = Sight(row'[q])] /\ wishes[q] = Sight(row[q])
        /\ wishes = [p \in Requests |-> wishes[p]]
    BY <1>1, <1>4, OneWish DEF Edited, wishes, Sight
  <2>2. State(row'[q]) = "written"
    BY <1>4 DEF Edited, State
  <2>3. Sight(row'[q]) = [Sight(row[q]) EXCEPT !.state = "written"]
    BY <1>4, <2>2 DEF Edited, Sight
  <2>4. Promise!Edit(q)
    BY <2>1, <2>3 DEF Promise!Edit
  <2>5. QED BY <2>4 DEF Promise!Next
<1>5. CASE TakenBack
  BY <1>1, <1>5, StepMoves, TakenBackPromised DEF Promise!Next
<1>6. CASE Verdicted
  BY <1>1, <1>6, VerdictPromised
<1>7. CASE Pass
  BY <1>1, <1>7, AgedFacts, SameWishes
<1>8. QED BY <1>2, <1>3, <1>4, <1>5, <1>6, <1>7, StepMoves DEF RowsMove

\* Whoever asked for a text waits until it is served by what was generated since or given
\* up, each once, and a text written by hand stays until somebody asks again: two workers,
\* reservations that expire under a late write, and crashes included.
THEOREM PromiseKept == Spec => KeepsItsPromise
<1>1. Init => Promise!Init
  BY DEF Init, NothingYet, Promise!Init, wishes, State
<1>2. QueueInv /\ [Next]_vars => [Promise!Next]_wishes
  BY StepKeepsPromise
<1>3. QED BY <1>1, <1>2, QueueInvariance, PTL DEF Spec, KeepsItsPromise, Promise!Spec
=============================================================================
