-------------------------- MODULE EntryQueueProofs --------------------------
(***************************************************************************)
(* The reading of entry photos: for every number of photos and workers and *)
(* every size of lots, no photo is in two hands, attempts run out and      *)
(* verdicts stand, as long as no worker holds a lot longer than it is      *)
(* reserved; and, however that is, no more cents are counted than were     *)
(* billed.                                                                 *)
(***************************************************************************)
EXTENDS EntryQueue, Sums, WellFoundedInduction

-----------------------------------------------------------------------------
(* What the theorems suppose *)

\* No worker has held a photo for as long as it is reserved.  It is not so for the
\* numbers of the code: five minutes, and a lot read photo by photo takes up to eighteen.
InTime == \A w \in Workers : Held(w) # {} => work[w].elapsed < Reservation

\* The worker there is in docker-compose.yml.
OneReader == \A v, w \in Workers : v = w

\* What it would take: a call for the whole lot and one for each of its photos.
ReservationLasts == Reservation > (BatchSize + 1) * CallTimeout

-----------------------------------------------------------------------------
(* The inductive invariant *)

\* A row, but for the length of its delay: powers are out of the provers' reach.
RowOf(due) == [status : Statuses, dismissed : BOOLEAN, age : 0..MaxWait, attempts : 0..MaxAttempts,
               due : {due}, cost : Nat]

RowsTyped ==
  /\ photo = [p \in Photos |-> photo[p]]
  /\ \A p \in Photos : photo[p] \in RowOf(photo[p].due) /\ (photo[p].status = "absent" => photo[p].attempts = 0)

\* Functions on some of the photos: what a worker holds in memory.
Partial(T) == UNION {[S -> T] : S \in SUBSET Photos}

Holding == [attempts : 0..(MaxAttempts - 1), cost : Nat]

Worker == [phase : Phases, skips : SUBSET Caves, lot : Partial(Holding), verdict : Partial(Verdicts),
           mixed : BOOLEAN, rescued : BOOLEAN, next : {"rest", "scan", "ask"}, until : 0..RefusalPause,
           elapsed : Nat, calling : Nat]

\* A worker holds photos from their reservation to the last verdict; the verdicts that
\* end its tick, or go on to another cellar, are for the whole lot.
LotOK(k) ==
  /\ k.phase \in {"off", "down", "idle", "rest", "scan", "reserve"} <=> DOMAIN k.lot = {}
  /\ k.phase # "write" => DOMAIN k.verdict = {}
  /\ k.phase = "write" => DOMAIN k.verdict # {}
  /\ DOMAIN k.verdict \subseteq DOMAIN k.lot
  /\ k.phase = "write" /\ k.next # "ask" => DOMAIN k.verdict = DOMAIN k.lot

\* The calls made for the photos of a lot that are read, when all are answered late.
Calls(k) == (IF k.mixed THEN 1 ELSE 0) + (BatchSize - Cardinality(DOMAIN k.lot)) + Cardinality(DOMAIN k.verdict)

\* Time passes only in calls, and each ends in time.
TimeOK(k) ==
  /\ Cardinality(DOMAIN k.lot) <= BatchSize
  /\ k.phase \in {"scan", "reserve", "budget", "files"} => k.elapsed = 0
  /\ k.phase = "write" /\ k.next = "scan" => k.elapsed = 0
  /\ k.calling <= CallTimeout
  /\ k.phase \in {"ask", "called", "write"} =>
       k.elapsed <= CallTimeout * Calls(k) + (IF k.phase = "called" THEN k.calling ELSE 0)

\* Every worker is one of these, at every moment.
WorkTyped ==
  /\ work \in [Workers -> Worker]
  /\ \A w \in Workers : LotOK(work[w]) /\ TimeOK(work[w])

\* A photo in a worker's hands is the one it reserved, and both clocks agree on what is left.
HeldOK ==
  \A w \in Workers : \A p \in Held(w) :
    /\ photo[p].status = "PROCESSING"
    /\ photo[p].attempts = work[w].lot[p].attempts
    /\ photo[p].due = Left(Reservation, work[w].elapsed)

Core == RowsTyped /\ WorkTyped /\ AttemptsRunOut /\ HeldOK /\ NoSecondReading

ReadInv == GeminiTypeOK /\ Core

-----------------------------------------------------------------------------
(* Numbers, and what a worker holds *)

\* Calls cost time in proportion.
LEMMA CallTimes ==
  /\ \A a \in Nat : CallTimeout * a \in Nat /\ CallTimeout * (a + 1) = CallTimeout * a + CallTimeout
  /\ \A a, b \in Nat : a <= b => CallTimeout * a <= CallTimeout * b
<1>1. CallTimeout \in Nat
  BY EntryQueueAssumption
<1>2. \A a \in Nat : CallTimeout * a \in Nat /\ CallTimeout * (a + 1) = CallTimeout * a + CallTimeout
  BY <1>1
<1>3. ASSUME NEW a \in Nat, NEW b \in Nat, a <= b PROVE CallTimeout * a <= CallTimeout * b
  BY <1>1, <1>3
<1> QED
  BY <1>2, <1>3

\* Sets of photos are finite and have a first.
LEMMA PhotoSets ==
  ASSUME NEW S \in SUBSET Photos
  PROVE  /\ IsFiniteSet(S) /\ Cardinality(S) \in Nat
         /\ S # {} => Min(S) \in S /\ Cardinality(S) # 0
         /\ S # {} => \A p \in S : Min(S) <= p
<1>1. IsFiniteSet(S) /\ Cardinality(S) \in Nat /\ (Cardinality(S) = 0 <=> S = {})
  BY EntryQueueAssumption, FS_Subset, FS_CardinalityType, FS_EmptySet
<1>2. ASSUME S # {} PROVE Min(S) \in S /\ \A p \in S : Min(S) <= p
  <2>1. S \subseteq Nat
    BY EntryQueueAssumption
  <2>2. PICK x \in S : \A y \in S : ~ (<<y, x>> \in OpToRel(<, Nat))
    BY <1>2, <2>1, WFMin, NatLessThanWellFounded
  <2>3. \A y \in S : ~ (y < x) /\ x \in Nat /\ y \in Nat
    BY <2>1, <2>2 DEF OpToRel
  <2>4. \A y \in S : x <= y
    BY <2>3
  <2> QED
    BY <2>4 DEF Min
<1> QED
  BY <1>1, <1>2

\* The oldest photos of some are as many as asked for at most, and one when there are any.
LEMMA OldestAreFew ==
  ASSUME NEW S \in SUBSET Photos, NEW n \in Nat \ {0}
  PROVE  /\ Oldest(S, n) \subseteq S /\ Cardinality(Oldest(S, n)) <= n
         /\ S # {} => Oldest(S, n) # {}
<1> DEFINE before(p) == {q \in S : q < p}
           old == Oldest(S, n)
           rank == [p \in old |-> Cardinality(before(p))]
<1>1. old = {p \in S : Cardinality(before(p)) < n}
  BY DEF Oldest
<1>2. \A p \in S : before(p) \in SUBSET Photos /\ IsFiniteSet(before(p)) /\ Cardinality(before(p)) \in Nat
  BY PhotoSets
<1>3. \A p \in S : p \in Nat
  BY EntryQueueAssumption
<1>4. ASSUME NEW p \in S, NEW q \in S, p < q PROVE Cardinality(before(p)) < Cardinality(before(q))
  <2> DEFINE more == before(p) \union {p}
  <2>1. Cardinality(more) = Cardinality(before(p)) + 1
    <3>1. p \notin before(p)
      BY <1>3
    <3> HIDE DEF before
    <3> QED
      BY <3>1, <1>2, FS_AddElement
  <2>2. more \in SUBSET before(q)
    BY <1>3, <1>4
  <2>3. Cardinality(more) <= Cardinality(before(q))
    <3> HIDE DEF before, more
    <3> QED
      BY <2>2, <1>2, FS_Subset
  <2> HIDE DEF before, more
  <2> QED
    BY <2>1, <2>3, <1>2
<1>5. rank \in Injection(old, 0..(n - 1))
  <2>1. rank \in [old -> 0..(n - 1)]
    <3> HIDE DEF before
    <3> QED
      BY <1>1, <1>2
  <2>2. ASSUME NEW p \in old, NEW q \in old, rank[p] = rank[q] PROVE p = q
    <3>1. p \in S /\ q \in S /\ Cardinality(before(p)) = Cardinality(before(q))
      BY <2>2, <1>1
    <3>2. p \in Nat /\ q \in Nat
      BY <3>1, <1>3
    <3>3. Cardinality(before(p)) \in Nat
      BY <3>1, <1>2
    <3> HIDE DEF before
    <3> QED
      BY <3>1, <3>2, <3>3, <1>4
  <2> HIDE DEF rank, old
  <2>3. DOMAIN rank = old
    BY <2>1
  <2> QED
    BY <2>1, <2>2, <2>3 DEF Injection, IsInjective
<1>6. IsFiniteSet(0..(n - 1)) /\ Cardinality(0..(n - 1)) = n
  BY FS_Interval
<1>7. Cardinality(old) <= n
  <2> HIDE DEF rank, old
  <2> QED
    BY <1>5, <1>6, FS_Injection
<1>8. ASSUME S # {} PROVE old # {}
  <2>1. Min(S) \in S /\ \A p \in S : Min(S) <= p
    BY <1>8, PhotoSets
  <2>2. before(Min(S)) = {}
    BY <2>1, <1>3
  <2>3. Cardinality(before(Min(S))) = 0
    BY <2>2, FS_EmptySet
  <2> QED
    BY <1>1, <2>1, <2>3
<1> QED
  BY <1>1, <1>7, <1>8

\* Partial functions have typed values on some of the photos.
LEMMA PartialFacts ==
  ASSUME NEW T
  PROVE  /\ \A f \in Partial(T) : DOMAIN f \subseteq Photos /\ \A q \in DOMAIN f : f[q] \in T
         /\ \A S \in SUBSET Photos : \A f \in [S -> T] : f \in Partial(T)
  BY DEF Partial

\* What is left of one without a photo is one.
LEMMA WithoutFacts ==
  ASSUME NEW T, NEW f \in Partial(T), NEW q
  PROVE  /\ Without(f, q) \in Partial(T) /\ DOMAIN Without(f, q) = DOMAIN f \ {q}
         /\ \A p \in DOMAIN f \ {q} : Without(f, q)[p] = f[p]
<1>1. PICK S \in SUBSET Photos : f \in [S -> T]
  BY DEF Partial
<1>2. Without(f, q) \in [S \ {q} -> T]
  BY <1>1 DEF Without
<1> QED
  BY <1>1, <1>2, PartialFacts DEF Without

\* A worker that begins again holds nothing.
LEMMA AtFacts ==
  ASSUME NEW phase \in Phases
  PROVE  /\ At(phase) \in Worker /\ At(phase).phase = phase /\ At(phase).elapsed = 0 /\ At(phase).calling = 0
         /\ DOMAIN At(phase).lot = {} /\ DOMAIN At(phase).verdict = {} /\ At(phase).next = "rest"
<1>1. NoPhotos \in [{} -> Holding] /\ NoPhotos \in [{} -> Verdicts] /\ DOMAIN NoPhotos = {}
  BY DEF NoPhotos
<1>2. NoPhotos \in Partial(Holding) /\ NoPhotos \in Partial(Verdicts)
  BY <1>1, PartialFacts
<1>3. 0 \in 0..RefusalPause
  BY GeminiAssumption
<1> QED
  BY <1>1, <1>2, <1>3 DEF At, Worker

-----------------------------------------------------------------------------
(* Rows and hands after a step *)

\* Nobody takes a photo in hand, and what is in hand stays as it was reserved.
HandsShrink ==
  \A v \in Workers : \A p \in DOMAIN work'[v].lot :
    /\ p \in Held(v) /\ p \in Photos /\ work'[v].lot[p].attempts = work[v].lot[p].attempts
    /\ photo'[p].status = photo[p].status /\ photo'[p].attempts = photo[p].attempts
    /\ \/ photo'[p].due = photo[p].due /\ work'[v].elapsed = work[v].elapsed
       \/ photo'[p].due = Left(Reservation, work'[v].elapsed)

\* Then no hand meets another.
LEMMA HandsKeep ==
  ASSUME HeldOK, NoSecondReading, HandsShrink
  PROVE  HeldOK' /\ NoSecondReading'
<1>1. ASSUME NEW v \in Workers, NEW p \in DOMAIN work'[v].lot
      PROVE  /\ photo'[p].status = "PROCESSING"
             /\ photo'[p].attempts = work'[v].lot[p].attempts
             /\ photo'[p].due = Left(Reservation, work'[v].elapsed)
  BY DEF HandsShrink, HeldOK, Held
<1>2. HeldOK'
  BY <1>1 DEF HeldOK, Held
<1>3. ASSUME NEW v \in Workers, NEW w \in Workers, v # w
      PROVE  DOMAIN work'[v].lot \intersect DOMAIN work'[w].lot = {}
  <2>1. DOMAIN work'[v].lot \subseteq Held(v) /\ DOMAIN work'[w].lot \subseteq Held(w)
    BY DEF HandsShrink
  <2> QED
    BY <2>1, <1>3 DEF NoSecondReading
<1>4. NoSecondReading'
  BY <1>3 DEF NoSecondReading, Held
<1> QED
  BY <1>2, <1>4

\* A worker's hands are photos, with the attempts and the cost they came with.
LEMMA HandsTyped ==
  ASSUME WorkTyped, NEW w \in Workers
  PROVE  /\ work[w] \in Worker /\ LotOK(work[w]) /\ TimeOK(work[w])
         /\ Held(w) \in SUBSET Photos /\ \A p \in Held(w) : work[w].lot[p] \in Holding
         /\ DOMAIN work[w].verdict \subseteq Held(w)
         /\ \A p \in DOMAIN work[w].verdict : work[w].verdict[p] \in Verdicts
<1> DEFINE f == work[w].lot
           g == work[w].verdict
<1>1. work[w] \in Worker /\ LotOK(work[w]) /\ TimeOK(work[w])
  BY DEF WorkTyped
<1> HIDE DEF f, g
<1>2. f \in Partial(Holding) /\ g \in Partial(Verdicts)
  BY <1>1 DEF Worker, f, g
<1>3. /\ DOMAIN f \subseteq Photos /\ \A p \in DOMAIN f : f[p] \in Holding
      /\ \A p \in DOMAIN g : g[p] \in Verdicts
  BY <1>2, PartialFacts
<1>4. DOMAIN g \subseteq DOMAIN f
  BY <1>1 DEF LotOK, f, g
<1> QED
  BY <1>1, <1>3, <1>4 DEF Held, f, g

\* A step of one worker on its own memory.
LEMMA OneWorker ==
  ASSUME Core, NEW w \in Workers, NEW k \in Worker, work' = [work EXCEPT ![w] = k], photo' = photo,
         LotOK(k), TimeOK(k), DOMAIN k.lot \subseteq Held(w),
         \A p \in DOMAIN k.lot : k.lot[p].attempts = work[w].lot[p].attempts,
         DOMAIN k.lot # {} => k.elapsed = work[w].elapsed
  PROVE  Core'
<1>1. work'[w] = k /\ \A v \in Workers \ {w} : work'[v] = work[v]
  BY DEF Core, WorkTyped
<1>2. WorkTyped'
  <2>1. work' \in [Workers -> Worker]
    BY DEF Core, WorkTyped
  <2>2. \A v \in Workers : LotOK(work'[v]) /\ TimeOK(work'[v])
    BY <1>1 DEF Core, WorkTyped
  <2> QED
    BY <2>1, <2>2 DEF WorkTyped
<1>3. RowsTyped' /\ AttemptsRunOut'
  BY DEF Core, RowsTyped, AttemptsRunOut
<1>4. HandsShrink
  <2>1. \A v \in Workers : Held(v) \in SUBSET Photos
    BY HandsTyped DEF Core
  <2> SUFFICES ASSUME NEW v \in Workers, NEW p \in DOMAIN work'[v].lot
               PROVE  /\ p \in Held(v) /\ p \in Photos /\ work'[v].lot[p].attempts = work[v].lot[p].attempts
                      /\ work'[v].elapsed = work[v].elapsed
    BY DEF HandsShrink
  <2>2. CASE v = w
    BY <1>1, <2>1, <2>2
  <2>3. CASE v # w
    BY <1>1, <2>1, <2>3 DEF Held
  <2> QED
    BY <2>2, <2>3
<1>5. HeldOK' /\ NoSecondReading'
  BY <1>4, HandsKeep DEF Core
<1> QED
  BY <1>2, <1>3, <1>5 DEF Core

\* A worker that ends its tick, falls, or comes back.
LEMMA Begins ==
  ASSUME Core, NEW w \in Workers, NEW phase \in {"down", "idle", "rest", "scan", "reserve"},
         work' = [work EXCEPT ![w] = At(phase)], photo' = photo
  PROVE  Core'
<1> DEFINE k == At(phase)
<1>1. phase \in Phases
  BY DEF Phases
<1>2. /\ k \in Worker /\ k.phase = phase /\ k.elapsed = 0 /\ k.calling = 0
      /\ DOMAIN k.lot = {} /\ DOMAIN k.verdict = {} /\ k.next = "rest"
  BY <1>1, AtFacts
<1> HIDE DEF k
<1>3. LotOK(k)
  BY <1>2 DEF LotOK
<1>4. TimeOK(k)
  BY <1>2, FS_EmptySet, EntryQueueAssumption DEF TimeOK
<1>5. work' = [work EXCEPT ![w] = k]
  BY DEF k
<1> QED
  BY <1>2, <1>3, <1>4, <1>5, OneWorker

-----------------------------------------------------------------------------
(* Each step of a worker on its memory *)

\* The time of a lot's calls is enough for what has gone by.
LEMMA TimeGoesOn ==
  ASSUME NEW c \in Worker, NEW k \in Worker, LotOK(c), TimeOK(c), k.elapsed = c.elapsed,
         \/ /\ c.phase \in {"budget", "files", "ask", "called", "write"} /\ k.mixed = c.mixed
            /\ DOMAIN c.verdict \subseteq DOMAIN k.verdict
            /\ k.phase = "write" /\ DOMAIN k.verdict # {}
         \/ /\ c.phase = "called" /\ ~ c.mixed /\ k.mixed /\ k.phase = "ask" /\ DOMAIN k.verdict = {},
         DOMAIN k.lot = DOMAIN c.lot, DOMAIN k.verdict \subseteq DOMAIN k.lot
  PROVE  k.elapsed <= CallTimeout * Calls(k)
<1> DEFINE n == Cardinality(DOMAIN c.lot)
           m == Cardinality(DOMAIN c.verdict)
           l == Cardinality(DOMAIN k.verdict)
           a == (IF c.mixed THEN 1 ELSE 0) + (BatchSize - n) + m
           b == (IF k.mixed THEN 1 ELSE 0) + (BatchSize - n) + l
<1>1. DOMAIN c.lot \in SUBSET Photos /\ DOMAIN c.verdict \in SUBSET DOMAIN c.lot
  <2>1. c.lot \in Partial(Holding)
    BY DEF Worker
  <2> QED
    BY <2>1, PartialFacts DEF LotOK
<1>2. n \in Nat /\ m \in Nat /\ l \in Nat /\ (DOMAIN k.verdict # {} => l >= 1) /\ (DOMAIN k.verdict = {} => l = 0)
      /\ (DOMAIN c.verdict = {} => m = 0)
  <2>1. DOMAIN k.verdict \in SUBSET Photos /\ DOMAIN c.verdict \in SUBSET Photos
    BY <1>1
  <2>2. n \in Nat /\ m \in Nat /\ l \in Nat /\ (DOMAIN k.verdict # {} => l # 0)
    BY <1>1, <2>1, PhotoSets
  <2> QED
    BY <2>2, FS_EmptySet
<1>3. n <= BatchSize /\ BatchSize \in Nat /\ Calls(c) = a /\ Calls(k) = b
  BY EntryQueueAssumption DEF TimeOK, Calls
<1>4. c.elapsed \in Nat /\ c.calling \in Nat /\ CallTimeout \in Nat
  BY EntryQueueAssumption DEF Worker
<1>5. m <= l \/ DOMAIN c.verdict = {}
  <2>1. CASE DOMAIN c.verdict \subseteq DOMAIN k.verdict
    <3>1. IsFiniteSet(DOMAIN k.verdict) /\ DOMAIN c.verdict \in SUBSET DOMAIN k.verdict
      BY <2>1, <1>1, PhotoSets
    <3> QED
      BY <3>1, FS_Subset
  <2>2. CASE c.phase = "called"
    BY <2>2 DEF LotOK
  <2> QED
    BY <2>1, <2>2
<1>6. a \in Nat /\ b \in Nat
  BY <1>2, <1>3
<1>7. CASE c.phase \in {"budget", "files"}
  <2>1. c.elapsed = 0
    BY <1>7 DEF TimeOK
  <2>2. CallTimeout * b \in Nat
    BY <1>6, CallTimes
  <2> QED
    BY <2>1, <2>2, <1>3
<1>8. CASE c.phase \in {"ask", "write"}
  <2>1. c.elapsed <= CallTimeout * a
    <3>1. c.elapsed <= CallTimeout * a + 0
      BY <1>8, <1>3 DEF TimeOK
    <3>2. CallTimeout * a \in Nat
      BY <1>6, CallTimes
    <3> QED
      BY <3>1, <3>2, <1>4
  <2>2. a <= b
    BY <1>8, <1>2, <1>3, <1>5
  <2>3. CallTimeout * a <= CallTimeout * b /\ CallTimeout * a \in Nat /\ CallTimeout * b \in Nat
    BY <2>2, <1>6, CallTimes
  <2> QED
    BY <2>1, <2>3, <1>3, <1>4
<1>9. CASE c.phase = "called"
  <2>1. c.elapsed <= CallTimeout * a + c.calling /\ c.calling <= CallTimeout
    BY <1>9, <1>3 DEF TimeOK
  <2>2. DOMAIN c.verdict = {}
    BY <1>9 DEF LotOK
  <2>3. a + 1 <= b
    BY <1>9, <2>2, <1>2, <1>3
  <2>4. /\ CallTimeout * (a + 1) <= CallTimeout * b /\ CallTimeout * (a + 1) = CallTimeout * a + CallTimeout
        /\ CallTimeout * a \in Nat /\ CallTimeout * b \in Nat
    BY <2>3, <1>6, CallTimes
  <2> QED
    BY <2>1, <2>4, <1>3, <1>4
<1> QED
  BY <1>7, <1>8, <1>9

\* A worker reaches verdicts: for its whole lot when its tick ends or goes on elsewhere.
LEMMA Decides ==
  ASSUME Core, NEW w \in Workers, NEW k \in Worker,
         work' = [work EXCEPT ![w] = k], photo' = photo,
         work[w].phase \in {"budget", "files", "ask", "called", "write"}, k.phase = "write",
         DOMAIN k.lot = Held(w), \A p \in Held(w) : k.lot[p].attempts = work[w].lot[p].attempts,
         DOMAIN k.verdict # {}, DOMAIN k.verdict \subseteq Held(w), DOMAIN work[w].verdict \subseteq DOMAIN k.verdict,
         k.next # "ask" => DOMAIN k.verdict = Held(w),
         k.next = "scan" => work[w].phase = "budget",
         k.mixed = work[w].mixed, k.elapsed = work[w].elapsed, k.calling = work[w].calling
  PROVE  Core'
<1> DEFINE c == work[w]
<1>1. c \in Worker /\ LotOK(c) /\ TimeOK(c) /\ DOMAIN c.lot = Held(w)
  BY HandsTyped DEF Core, Held
<1> HIDE DEF c
<1>2. /\ c.phase \in {"budget", "files", "ask", "called", "write"} /\ DOMAIN k.lot = DOMAIN c.lot
      /\ DOMAIN c.verdict \subseteq DOMAIN k.verdict /\ k.mixed = c.mixed /\ k.elapsed = c.elapsed
      /\ k.calling = c.calling /\ DOMAIN k.verdict \subseteq DOMAIN k.lot
      /\ (k.next = "scan" => c.phase = "budget")
  BY <1>1 DEF c
<1>3. LotOK(k)
  BY <1>1, <1>2 DEF LotOK
<1>4. k.elapsed <= CallTimeout * Calls(k)
  BY <1>1, <1>2, TimeGoesOn
<1>5. TimeOK(k)
  <2>1. k.elapsed \in Nat
    BY DEF Worker
  <2>2. k.elapsed <= CallTimeout * Calls(k) + 0
    <3> DEFINE x == CallTimeout * Calls(k)
    <3>1. x \in Int
      <4>1. Cardinality(DOMAIN k.lot) \in Nat /\ Cardinality(DOMAIN k.verdict) \in Nat
        <5>1. DOMAIN k.lot \in SUBSET Photos
          BY HandsTyped DEF Core
        <5>2. DOMAIN k.verdict \in SUBSET Photos
          BY <5>1
        <5> QED
          BY <5>1, <5>2, PhotoSets
      <4>2. Calls(k) \in Int /\ CallTimeout \in Nat
        BY <4>1, EntryQueueAssumption DEF Calls
      <4> QED
        BY <4>2
    <3>2. k.elapsed <= x
      BY <1>4
    <3> HIDE DEF x
    <3>3. k.elapsed <= x + 0
      BY <2>1, <3>1, <3>2
    <3> QED
      BY <3>3 DEF x
  <2> QED
    BY <1>1, <1>2, <2>2 DEF TimeOK
<1> QED
  BY <1>3, <1>5, OneWorker

\* A worker that goes from one phase to the next with its lot.
LEMMA GoesOn ==
  ASSUME Core, NEW w \in Workers, NEW k \in Worker,
         work' = [work EXCEPT ![w] = k], photo' = photo,
         \/ work[w].phase = "scan" /\ k.phase \in {"reserve", "rest"}
         \/ work[w].phase = "budget" /\ k.phase = "files"
         \/ work[w].phase = "files" /\ k.phase = "ask"
         \/ work[w].phase = "ask" /\ k.phase = "called",
         k.lot = work[w].lot, k.verdict = work[w].verdict, k.mixed = work[w].mixed, k.elapsed = work[w].elapsed,
         k.calling = work[w].calling \/ k.calling = 0
  PROVE  Core'
<1> DEFINE c == work[w]
<1>1. c \in Worker /\ LotOK(c) /\ TimeOK(c) /\ DOMAIN c.lot = Held(w) /\ DOMAIN c.lot \in SUBSET Photos
  BY HandsTyped DEF Core, Held
<1> HIDE DEF c
<1>2. /\ \/ c.phase = "scan" /\ k.phase \in {"reserve", "rest"}
         \/ c.phase = "budget" /\ k.phase = "files"
         \/ c.phase = "files" /\ k.phase = "ask"
         \/ c.phase = "ask" /\ k.phase = "called"
      /\ k.lot = c.lot /\ k.verdict = c.verdict /\ k.mixed = c.mixed /\ k.elapsed = c.elapsed
      /\ k.calling = c.calling \/ k.calling = 0
  BY DEF c
<1>3. LotOK(k)
  BY <1>1, <1>2 DEF LotOK
<1>4. /\ Cardinality(DOMAIN k.lot) <= BatchSize /\ k.calling <= CallTimeout
      /\ k.elapsed \in Nat /\ k.calling \in Nat
  <2>1. CallTimeout \in Nat
    BY EntryQueueAssumption
  <2> QED
    BY <1>1, <1>2, <2>1 DEF TimeOK, Worker
<1>5. ASSUME k.phase \in {"ask", "called", "write"}
      PROVE  k.elapsed <= CallTimeout * Calls(k) + (IF k.phase = "called" THEN k.calling ELSE 0)
  <2> DEFINE x == CallTimeout * Calls(k)
  <2>1. Calls(k) \in Nat /\ Calls(k) = Calls(c)
    <3>1. DOMAIN k.verdict = {} /\ DOMAIN k.lot \in SUBSET Photos
      BY <1>1, <1>2, <1>5 DEF LotOK
    <3>2. Cardinality(DOMAIN k.verdict) = 0 /\ Cardinality(DOMAIN k.lot) \in Nat
      BY <3>1, PhotoSets, FS_EmptySet
    <3>3. BatchSize \in Nat
      BY EntryQueueAssumption
    <3> QED
      BY <3>2, <3>3, <1>2, <1>4 DEF Calls
  <2>2. x \in Nat
    BY <2>1, CallTimes
  <2>3. c.elapsed = 0 \/ (c.phase = "ask" /\ c.elapsed <= x + 0)
    BY <1>1, <1>2, <1>5, <2>1 DEF TimeOK
  <2> HIDE DEF x
  <2>4. k.elapsed <= x + (IF k.phase = "called" THEN k.calling ELSE 0)
    BY <2>2, <2>3, <1>2, <1>4
  <2> QED
    BY <2>4 DEF x
<1>6. TimeOK(k)
  BY <1>1, <1>2, <1>4, <1>5 DEF TimeOK
<1> QED
  BY <1>1, <1>2, <1>3, <1>6, OneWorker DEF c

\* Photos told apart, and the cost of a call, change nothing else in the lot.
LEMMA SpentFacts ==
  ASSUME NEW lot \in Partial(Holding), NEW S \in SUBSET DOMAIN lot, S # {}
  PROVE  /\ Spent(lot, S) \in Partial(Holding) /\ DOMAIN Spent(lot, S) = DOMAIN lot
         /\ \A p \in DOMAIN lot : Spent(lot, S)[p].attempts = lot[p].attempts
<1>1. DOMAIN lot \in SUBSET Photos /\ \A p \in DOMAIN lot : lot[p] \in Holding
  BY PartialFacts
<1>2. \A p \in S : Share(CallCost, S)[p] \in Nat
  <2>1. Cardinality(S) \in Nat \ {0} /\ CallCost \in Nat
    <3>1. S \in SUBSET Photos
      BY <1>1
    <3> QED
      BY <3>1, PhotoSets, EntryQueueAssumption
  <2>2. CallCost \div Cardinality(S) \in Nat
    BY <2>1
  <2> QED
    BY <2>2 DEF Share
<1>3. ASSUME NEW p \in DOMAIN lot
      PROVE  Spent(lot, S)[p] \in Holding /\ Spent(lot, S)[p].attempts = lot[p].attempts
  <2>1. CASE p \in S
    <3> DEFINE h == lot[p]
               s == Share(CallCost, S)[p]
    <3>1. Spent(lot, S)[p] = [h EXCEPT !.cost = h.cost + s]
      BY <2>1 DEF Spent
    <3>2. h \in Holding /\ s \in Nat
      BY <1>1, <1>2, <2>1
    <3> HIDE DEF h, s
    <3>3. [h EXCEPT !.cost = h.cost + s] \in Holding /\ [h EXCEPT !.cost = h.cost + s].attempts = h.attempts
      BY <3>2 DEF Holding
    <3> QED
      BY <3>1, <3>3 DEF h
  <2>2. CASE p \notin S
    BY <2>2, <1>1 DEF Spent
  <2> QED
    BY <2>1, <2>2
<1>4. Spent(lot, S) \in [DOMAIN lot -> Holding]
  BY <1>3 DEF Spent
<1> QED
  BY <1>1, <1>3, <1>4, PartialFacts

\* A worker's own steps, each with what it makes of its memory.
LEMMA DecideKeeps ==
  ASSUME Core, NEW w \in Workers, NEW S \in SUBSET Held(w), S # {}, NEW v \in Verdicts,
         NEW next \in {"rest", "ask"}, next = "ask" \/ S = Held(w), Decide(w, S, v, next),
         work[w].phase \in {"budget", "files", "ask", "called"}, photo' = photo
  PROVE  Core'
<1> DEFINE g == [p \in S |-> v]
           k == [work[w] EXCEPT !.phase = "write", !.verdict = g, !.next = next]
<1>1. work[w] \in Worker /\ Held(w) \in SUBSET Photos /\ LotOK(work[w])
  BY HandsTyped DEF Core
<1>2. g \in Partial(Verdicts) /\ DOMAIN g = S
  BY <1>1, PartialFacts
<1>3. work' = [work EXCEPT ![w] = k]
  BY DEF Decide, Core, WorkTyped
<1> HIDE DEF g
<1>4. /\ k \in Worker /\ k.phase = "write" /\ k.verdict = g /\ k.next = next /\ k.lot = work[w].lot
      /\ k.mixed = work[w].mixed /\ k.elapsed = work[w].elapsed /\ k.calling = work[w].calling
  BY <1>1, <1>2 DEF Worker, Phases
<1> HIDE DEF k
<1>5. DOMAIN k.lot = Held(w) /\ DOMAIN k.verdict = S /\ DOMAIN work[w].verdict = {}
  BY <1>1, <1>2, <1>4 DEF Held, LotOK
<1>6. \A p \in Held(w) : k.lot[p].attempts = work[w].lot[p].attempts
  BY <1>4
<1> QED
  BY <1>3, <1>4, <1>5, <1>6, Decides

\* Under way, a worker holds photos.
LEMMA UnderWay ==
  ASSUME Core, NEW w \in Workers, work[w].phase \in {"budget", "files", "ask", "called", "write"}
  PROVE  /\ Held(w) # {} /\ Held(w) \in SUBSET Photos /\ Asked(w) # {} /\ Asked(w) \in SUBSET Held(w)
         /\ work[w].phase # "write" => DOMAIN work[w].verdict = {}
         /\ Cardinality(Asked(w)) # 1 => ~ work[w].mixed
<1>1. Held(w) # {} /\ Held(w) \in SUBSET Photos /\ (work[w].phase # "write" => DOMAIN work[w].verdict = {})
  BY HandsTyped DEF Core, LotOK, Held
<1>2. Min(Held(w)) \in Held(w)
  BY <1>1, PhotoSets
<1>3. Cardinality({Min(Held(w))}) = 1
  BY FS_Singleton
<1> QED
  BY <1>1, <1>2, <1>3 DEF Asked

\* Looking for photos that are due touches no row: an empty candidate set rests, another one is reserved next.
LEMMA ScanKeeps ==
  ASSUME Core, NEW w \in Workers, Scan(w)
  PROVE  Core'
<1> DEFINE to == IF Cardinality(work[w].skips) < MaxSkips /\ ShouldRun(Candidates(work[w].skips)) THEN "reserve" ELSE "rest"
           k == [work[w] EXCEPT !.phase = to]
<1>1. work[w] \in Worker /\ work[w].phase = "scan" /\ to \in {"reserve", "rest"} /\ photo' = photo
  BY HandsTyped DEF Core, Scan
<1>2. work' = [work EXCEPT ![w] = k]
  BY DEF Scan, Core, WorkTyped
<1> HIDE DEF to
<1>3. /\ k \in Worker /\ k.phase = to /\ k.lot = work[w].lot /\ k.verdict = work[w].verdict
      /\ k.mixed = work[w].mixed /\ k.elapsed = work[w].elapsed /\ k.calling = work[w].calling
  BY <1>1 DEF Worker, Phases
<1> HIDE DEF k
<1> QED
  BY <1>1, <1>2, <1>3, GoesOn

\* A cap that is passed hands the whole reservation back as photos that wait, with their attempts.
LEMMA BudgetKeeps ==
  ASSUME Core, NEW w \in Workers, Budget(w)
  PROVE  Core'
<1> DEFINE cave == PhotoCave[Min(Held(w))]
           g == [p \in Held(w) |-> "wait"]
           to == IF capped THEN "rest" ELSE "scan"
           skips == IF capped THEN work[w].skips ELSE work[w].skips \union {cave}
<1>1. /\ work[w] \in Worker /\ work[w].phase = "budget" /\ photo' = photo /\ Held(w) # {} /\ Held(w) \in SUBSET Photos
      /\ DOMAIN work[w].verdict = {}
  BY HandsTyped, UnderWay DEF Core, Budget
<1>2. cave \in Caves
  <2>1. Min(Held(w)) \in Photos
    BY <1>1, PhotoSets
  <2> QED
    BY <2>1, EntryQueueAssumption
<1>3. skips \in SUBSET Caves
  BY <1>1, <1>2 DEF Worker
<1>4. g \in Partial(Verdicts) /\ DOMAIN g = Held(w)
  <2>1. g \in [Held(w) -> Verdicts]
    BY DEF Verdicts
  <2> QED
    BY <1>1, <2>1, PartialFacts
<1>5. CASE capped \/ cave \in overShare
  <2> DEFINE k == [work[w] EXCEPT !.phase = "write", !.verdict = g, !.next = to, !.skips = skips]
  <2>1. work' = [work EXCEPT ![w] = k]
    BY <1>5 DEF Budget, Core, WorkTyped
  <2>2. to \in {"rest", "scan"}
    OBVIOUS
  <2> HIDE DEF g, to, skips
  <2>3. /\ k \in Worker /\ k.phase = "write" /\ k.verdict = g /\ k.next = to /\ k.lot = work[w].lot
        /\ k.mixed = work[w].mixed /\ k.elapsed = work[w].elapsed /\ k.calling = work[w].calling
    BY <1>1, <1>3, <1>4, <2>2 DEF Worker, Phases
  <2> HIDE DEF k
  <2>4. /\ DOMAIN k.lot = Held(w) /\ DOMAIN k.verdict = Held(w)
        /\ \A p \in Held(w) : k.lot[p].attempts = work[w].lot[p].attempts
    BY <1>4, <2>3 DEF Held
  <2> QED
    BY <1>1, <2>1, <2>3, <2>4, Decides
<1>6. CASE ~ (capped \/ cave \in overShare)
  <2> DEFINE k == [work[w] EXCEPT !.phase = "files"]
  <2>1. work' = [work EXCEPT ![w] = k]
    BY <1>6 DEF Budget, Core, WorkTyped
  <2>2. /\ k \in Worker /\ k.phase = "files" /\ k.lot = work[w].lot /\ k.verdict = work[w].verdict
        /\ k.mixed = work[w].mixed /\ k.elapsed = work[w].elapsed /\ k.calling = work[w].calling
    BY <1>1 DEF Worker, Phases
  <2> HIDE DEF k
  <2> QED
    BY <1>1, <2>1, <2>2, GoesOn
<1> QED
  BY <1>5, <1>6

\* The photos whose files are gone are decided upon, the others are still held without a decision.
LEMMA FilesKeep ==
  ASSUME Core, NEW w \in Workers, Files(w)
  PROVE  Core'
<1>1. work[w] \in Worker /\ work[w].phase = "files" /\ photo' = photo
  BY HandsTyped DEF Core, Files
<1>2. CASE work' = [work EXCEPT ![w].phase = "ask"]
  <2> DEFINE k == [work[w] EXCEPT !.phase = "ask"]
  <2>1. work' = [work EXCEPT ![w] = k]
    BY <1>2 DEF Core, WorkTyped
  <2>2. /\ k \in Worker /\ k.phase = "ask" /\ k.lot = work[w].lot /\ k.verdict = work[w].verdict
        /\ k.mixed = work[w].mixed /\ k.elapsed = work[w].elapsed /\ k.calling = work[w].calling
    BY <1>1 DEF Worker, Phases
  <2> HIDE DEF k
  <2> QED
    BY <1>1, <2>1, <2>2, GoesOn
<1>3. ASSUME NEW lost \in (SUBSET Held(w)) \ {{}}, Decide(w, lost, "unreadable", "ask") PROVE Core'
  <2>1. lost \in SUBSET Held(w) /\ lost # {} /\ "unreadable" \in Verdicts
    BY DEF Verdicts
  <2> QED
    BY <1>1, <1>3, <2>1, DecideKeeps
<1> QED
  BY <1>2, <1>3 DEF Files

\* A write that fails turns what is left into photos to try again, once; the second failure ends the tick.
LEMMA WriteFailsKeeps ==
  ASSUME Core, NEW w \in Workers, WriteFails(w)
  PROVE  Core'
<1>1. /\ work[w] \in Worker /\ work[w].phase = "write" /\ photo' = photo /\ Held(w) # {} /\ Held(w) \in SUBSET Photos
      /\ DOMAIN work[w].verdict \subseteq Held(w)
  BY HandsTyped, UnderWay DEF Core, WriteFails
<1>2. CASE work[w].rescued
  BY <1>1, <1>2, Begins DEF WriteFails
<1>3. CASE ~ work[w].rescued
  <2> DEFINE g == [p \in Held(w) |-> "retry"]
             yes == TRUE
             k == [work[w] EXCEPT !.verdict = g, !.next = "rest", !.rescued = yes]
  <2>1. g \in Partial(Verdicts) /\ DOMAIN g = Held(w) /\ yes \in BOOLEAN
    <3>1. g \in [Held(w) -> Verdicts]
      BY DEF Verdicts
    <3> QED
      BY <1>1, <3>1, PartialFacts
  <2>2. work' = [work EXCEPT ![w].verdict = g, ![w].next = "rest", ![w].rescued = yes]
    BY <1>3 DEF WriteFails
  <2> HIDE DEF g, yes
  <2>3. work' = [work EXCEPT ![w] = k]
    BY <2>2 DEF Core, WorkTyped
  <2>4. /\ k \in Worker /\ k.phase = "write" /\ k.verdict = g /\ k.next = "rest" /\ k.lot = work[w].lot
        /\ k.mixed = work[w].mixed /\ k.elapsed = work[w].elapsed /\ k.calling = work[w].calling
    BY <1>1, <2>1 DEF Worker
  <2> HIDE DEF k
  <2>5. /\ DOMAIN k.lot = Held(w) /\ DOMAIN k.verdict = Held(w)
        /\ \A p \in Held(w) : k.lot[p].attempts = work[w].lot[p].attempts
    BY <2>1, <2>4 DEF Held
  <2> QED
    BY <1>1, <2>3, <2>4, <2>5, Decides
<1> QED
  BY <1>2, <1>3

\* A call that begins takes no time yet, and keeps the photos and what they have cost.
LEMMA AskKeeps ==
  ASSUME Core, NEW w \in Workers, Ask(w) \/ AskUnread(w)
  PROVE  Core'
<1> DEFINE k == [work[w] EXCEPT !.phase = "called", !.calling = 0]
<1>1. work[w] \in Worker /\ work[w].phase = "ask" /\ photo' = photo
  BY HandsTyped DEF Core, Ask, AskUnread
<1>2. work' = [work EXCEPT ![w] = k]
  BY DEF Ask, AskUnread, Core, WorkTyped
<1>3. /\ k \in Worker /\ k.phase = "called" /\ k.lot = work[w].lot /\ k.verdict = work[w].verdict
      /\ k.mixed = work[w].mixed /\ k.elapsed = work[w].elapsed /\ k.calling = 0
  BY <1>1 DEF Worker, Phases
<1> HIDE DEF k
<1> QED
  BY <1>1, <1>2, <1>3, GoesOn

\* The common pause, read before the call, puts off every photo held, to the end of the pause.
LEMMA PutOffKeeps ==
  ASSUME Core, GeminiTypeOK, NEW w \in Workers, PutOff(w)
  PROVE  Core'
<1> DEFINE g == [p \in Held(w) |-> "pause"]
           k == [work[w] EXCEPT !.phase = "write", !.verdict = g, !.next = "rest", !.until = pause]
<1>1. /\ work[w] \in Worker /\ work[w].phase = "ask" /\ photo' = photo /\ Held(w) # {} /\ Held(w) \in SUBSET Photos
      /\ DOMAIN work[w].verdict = {} /\ pause \in 0..RefusalPause
  BY HandsTyped, UnderWay DEF Core, PutOff, GeminiTypeOK
<1>2. g \in Partial(Verdicts) /\ DOMAIN g = Held(w)
  <2>1. g \in [Held(w) -> Verdicts]
    BY DEF Verdicts
  <2> QED
    BY <1>1, <2>1, PartialFacts
<1>3. work' = [work EXCEPT ![w] = k]
  BY DEF PutOff, Core, WorkTyped
<1> HIDE DEF g
<1>4. /\ k \in Worker /\ k.phase = "write" /\ k.verdict = g /\ k.next = "rest" /\ k.lot = work[w].lot
      /\ k.mixed = work[w].mixed /\ k.elapsed = work[w].elapsed /\ k.calling = work[w].calling
  BY <1>1, <1>2 DEF Worker, Phases
<1> HIDE DEF k
<1>5. /\ DOMAIN k.lot = Held(w) /\ DOMAIN k.verdict = Held(w)
      /\ \A p \in Held(w) : k.lot[p].attempts = work[w].lot[p].attempts
  BY <1>2, <1>4 DEF Held
<1> QED
  BY <1>1, <1>3, <1>4, <1>5, Decides

\* An answer decides on exactly the photos that were asked, each read or unreadable.
LEMMA AnsweredKeeps ==
  ASSUME Core, NEW w \in Workers, Answered(w)
  PROVE  Core'
<1>1. /\ work[w] \in Worker /\ work[w].phase = "called" /\ photo' = photo /\ Held(w) \in SUBSET Photos
      /\ Asked(w) # {} /\ Asked(w) \in SUBSET Held(w) /\ DOMAIN work[w].verdict = {}
  BY HandsTyped, UnderWay DEF Core, Answered, Called
<1>2. PICK bad : work' = [work EXCEPT ![w].phase = "write", ![w].next = "ask",
                            ![w].lot = Spent(work[w].lot, Asked(w)),
                            ![w].verdict = [p \in Asked(w) |-> IF p \in bad THEN "unreadable" ELSE "read"]]
  BY DEF Answered, Core, WorkTyped
<1> DEFINE g == [p \in Asked(w) |-> IF p \in bad THEN "unreadable" ELSE "read"]
           lot == Spent(work[w].lot, Asked(w))
           k == [work[w] EXCEPT !.phase = "write", !.next = "ask", !.lot = lot, !.verdict = g]
<1>3. g \in Partial(Verdicts) /\ DOMAIN g = Asked(w)
  <2>1. g \in [Asked(w) -> Verdicts]
    BY DEF Verdicts
  <2>2. Asked(w) \in SUBSET Photos
    BY <1>1
  <2> QED
    BY <2>1, <2>2, PartialFacts
<1>4. /\ lot \in Partial(Holding) /\ DOMAIN lot = Held(w)
      /\ \A p \in Held(w) : lot[p].attempts = work[w].lot[p].attempts
  <2> DEFINE old == work[w].lot
             S == Asked(w)
  <2>1. old \in Partial(Holding) /\ S \in SUBSET DOMAIN old /\ S # {}
    BY <1>1 DEF Worker, Held
  <2> HIDE DEF old, S
  <2>2. /\ Spent(old, S) \in Partial(Holding) /\ DOMAIN Spent(old, S) = DOMAIN old
        /\ \A p \in DOMAIN old : Spent(old, S)[p].attempts = old[p].attempts
    BY <2>1, SpentFacts
  <2> QED
    BY <2>2 DEF old, S, Held
<1>5. work' = [work EXCEPT ![w] = k]
  BY <1>2 DEF Core, WorkTyped
<1> HIDE DEF g, lot
<1>6. /\ k \in Worker /\ k.phase = "write" /\ k.verdict = g /\ k.next = "ask" /\ k.lot = lot
      /\ k.mixed = work[w].mixed /\ k.elapsed = work[w].elapsed /\ k.calling = work[w].calling
  BY <1>1, <1>3, <1>4 DEF Worker, Phases
<1> HIDE DEF k
<1>7. /\ DOMAIN k.lot = Held(w) /\ DOMAIN k.verdict = Asked(w)
      /\ \A p \in Held(w) : k.lot[p].attempts = work[w].lot[p].attempts
  BY <1>3, <1>4, <1>6
<1> QED
  BY <1>1, <1>5, <1>6, <1>7, Decides

\* An array of the wrong length decides nothing: the photos are asked again one by one, which is done once.
LEMMA MismatchKeeps ==
  ASSUME Core, NEW w \in Workers, Mismatch(w)
  PROVE  Core'
<1>1. /\ work[w] \in Worker /\ work[w].phase = "called" /\ photo' = photo /\ Held(w) \in SUBSET Photos
      /\ Asked(w) # {} /\ Asked(w) \in SUBSET Held(w) /\ DOMAIN work[w].verdict = {} /\ ~ work[w].mixed
      /\ LotOK(work[w]) /\ TimeOK(work[w]) /\ Held(w) # {}
  BY HandsTyped, UnderWay DEF Core, Mismatch, Called, Alone
<1> DEFINE lot == Spent(work[w].lot, Asked(w))
           yes == TRUE
           k == [work[w] EXCEPT !.phase = "ask", !.mixed = yes, !.lot = lot]
<1>2. /\ lot \in Partial(Holding) /\ DOMAIN lot = Held(w)
      /\ \A p \in Held(w) : lot[p].attempts = work[w].lot[p].attempts
  <2> DEFINE old == work[w].lot
             S == Asked(w)
  <2>1. old \in Partial(Holding) /\ S \in SUBSET DOMAIN old /\ S # {}
    BY <1>1 DEF Worker, Held
  <2> HIDE DEF old, S
  <2>2. /\ Spent(old, S) \in Partial(Holding) /\ DOMAIN Spent(old, S) = DOMAIN old
        /\ \A p \in DOMAIN old : Spent(old, S)[p].attempts = old[p].attempts
    BY <2>1, SpentFacts
  <2> QED
    BY <2>2 DEF old, S, Held
<1>3. yes \in BOOLEAN /\ yes
  OBVIOUS
<1>4. work' = [work EXCEPT ![w].phase = "ask", ![w].mixed = yes, ![w].lot = lot]
  BY DEF Mismatch, Core, WorkTyped
<1> HIDE DEF lot, yes
<1>5. work' = [work EXCEPT ![w] = k]
  BY <1>4 DEF Core, WorkTyped
<1>6. /\ k \in Worker /\ k.phase = "ask" /\ k.verdict = work[w].verdict /\ k.lot = lot
      /\ k.mixed = yes /\ k.elapsed = work[w].elapsed /\ k.calling = work[w].calling
  BY <1>1, <1>2, <1>3 DEF Worker, Phases
<1> HIDE DEF k
<1> DEFINE c == work[w]
<1>7. /\ c \in Worker /\ LotOK(c) /\ TimeOK(c) /\ k.elapsed = c.elapsed /\ c.phase = "called" /\ ~ c.mixed /\ k.mixed
      /\ k.phase = "ask" /\ DOMAIN k.verdict = {} /\ DOMAIN k.lot = DOMAIN c.lot /\ k.calling = c.calling
      /\ DOMAIN c.lot = Held(w)
  BY <1>1, <1>2, <1>3, <1>6 DEF Held
<1> HIDE DEF c
<1>8. LotOK(k)
  BY <1>1, <1>7 DEF LotOK
<1>9. k.elapsed <= CallTimeout * Calls(k)
  BY <1>6, <1>7, TimeGoesOn
<1>10. TimeOK(k)
  <2>1. k.elapsed <= CallTimeout * Calls(k) + 0
    <3> DEFINE x == CallTimeout * Calls(k)
    <3>1. x \in Int
      <4>1. Cardinality(DOMAIN k.lot) \in Nat /\ Cardinality(DOMAIN k.verdict) \in Nat
        BY <1>1, <1>7, PhotoSets
      <4>2. Calls(k) \in Int /\ CallTimeout \in Nat
        BY <4>1, EntryQueueAssumption DEF Calls
      <4> QED
        BY <4>2
    <3>2. k.elapsed <= x /\ k.elapsed \in Nat
      BY <1>6, <1>9 DEF Worker
    <3> HIDE DEF x
    <3>3. k.elapsed <= x + 0
      BY <3>1, <3>2
    <3> QED
      BY <3>3 DEF x
  <2> QED
    BY <1>7, <2>1 DEF TimeOK
<1>11. DOMAIN k.lot \subseteq Held(w) /\ \A p \in DOMAIN k.lot : k.lot[p].attempts = work[w].lot[p].attempts
  BY <1>2, <1>6
<1> QED
  BY <1>1, <1>5, <1>6, <1>8, <1>10, <1>11, OneWorker

-----------------------------------------------------------------------------
(* Each step on the rows *)

\* A reservation that outlasts the calls of a lot has not run out while it is read.
LEMMA LongReservations ==
  ASSUME WorkTyped, ReservationLasts
  PROVE  InTime
<1> SUFFICES ASSUME NEW v \in Workers, Held(v) # {} PROVE work[v].elapsed < Reservation
  BY DEF InTime
<1> DEFINE c == work[v]
           n == Cardinality(DOMAIN c.lot)
           m == Cardinality(DOMAIN c.verdict)
<1>1. c \in Worker /\ LotOK(c) /\ TimeOK(c) /\ DOMAIN c.lot \in SUBSET Photos /\ DOMAIN c.lot # {}
  BY HandsTyped DEF Held
<1> HIDE DEF c
<1>2. n \in Nat /\ n >= 1 /\ m \in Nat /\ m <= n /\ (DOMAIN c.verdict = {} => m = 0)
  <2>1. n \in Nat /\ n # 0 /\ IsFiniteSet(DOMAIN c.lot)
    BY <1>1, PhotoSets
  <2>2. DOMAIN c.verdict \in SUBSET DOMAIN c.lot
    BY <1>1 DEF LotOK
  <2>3. m <= n /\ m \in Nat
    <3>1. IsFiniteSet(DOMAIN c.verdict)
      BY <2>1, <2>2, FS_Subset
    <3> QED
      BY <2>1, <2>2, <3>1, FS_Subset, FS_CardinalityType
  <2> QED
    BY <2>1, <2>3, FS_EmptySet
<1>3. /\ c.elapsed \in Nat /\ c.calling \in Nat /\ CallTimeout \in Nat /\ BatchSize \in Nat /\ n <= BatchSize
      /\ c.calling <= CallTimeout /\ Reservation \in Nat /\ NoTime \notin Nat
  BY <1>1, EntryQueueAssumption DEF TimeOK, Worker
<1>4. CallTimeout * (BatchSize + 1) < Reservation /\ Reservation > 0
  <2>1. (BatchSize + 1) * CallTimeout = CallTimeout * (BatchSize + 1) /\ CallTimeout * (BatchSize + 1) \in Nat
    BY <1>3
  <2> QED
    BY <2>1, <1>3 DEF ReservationLasts
<1>5. Calls(c) \in Nat /\ Calls(c) <= BatchSize + 1 /\ (m = 0 => Calls(c) <= BatchSize)
  BY <1>2, <1>3 DEF Calls
<1>6. c.elapsed < Reservation
  <2>1. CASE c.phase \in {"budget", "files"}
    BY <2>1, <1>1, <1>4 DEF TimeOK
  <2>2. CASE c.phase = "called"
    <3> DEFINE x == CallTimeout * Calls(c)
               y == CallTimeout * BatchSize
    <3>1. m = 0
      BY <2>2, <1>1, <1>2 DEF LotOK
    <3>2. x <= y /\ x \in Nat /\ y \in Nat /\ CallTimeout * (BatchSize + 1) = y + CallTimeout
      BY <3>1, <1>3, <1>5, CallTimes
    <3>3. c.elapsed <= x + c.calling
      BY <2>2, <1>1 DEF TimeOK
    <3> HIDE DEF x, y
    <3> QED
      BY <3>2, <3>3, <1>3, <1>4
  <2>3. CASE c.phase \in {"ask", "write"}
    <3> DEFINE x == CallTimeout * Calls(c)
               y == CallTimeout * (BatchSize + 1)
    <3>1. x <= y /\ x \in Nat /\ y \in Nat
      BY <1>3, <1>5, CallTimes
    <3>2. c.elapsed <= x + 0
      BY <2>3, <1>1 DEF TimeOK
    <3>3. y < Reservation
      BY <1>4
    <3> HIDE DEF x, y
    <3> QED
      BY <3>1, <3>2, <3>3, <1>3
  <2> QED
    BY <2>1, <2>2, <2>3, <1>1 DEF LotOK, Worker, Phases
<1> QED
  BY <1>6 DEF c

\* A worker that looks for expired reservations finds none of a photo in hand.
LEMMA HeldNotStuck ==
  ASSUME Core, OneReader \/ InTime, NEW w \in Workers, Resting(w), NEW v \in Workers, NEW p \in Held(v)
  PROVE  ~ Stuck(p)
<1>1. CASE OneReader
  <2>1. v = w
    BY <1>1 DEF OneReader
  <2>2. Held(w) = {}
    BY HandsTyped DEF Core, Resting, LotOK, Held
  <2> QED
    BY <2>1, <2>2
<1>2. CASE InTime
  <2>1. work[v].elapsed < Reservation /\ photo[p].due = Left(Reservation, work[v].elapsed)
    BY <1>2 DEF InTime, Core, HeldOK
  <2>2. work[v].elapsed \in Nat /\ Reservation \in Nat /\ NoTime \notin Nat
    BY HandsTyped, EntryQueueAssumption DEF Core, Worker
  <2>3. photo[p].due \in Nat /\ photo[p].due # 0
    BY <2>1, <2>2 DEF Left
  <2> QED
    BY <2>2, <2>3 DEF Stuck, Due
<1> QED
  BY <1>1, <1>2

\* A reservation taken back costs an attempt, and the last one ends the photo.
LEMMA ReclaimedFacts ==
  ASSUME RowsTyped, AttemptsRunOut, NEW p \in Photos, photo[p].status = "PROCESSING", NEW r, r = Reclaimed(photo[p])
  PROVE  r \in RowOf(r.due) /\ r.status # "absent" /\ (r.status \in {"PENDING", "PROCESSING"} => r.attempts < MaxAttempts)
<1>1. photo[p] \in RowOf(photo[p].due) /\ photo[p].attempts \in Nat /\ photo[p].attempts < MaxAttempts
      /\ MaxAttempts \in Nat
  BY EntryQueueAssumption DEF RowsTyped, AttemptsRunOut, RowOf
<1> DEFINE to == IF photo[p].attempts >= MaxAttempts - 1 THEN "FAILED" ELSE "PENDING"
           n == photo[p].attempts + 1
<1>2. r = [photo[p] EXCEPT !.status = to, !.attempts = n, !.due = NoTime]
  BY DEF Reclaimed
<1>3. to \in Statuses /\ n \in 0..MaxAttempts /\ (to = "PENDING" => n < MaxAttempts) /\ to \notin {"PROCESSING", "absent"}
  BY <1>1 DEF Statuses
<1> HIDE DEF to, n
<1>4. r.status = to /\ r.attempts = n /\ r.due = NoTime
  BY <1>1, <1>2 DEF RowOf
<1>5. r \in RowOf(NoTime)
  BY <1>1, <1>2, <1>3 DEF RowOf
<1> QED
  BY <1>3, <1>4, <1>5

\* A tick reclaims only rows whose reservation is over: in time, no other worker holds one of those.
LEMMA TickKeeps ==
  ASSUME Core, OneReader \/ InTime, NEW w \in Workers, Tick(w)
  PROVE  Core'
<1> DEFINE phase == IF Paused THEN "rest" ELSE "scan"
           k == At(phase)
<1>1. phase \in Phases /\ phase \in {"rest", "scan"}
  BY DEF Phases
<1>2. /\ k \in Worker /\ k.phase = phase /\ k.elapsed = 0 /\ k.calling = 0
      /\ DOMAIN k.lot = {} /\ DOMAIN k.verdict = {} /\ k.next = "rest"
  BY <1>1, AtFacts
<1>3. Resting(w) /\ work' = [work EXCEPT ![w] = k]
      /\ photo' = [p \in Photos |-> IF Stuck(p) THEN Reclaimed(photo[p]) ELSE photo[p]]
  BY DEF Tick
<1> HIDE DEF k, phase
<1>4. LotOK(k) /\ TimeOK(k)
  BY <1>1, <1>2, FS_EmptySet, EntryQueueAssumption DEF TimeOK, LotOK
<1>5. work'[w] = k /\ \A v \in Workers \ {w} : work'[v] = work[v]
  BY <1>3 DEF Core, WorkTyped
<1>6. WorkTyped'
  <2>1. work' \in [Workers -> Worker]
    BY <1>2, <1>3 DEF Core, WorkTyped
  <2>2. \A v \in Workers : LotOK(work'[v]) /\ TimeOK(work'[v])
    BY <1>4, <1>5 DEF Core, WorkTyped
  <2> QED
    BY <2>1, <2>2 DEF WorkTyped
<1>7. ASSUME NEW p \in Photos
      PROVE  /\ photo'[p] \in RowOf(photo'[p].due) /\ (photo'[p].status = "absent" => photo'[p].attempts = 0)
             /\ photo'[p].status \in {"PENDING", "PROCESSING"} => photo'[p].attempts < MaxAttempts
  <2>1. CASE Stuck(p)
    <3>1. photo'[p] = Reclaimed(photo[p]) /\ photo[p].status = "PROCESSING"
      BY <2>1, <1>3 DEF Stuck
    <3> QED
      BY <3>1, ReclaimedFacts DEF Core
  <2>2. CASE ~ Stuck(p)
    <3>1. photo'[p] = photo[p]
      BY <2>2, <1>3
    <3> QED
      BY <3>1 DEF Core, RowsTyped, AttemptsRunOut
  <2> QED
    BY <2>1, <2>2
<1>8. RowsTyped' /\ AttemptsRunOut'
  BY <1>3, <1>7 DEF RowsTyped, AttemptsRunOut
<1>9. HandsShrink
  <2> SUFFICES ASSUME NEW v \in Workers, NEW p \in DOMAIN work'[v].lot
               PROVE  /\ p \in Held(v) /\ p \in Photos /\ work'[v].lot[p].attempts = work[v].lot[p].attempts
                      /\ work'[v].elapsed = work[v].elapsed /\ photo'[p] = photo[p]
    BY DEF HandsShrink
  <2>1. v # w /\ work'[v] = work[v] /\ p \in Held(v)
    BY <1>2, <1>5 DEF Held
  <2>2. p \in Photos /\ ~ Stuck(p)
    BY <2>1, <1>3, HandsTyped, HeldNotStuck DEF Core
  <2> QED
    BY <2>1, <2>2, <1>3
<1> QED
  BY <1>6, <1>8, <1>9, HandsKeep DEF Core

\* A step of the api on a photo leaves what is in hand as it was.
LEMMA ApiKeeps ==
  ASSUME Core, NEW p \in Photos, Upload(p) \/ Dismiss(p)
  PROVE  Core'
<1> DEFINE yes == TRUE
           r == photo'[p]
<1>1. photo[p] \in RowOf(photo[p].due) /\ work' = work
      /\ photo' = [q \in Photos |-> IF q = p THEN r ELSE photo[q]]
  BY DEF Core, RowsTyped, Upload, Dismiss
<1>2. \/ r = [photo[p] EXCEPT !.status = "PENDING"] /\ photo[p].status = "absent"
      \/ r = [photo[p] EXCEPT !.dismissed = yes] /\ photo[p].status # "absent"
  BY DEF Upload, Dismiss, Core, RowsTyped
<1>3. yes \in BOOLEAN /\ MaxAttempts > 0
  BY EntryQueueAssumption
<1> HIDE DEF yes, r
<1>4. /\ r \in RowOf(r.due) /\ r.status # "absent" /\ r.attempts = photo[p].attempts /\ r.due = photo[p].due
      /\ r.status = photo[p].status \/ photo[p].status = "absent"
  <2>1. CASE r = [photo[p] EXCEPT !.status = "PENDING"] /\ photo[p].status = "absent"
    BY <2>1, <1>1 DEF RowOf, Statuses
  <2>2. CASE r = [photo[p] EXCEPT !.dismissed = yes] /\ photo[p].status # "absent"
    BY <2>2, <1>1, <1>3 DEF RowOf
  <2> QED
    BY <2>1, <2>2, <1>2
<1>5. r.status \in {"PENDING", "PROCESSING"} => r.attempts < MaxAttempts
  BY <1>3, <1>4 DEF Core, RowsTyped, AttemptsRunOut
<1>6. RowsTyped' /\ AttemptsRunOut'
  BY <1>1, <1>4, <1>5 DEF Core, RowsTyped, AttemptsRunOut
<1>7. WorkTyped'
  BY <1>1 DEF Core, WorkTyped
<1>8. HandsShrink
  <2> SUFFICES ASSUME NEW v \in Workers, NEW q \in DOMAIN work'[v].lot
               PROVE  /\ q \in Held(v) /\ q \in Photos /\ work'[v].lot[q].attempts = work[v].lot[q].attempts
                      /\ photo'[q].status = photo[q].status /\ photo'[q].attempts = photo[q].attempts
                      /\ photo'[q].due = photo[q].due /\ work'[v].elapsed = work[v].elapsed
    BY DEF HandsShrink
  <2>1. q \in Held(v) /\ q \in Photos /\ photo[q].status = "PROCESSING"
    BY <1>1, HandsTyped DEF Core, Held, HeldOK
  <2> QED
    BY <2>1, <1>1, <1>4
<1> QED
  BY <1>6, <1>7, <1>8, HandsKeep DEF Core

\* The verdicts for a photo in hand, over the attempts it was reserved with.
LEMMA VerdictFacts ==
  ASSUME Core, NEW w \in Workers, NEW p \in DOMAIN work[w].verdict, NEW r, r = Verdict(w, p)
  PROVE  /\ r \in RowOf(r.due) /\ r.status # "absent"
         /\ r.status \in {"PENDING", "PROCESSING"} => r.attempts < MaxAttempts
<1> DEFINE held == work[w].lot[p]
           v == work[w].verdict[p]
           late(delay) == Left(delay, work[w].elapsed)
           row == [photo[p] EXCEPT !.cost = held.cost, !.due = NoTime]
           n == held.attempts + 1
<1>1. /\ p \in Held(w) /\ p \in Photos /\ v \in Verdicts /\ held \in Holding
      /\ photo[p] \in RowOf(photo[p].due) /\ photo[p].attempts = held.attempts /\ MaxAttempts \in Nat \ {0}
  BY HandsTyped, EntryQueueAssumption DEF Core, RowsTyped, HeldOK
<1>2. row \in RowOf(NoTime) /\ row.attempts = held.attempts
  BY <1>1 DEF RowOf, Holding
<1>3. held.attempts \in Nat /\ held.attempts < MaxAttempts /\ n \in 0..MaxAttempts
  BY <1>1 DEF Holding
<1>4. r = CASE v = "read"       -> [row EXCEPT !.status = "DONE"]
            [] v = "unreadable" -> [row EXCEPT !.status = "FAILED"]
            [] v = "wait"       -> [row EXCEPT !.status = "PENDING", !.due = late(MaxDelay)]
            [] v = "pause"      -> [row EXCEPT !.status = "PENDING", !.due = work[w].until]
            [] v = "retry"      -> IF n >= MaxAttempts
                                   THEN [row EXCEPT !.status = "FAILED", !.attempts = n]
                                   ELSE [row EXCEPT !.status = "PENDING", !.attempts = n, !.due = late(Backoff(n))]
  BY DEF Verdict
<1> HIDE DEF v, row, held
<1>5. CASE v \in {"read", "unreadable"}
  <2>1. r = [row EXCEPT !.status = "DONE"] \/ r = [row EXCEPT !.status = "FAILED"]
    BY <1>4, <1>5
  <2> QED
    BY <2>1, <1>2 DEF RowOf, Statuses
<1>6. CASE v \in {"wait", "pause"}
  <2>1. PICK d : r = [row EXCEPT !.status = "PENDING", !.due = d]
    BY <1>4, <1>6
  <2>2. r \in RowOf(d) /\ r.due = d /\ r.status = "PENDING" /\ r.attempts = row.attempts
    BY <2>1, <1>2 DEF RowOf, Statuses
  <2> QED
    BY <2>2, <1>2, <1>3
<1>7. CASE v = "retry"
  <2>1. CASE n >= MaxAttempts
    <3>1. r = [row EXCEPT !.status = "FAILED", !.attempts = n]
      BY <1>4, <1>7, <2>1
    <3> HIDE DEF n
    <3> QED
      BY <3>1, <1>2, <1>3 DEF RowOf, Statuses
  <2>2. CASE ~ (n >= MaxAttempts)
    <3>1. PICK d : r = [row EXCEPT !.status = "PENDING", !.attempts = n, !.due = d]
      BY <1>4, <1>7, <2>2
    <3>2. n < MaxAttempts
      BY <2>2, <1>1, <1>3
    <3> HIDE DEF n
    <3>3. r \in RowOf(d) /\ r.due = d /\ r.status = "PENDING" /\ r.attempts = n
      BY <3>1, <1>2, <1>3 DEF RowOf, Statuses
    <3> QED
      BY <3>2, <3>3
  <2> QED
    BY <2>1, <2>2
<1> QED
  BY <1>1, <1>5, <1>6, <1>7 DEF Verdicts

\* What is left to write needs no more time than before.
LEMMA CallsKept ==
  ASSUME NEW c \in Worker, NEW k \in Worker, LotOK(c), NEW p \in DOMAIN c.verdict,
         DOMAIN k.lot = DOMAIN c.lot \ {p}, DOMAIN k.verdict = DOMAIN c.verdict \ {p}, k.mixed = c.mixed
  PROVE  Calls(k) = Calls(c) /\ Cardinality(DOMAIN k.lot) <= Cardinality(DOMAIN c.lot)
<1>1. DOMAIN c.lot \in SUBSET Photos /\ DOMAIN c.verdict \in SUBSET Photos /\ p \in DOMAIN c.lot
  <2>1. c.lot \in Partial(Holding)
    BY DEF Worker
  <2> QED
    BY <2>1, PartialFacts DEF LotOK
<1> DEFINE L == DOMAIN c.lot
           V == DOMAIN c.verdict
<1>2. L \in SUBSET Photos /\ V \in SUBSET Photos /\ p \in L /\ p \in V
  BY <1>1
<1> HIDE DEF L, V
<1>3. IsFiniteSet(L) /\ IsFiniteSet(V) /\ Cardinality(L) \in Nat /\ Cardinality(V) \in Nat
  BY <1>2, PhotoSets
<1>4. Cardinality(L \ {p}) = Cardinality(L) - 1 /\ Cardinality(V \ {p}) = Cardinality(V) - 1
  BY <1>2, <1>3, FS_RemoveElement
<1>5. DOMAIN k.lot = L \ {p} /\ DOMAIN k.verdict = V \ {p} /\ DOMAIN c.lot = L /\ DOMAIN c.verdict = V
  BY DEF L, V
<1>6. Calls(k) = Calls(c)
  <2> DEFINE one == IF c.mixed THEN 1 ELSE 0
  <2>1. Calls(c) = one + (BatchSize - Cardinality(L)) + Cardinality(V)
    BY <1>5 DEF Calls
  <2>2. Calls(k) = one + (BatchSize - (Cardinality(L) - 1)) + (Cardinality(V) - 1)
    BY <1>4, <1>5 DEF Calls
  <2>3. one \in Nat /\ BatchSize \in Nat
    BY EntryQueueAssumption
  <2> HIDE DEF one
  <2> QED
    BY <2>1, <2>2, <2>3, <1>3
<1> QED
  BY <1>3, <1>4, <1>5, <1>6

\* A verdict is written on a photo that is still PROCESSING with the attempts it was reserved with, and leaves the hand.
LEMMA WriteKeeps ==
  ASSUME Core, NEW w \in Workers, Write(w)
  PROVE  Core'
<1> DEFINE p == Min(DOMAIN work[w].verdict)
           lot == Without(work[w].lot, p)
           verdict == Without(work[w].verdict, p)
           to == Onward(w, lot, verdict)
           k == [work[w] EXCEPT !.phase = to, !.lot = lot, !.verdict = verdict]
           r == Verdict(w, p)
<1>1. /\ work[w] \in Worker /\ LotOK(work[w]) /\ TimeOK(work[w]) /\ work[w].phase = "write"
      /\ Held(w) \in SUBSET Photos /\ DOMAIN work[w].verdict \subseteq Held(w) /\ DOMAIN work[w].verdict # {}
  BY HandsTyped DEF Core, LotOK, Write
<1>2. p \in DOMAIN work[w].verdict /\ p \in Held(w) /\ p \in Photos
  <2>1. DOMAIN work[w].verdict \in SUBSET Photos
    BY <1>1
  <2>2. p \in DOMAIN work[w].verdict
    BY <1>1, <2>1, PhotoSets
  <2> QED
    BY <1>1, <2>2
<1>3. photo' = [photo EXCEPT ![p] = r] /\ work' = [work EXCEPT ![w].phase = to, ![w].lot = lot, ![w].verdict = verdict]
  BY DEF Write
<1> HIDE DEF p
<1>4. /\ lot \in Partial(Holding) /\ DOMAIN lot = Held(w) \ {p} /\ \A q \in Held(w) \ {p} : lot[q] = work[w].lot[q]
      /\ verdict \in Partial(Verdicts) /\ DOMAIN verdict = DOMAIN work[w].verdict \ {p}
  <2> DEFINE f == work[w].lot
             g == work[w].verdict
  <2>1. f \in Partial(Holding) /\ g \in Partial(Verdicts) /\ DOMAIN f = Held(w)
    BY <1>1 DEF Worker, Held
  <2> HIDE DEF f, g
  <2>2. /\ Without(f, p) \in Partial(Holding) /\ DOMAIN Without(f, p) = DOMAIN f \ {p}
        /\ \A q \in DOMAIN f \ {p} : Without(f, p)[q] = f[q]
        /\ Without(g, p) \in Partial(Verdicts) /\ DOMAIN Without(g, p) = DOMAIN g \ {p}
    BY <2>1, WithoutFacts
  <2> QED
    BY <2>1, <2>2 DEF f, g
<1>5. to = IF DOMAIN verdict # {} THEN "write"
           ELSE IF work[w].next = "ask" /\ DOMAIN lot = {} THEN "rest" ELSE work[w].next
  BY DEF Onward
<1> HIDE DEF lot, verdict, to
<1>6. to \in {"write", "rest", "scan", "ask"}
  BY <1>1, <1>5 DEF Worker
<1>7. work' = [work EXCEPT ![w] = k]
  BY <1>3 DEF Core, WorkTyped
<1>8. /\ k \in Worker /\ k.phase = to /\ k.lot = lot /\ k.verdict = verdict /\ k.next = work[w].next
      /\ k.mixed = work[w].mixed /\ k.elapsed = work[w].elapsed /\ k.calling = work[w].calling
  BY <1>1, <1>4, <1>6 DEF Worker, Phases
<1> HIDE DEF k
<1>9. LotOK(k)
  BY <1>1, <1>4, <1>5, <1>6, <1>8 DEF LotOK, Held, Worker
<1>10. TimeOK(k)
  <2> DEFINE c == work[w]
  <2>1. /\ c \in Worker /\ k \in Worker /\ LotOK(c) /\ TimeOK(c) /\ c.phase = "write" /\ p \in DOMAIN c.verdict
        /\ DOMAIN k.lot = DOMAIN c.lot \ {p} /\ DOMAIN k.verdict = DOMAIN c.verdict \ {p}
        /\ k.mixed = c.mixed /\ k.elapsed = c.elapsed /\ k.calling = c.calling /\ k.next = c.next
        /\ k.phase \in {"write", "rest", "scan", "ask"} /\ (k.phase = "scan" => c.next = "scan")
    BY <1>1, <1>2, <1>4, <1>5, <1>6, <1>8 DEF Held
  <2> HIDE DEF c
  <2>2. Calls(k) = Calls(c) /\ Cardinality(DOMAIN k.lot) <= Cardinality(DOMAIN c.lot)
    BY <2>1, CallsKept
  <2>3. Cardinality(DOMAIN c.lot) \in Nat /\ Cardinality(DOMAIN k.lot) \in Nat /\ BatchSize \in Nat
    <3>1. DOMAIN k.lot \in SUBSET Photos /\ DOMAIN c.lot \in SUBSET Photos
      BY <1>1, <2>1 DEF c, Held
    <3> QED
      BY <3>1, PhotoSets, EntryQueueAssumption
  <2>4. Cardinality(DOMAIN k.lot) <= BatchSize
    BY <2>1, <2>2, <2>3 DEF TimeOK
  <2>5. k.elapsed <= CallTimeout * Calls(k) + 0
    BY <2>1, <2>2 DEF TimeOK
  <2> QED
    BY <2>1, <2>4, <2>5 DEF TimeOK
<1>11. work'[w] = k /\ \A v \in Workers \ {w} : work'[v] = work[v]
  BY <1>7 DEF Core, WorkTyped
<1>12. WorkTyped'
  <2>1. work' \in [Workers -> Worker]
    BY <1>7, <1>8 DEF Core, WorkTyped
  <2>2. \A v \in Workers : LotOK(work'[v]) /\ TimeOK(work'[v])
    BY <1>9, <1>10, <1>11 DEF Core, WorkTyped
  <2> QED
    BY <2>1, <2>2 DEF WorkTyped
<1>13. /\ r \in RowOf(r.due) /\ r.status # "absent"
       /\ r.status \in {"PENDING", "PROCESSING"} => r.attempts < MaxAttempts
  BY <1>2, VerdictFacts
<1> HIDE DEF r
<1>14. photo' = [q \in Photos |-> IF q = p THEN r ELSE photo[q]]
  BY <1>2, <1>3 DEF Core, RowsTyped
<1>15. RowsTyped' /\ AttemptsRunOut'
  BY <1>13, <1>14 DEF Core, RowsTyped, AttemptsRunOut
<1>16. HandsShrink
  <2> SUFFICES ASSUME NEW v \in Workers, NEW q \in DOMAIN work'[v].lot
               PROVE  /\ q \in Held(v) /\ q \in Photos /\ work'[v].lot[q].attempts = work[v].lot[q].attempts
                      /\ work'[v].elapsed = work[v].elapsed /\ photo'[q] = photo[q]
    BY DEF HandsShrink
  <2>1. CASE v = w
    BY <2>1, <1>1, <1>4, <1>8, <1>11, <1>14
  <2>2. CASE v # w
    <3>1. q \in Held(v) /\ work'[v] = work[v] /\ q \in Photos
      BY <2>2, <1>11, HandsTyped DEF Core, Held
    <3>2. q # p
      BY <2>2, <3>1, <1>2 DEF Core, NoSecondReading
    <3> QED
      BY <3>1, <3>2, <1>14
  <2> QED
    BY <2>1, <2>2
<1> QED
  BY <1>12, <1>15, <1>16, HandsKeep DEF Core

\* A reservation takes photos that are due, which nobody holds, and counts an attempt for each.
LEMMA ReserveKeeps ==
  ASSUME Core, NEW w \in Workers, Reserve(w)
  PROVE  Core'
<1> DEFINE due == Candidates(work[w].skips)
           mine == {p \in due : PhotoCave[p] = PhotoCave[Min(due)]}
           lot == Oldest(mine, BatchSize)
           f == [p \in lot |-> [attempts |-> photo[p].attempts, cost |-> photo[p].cost]]
           k == [work[w] EXCEPT !.phase = "budget", !.lot = f]
<1>1. /\ work[w] \in Worker /\ LotOK(work[w]) /\ TimeOK(work[w]) /\ work[w].phase = "reserve"
      /\ Held(w) = {} /\ DOMAIN work[w].verdict = {}
  BY HandsTyped DEF Core, LotOK, Held, Reserve
<1>2. CASE due = {}
  <2>1. work' = [work EXCEPT ![w] = At("rest")] /\ photo' = photo
    BY <1>2 DEF Reserve
  <2> QED
    BY <2>1, Begins
<1>3. CASE due # {}
  <2>1. due \in SUBSET Photos /\ \A p \in due : photo[p].status = "PENDING"
    BY DEF Candidates
  <2>2. mine \in SUBSET Photos /\ mine # {} /\ mine \subseteq due
    <3>1. Min(due) \in due
      BY <1>3, <2>1, PhotoSets
    <3> HIDE DEF due
    <3> QED
      BY <2>1, <3>1
  <2>3. /\ photo' = [p \in Photos |-> IF p \in lot THEN [photo[p] EXCEPT !.status = "PROCESSING", !.due = Reservation]
                                      ELSE photo[p]]
        /\ work' = [work EXCEPT ![w].phase = "budget", ![w].lot = f]
    BY <1>3 DEF Reserve
  <2> HIDE DEF due, mine
  <2>4. lot \subseteq mine /\ lot # {} /\ Cardinality(lot) <= BatchSize
    BY <2>2, OldestAreFew, EntryQueueAssumption
  <2> HIDE DEF lot
  <2>5. lot \in SUBSET Photos /\ \A p \in lot : photo[p].status = "PENDING"
    BY <2>1, <2>2, <2>4
  <2>6. \A p \in lot : photo[p].attempts \in 0..(MaxAttempts - 1) /\ photo[p].cost \in Nat
    <3> SUFFICES ASSUME NEW p \in lot PROVE photo[p].attempts \in 0..(MaxAttempts - 1) /\ photo[p].cost \in Nat
      OBVIOUS
    <3>1. photo[p] \in RowOf(photo[p].due) /\ photo[p].attempts < MaxAttempts /\ MaxAttempts \in Nat
      BY <2>5, EntryQueueAssumption DEF Core, RowsTyped, AttemptsRunOut
    <3> QED
      BY <3>1 DEF RowOf
  <2>7. f \in Partial(Holding) /\ DOMAIN f = lot /\ \A p \in lot : f[p].attempts = photo[p].attempts
    <3>1. f \in [lot -> Holding]
      BY <2>6 DEF Holding
    <3> QED
      BY <2>5, <3>1, PartialFacts
  <2> HIDE DEF f
  <2>8. work' = [work EXCEPT ![w] = k]
    BY <2>3 DEF Core, WorkTyped
  <2>9. /\ k \in Worker /\ k.phase = "budget" /\ k.lot = f /\ k.verdict = work[w].verdict
        /\ k.elapsed = 0 /\ k.calling = work[w].calling
    <3>1. work[w].elapsed = 0
      BY <1>1 DEF TimeOK
    <3> QED
      BY <3>1, <1>1, <2>7 DEF Worker, Phases
  <2> HIDE DEF k
  <2>10. LotOK(k) /\ TimeOK(k)
    BY <1>1, <2>4, <2>7, <2>9 DEF LotOK, TimeOK
  <2>11. work'[w] = k /\ \A v \in Workers \ {w} : work'[v] = work[v]
    BY <2>8 DEF Core, WorkTyped
  <2>12. WorkTyped'
    <3>1. work' \in [Workers -> Worker]
      BY <2>8, <2>9 DEF Core, WorkTyped
    <3>2. \A v \in Workers : LotOK(work'[v]) /\ TimeOK(work'[v])
      BY <2>10, <2>11 DEF Core, WorkTyped
    <3> QED
      BY <3>1, <3>2 DEF WorkTyped
  <2>13. ASSUME NEW p \in lot
         PROVE  /\ photo'[p] \in RowOf(Reservation) /\ photo'[p].due = Reservation /\ photo'[p].status = "PROCESSING"
                /\ photo'[p].attempts = photo[p].attempts /\ photo[p].attempts < MaxAttempts
    <3>1. photo'[p] = [photo[p] EXCEPT !.status = "PROCESSING", !.due = Reservation] /\ p \in Photos
      BY <2>3, <2>5
    <3>2. photo[p] \in RowOf(photo[p].due) /\ photo[p].attempts < MaxAttempts
      BY <3>1, <2>5 DEF Core, RowsTyped, AttemptsRunOut
    <3> QED
      BY <3>1, <3>2 DEF RowOf, Statuses
  <2>14. \A p \in Photos \ lot : photo'[p] = photo[p]
    BY <2>3
  <2>15. RowsTyped'
    BY <2>3, <2>13, <2>14 DEF Core, RowsTyped
  <2>16. AttemptsRunOut'
    BY <2>13, <2>14 DEF Core, AttemptsRunOut
  <2>17. ASSUME NEW v \in Workers, v # w
         PROVE  Held(v) \in SUBSET Photos /\ Held(v) \intersect lot = {}
    <3>1. \A p \in Held(v) : photo[p].status = "PROCESSING"
      BY DEF Core, HeldOK
    <3> QED
      BY <3>1, <2>5, HandsTyped DEF Core
  <2>18. HeldOK'
    <3> SUFFICES ASSUME NEW v \in Workers, NEW p \in DOMAIN work'[v].lot
                 PROVE  /\ photo'[p].status = "PROCESSING"
                        /\ photo'[p].attempts = work'[v].lot[p].attempts
                        /\ photo'[p].due = Left(Reservation, work'[v].elapsed)
      BY DEF HeldOK, Held
    <3>1. CASE v = w
      <4>1. p \in lot /\ work'[v].lot[p].attempts = photo[p].attempts /\ work'[v].elapsed = 0
        BY <3>1, <2>7, <2>9, <2>11
      <4>2. Left(Reservation, 0) = Reservation
        BY EntryQueueAssumption DEF Left
      <4> QED
        BY <4>1, <4>2, <2>13
    <3>2. CASE v # w
      <4>1. work'[v] = work[v] /\ p \in Held(v) /\ photo'[p] = photo[p]
        BY <3>2, <2>11, <2>14, <2>17 DEF Held
      <4> QED
        BY <4>1 DEF Core, HeldOK
    <3> QED
      BY <3>1, <3>2
  <2>19. NoSecondReading'
    <3>1. DOMAIN work'[w].lot = lot /\ \A v \in Workers \ {w} : DOMAIN work'[v].lot = Held(v)
      BY <2>7, <2>9, <2>11 DEF Held
    <3>2. ASSUME NEW u \in Workers, NEW v \in Workers, u # v
          PROVE  DOMAIN work'[u].lot \intersect DOMAIN work'[v].lot = {}
      <4>1. CASE u = w
        BY <4>1, <3>1, <3>2, <2>17
      <4>2. CASE v = w
        BY <4>2, <3>1, <3>2, <2>17
      <4>3. CASE u # w /\ v # w
        BY <4>3, <3>1, <3>2 DEF Core, NoSecondReading
      <4> QED
        BY <4>1, <4>2, <4>3
    <3> QED
      BY <3>2 DEF NoSecondReading, Held
  <2> QED
    BY <2>12, <2>15, <2>16, <2>18, <2>19 DEF Core
<1> QED
  BY <1>2, <1>3

\* A minute passes: reservations shorten, to nothing, by what the calls of their holders lengthen.
LEMMA PassKeeps ==
  ASSUME Core, Pass
  PROVE  Core'
<1>1. ASSUME NEW w \in Workers
      PROVE  /\ work'[w] \in Worker /\ LotOK(work'[w]) /\ TimeOK(work'[w])
             /\ work'[w].lot = work[w].lot
             /\ Held(w) # {} => work'[w].elapsed = work[w].elapsed + 1 /\ work[w].elapsed \in Nat
  <2> DEFINE c == work[w]
             k == work'[w]
  <2>1. c \in Worker /\ LotOK(c) /\ TimeOK(c) /\ Held(w) = DOMAIN c.lot
    BY HandsTyped DEF Core, Held
  <2>2. CASE Called(w)
    <3> DEFINE e == c.elapsed + 1
               d == c.calling + 1
    <3>1. k = [c EXCEPT !.elapsed = e, !.calling = d] /\ c.phase = "called"
      BY <2>2 DEF Pass, Called
    <3>2. c.calling < CallTimeout
      BY <2>2 DEF Pass, Called
    <3>3. e \in Nat /\ d \in Nat /\ c.elapsed \in Nat /\ c.calling \in Nat /\ CallTimeout \in Nat
      BY <2>1, EntryQueueAssumption DEF Worker
    <3>4. d <= CallTimeout
      BY <3>2, <3>3
    <3> HIDE DEF e, d, c, k
    <3>5. /\ k \in Worker /\ k.phase = "called" /\ k.lot = c.lot /\ k.verdict = c.verdict /\ k.mixed = c.mixed
          /\ k.elapsed = e /\ k.calling = d
      BY <3>1, <3>3, <2>1 DEF Worker, Phases
    <3>6. Calls(k) = Calls(c)
      BY <3>5 DEF Calls
    <3> DEFINE x == CallTimeout * Calls(c)
    <3>7. x \in Int
      <4>1. DOMAIN c.lot \in SUBSET Photos /\ DOMAIN c.verdict \in SUBSET Photos
        BY <2>1, HandsTyped DEF Core, LotOK
      <4>2. Cardinality(DOMAIN c.lot) \in Nat /\ Cardinality(DOMAIN c.verdict) \in Nat
        BY <4>1, PhotoSets
      <4>3. Calls(c) \in Int
        BY <4>2, EntryQueueAssumption DEF Calls
      <4> QED
        BY <4>3, <3>3
    <3>8. c.elapsed <= x + c.calling
      BY <2>1, <3>1 DEF TimeOK
    <3> HIDE DEF x
    <3>9. e <= x + d
      BY <3>3, <3>7, <3>8 DEF e, d
    <3>10. k.elapsed <= CallTimeout * Calls(k) + k.calling
      BY <3>5, <3>6, <3>9 DEF x
    <3>11. LotOK(k)
      BY <2>1, <3>1, <3>5 DEF LotOK
    <3>12. TimeOK(k)
      BY <2>1, <3>4, <3>5, <3>10 DEF TimeOK
    <3>13. k.elapsed = c.elapsed + 1
      BY <3>5 DEF e
    <3> QED
      BY <3>3, <3>5, <3>11, <3>12, <3>13 DEF c, k
  <2>3. CASE c.phase = "rest"
    <3>1. k = [c EXCEPT !.phase = "idle"]
      BY <2>3 DEF Pass, Called
    <3> HIDE DEF c, k
    <3>2. /\ k \in Worker /\ k.phase = "idle" /\ k.lot = c.lot /\ k.verdict = c.verdict
          /\ k.elapsed = c.elapsed /\ k.calling = c.calling /\ DOMAIN c.lot = {}
      BY <2>1, <2>3, <3>1 DEF Worker, Phases, LotOK
    <3>3. LotOK(k) /\ TimeOK(k)
      BY <2>1, <2>3, <3>2 DEF LotOK, TimeOK
    <3> QED
      BY <2>1, <3>2, <3>3 DEF c, k
  <2>4. CASE c.phase \in {"off", "down"}
    <3>1. k = c
      BY <2>4 DEF Pass, Called
    <3>2. Held(w) = {}
      BY <2>1, <2>4 DEF LotOK
    <3> QED
      BY <2>1, <3>1, <3>2
  <2> QED
    BY <2>2, <2>3, <2>4 DEF Pass
<1>2. WorkTyped'
  <2>1. work' \in [Workers -> Worker]
    BY <1>1 DEF Pass
  <2> QED
    BY <1>1, <2>1 DEF WorkTyped
<1>3. ASSUME NEW p \in Photos
      PROVE  /\ photo'[p] \in RowOf(photo'[p].due) /\ photo'[p].status = photo[p].status
             /\ photo'[p].attempts = photo[p].attempts
             /\ photo[p].status # "absent" =>
                  photo'[p].due = IF photo[p].due \in {NoTime, 0} THEN photo[p].due ELSE photo[p].due - 1
  <2>1. photo[p] \in RowOf(photo[p].due) /\ MaxWait \in Nat
    BY EntryQueueAssumption DEF Core, RowsTyped
  <2>2. CASE photo[p].status = "absent"
    <3>1. photo'[p] = photo[p]
      BY <2>2 DEF Pass
    <3> QED
      BY <3>1, <2>1, <2>2
  <2>3. CASE photo[p].status # "absent"
    <3> DEFINE a == IF photo[p].age < MaxWait THEN photo[p].age + 1 ELSE photo[p].age
               d == IF photo[p].due \in {NoTime, 0} THEN photo[p].due ELSE photo[p].due - 1
    <3>1. photo'[p] = [photo[p] EXCEPT !.age = a, !.due = d]
      BY <2>3 DEF Pass
    <3>2. a \in 0..MaxWait
      BY <2>1 DEF RowOf
    <3> HIDE DEF a, d
    <3>3. /\ photo'[p] \in RowOf(d) /\ photo'[p].due = d /\ photo'[p].status = photo[p].status
          /\ photo'[p].attempts = photo[p].attempts
      BY <3>1, <3>2, <2>1 DEF RowOf
    <3> QED
      BY <3>3 DEF d
  <2> QED
    BY <2>2, <2>3
<1>4. RowsTyped' /\ AttemptsRunOut'
  <2>1. photo' = [p \in Photos |-> photo'[p]]
    BY DEF Pass
  <2> QED
    BY <1>3, <2>1 DEF Core, RowsTyped, AttemptsRunOut
<1>5. HandsShrink
  <2> SUFFICES ASSUME NEW v \in Workers, NEW p \in DOMAIN work'[v].lot
               PROVE  /\ p \in Held(v) /\ p \in Photos /\ work'[v].lot[p].attempts = work[v].lot[p].attempts
                      /\ photo'[p].status = photo[p].status /\ photo'[p].attempts = photo[p].attempts
                      /\ photo'[p].due = Left(Reservation, work'[v].elapsed)
    BY DEF HandsShrink
  <2>1. p \in Held(v) /\ p \in Photos /\ work'[v].lot = work[v].lot
        /\ work'[v].elapsed = work[v].elapsed + 1 /\ work[v].elapsed \in Nat
    BY <1>1, HandsTyped DEF Core, Held
  <2>2. photo[p].status = "PROCESSING"
    BY <2>1 DEF Core, HeldOK
  <2>3. photo'[p].due = Left(Reservation, work'[v].elapsed)
    <3>1. photo[p].due = Left(Reservation, work[v].elapsed) /\ Reservation \in Nat /\ NoTime \notin Nat
      BY <2>1, EntryQueueAssumption DEF Core, HeldOK
    <3>2. photo'[p].due = IF photo[p].due \in {NoTime, 0} THEN photo[p].due ELSE photo[p].due - 1
      BY <2>1, <2>2, <1>3
    <3> DEFINE e == work[v].elapsed
    <3>3. e \in Nat /\ work'[v].elapsed = e + 1
      BY <2>1
    <3> HIDE DEF e
    <3>4. Left(Reservation, e + 1) = IF Left(Reservation, e) = 0 THEN 0 ELSE Left(Reservation, e) - 1
      BY <3>1, <3>3 DEF Left
    <3>5. Left(Reservation, e) \in Nat
      BY <3>1, <3>3 DEF Left
    <3> QED
      BY <3>1, <3>2, <3>3, <3>4, <3>5 DEF e
  <2> QED
    BY <2>1, <2>3, <1>3
<1> QED
  BY <1>2, <1>4, <1>5, HandsKeep DEF Core

-----------------------------------------------------------------------------
(* The theorems *)

\* Nothing is held when the workers start.
LEMMA ReadInit == Init => ReadInv
<1> SUFFICES ASSUME Init PROVE ReadInv
  OBVIOUS
<1>1. GeminiTypeOK
  <2>1. pause \in 0..RefusalPause
    BY GeminiAssumption DEF Init, NothingYet, GeminiInit
  <2>2. capped \in BOOLEAN /\ overShare \subseteq Caves
    BY DEF Init, NothingYet, GeminiInit
  <2> QED
    BY <2>1, <2>2 DEF GeminiTypeOK
<1>2. RowsTyped /\ AttemptsRunOut
  <2> DEFINE no == FALSE
  <2>1. photo = [p \in Photos |-> [status |-> "absent", dismissed |-> no, age |-> 0,
                                   attempts |-> 0, due |-> NoTime, cost |-> 0]]
    BY DEF Init, NothingYet
  <2>2. no \in BOOLEAN /\ 0 \in 0..MaxWait /\ 0 \in 0..MaxAttempts /\ 0 \in Nat
    BY EntryQueueAssumption
  <2> HIDE DEF no
  <2> QED
    BY <2>1, <2>2 DEF RowsTyped, AttemptsRunOut, RowOf, Statuses
<1>3. WorkTyped /\ \A w \in Workers : Held(w) = {}
  <2> DEFINE k == At("idle")
  <2>1. work = [w \in Workers |-> k]
    BY DEF Init
  <2>2. "idle" \in Phases
    BY DEF Phases
  <2>3. /\ k \in Worker /\ k.phase = "idle" /\ k.elapsed = 0 /\ k.calling = 0
        /\ DOMAIN k.lot = {} /\ DOMAIN k.verdict = {} /\ k.next = "rest"
    BY <2>2, AtFacts
  <2> HIDE DEF k
  <2>4. LotOK(k) /\ TimeOK(k)
    BY <2>3, FS_EmptySet, EntryQueueAssumption DEF LotOK, TimeOK
  <2> QED
    BY <2>1, <2>3, <2>4 DEF WorkTyped, Held
<1>4. HeldOK /\ NoSecondReading
  BY <1>3 DEF HeldOK, NoSecondReading
<1> QED
  BY <1>1, <1>2, <1>3, <1>4 DEF ReadInv, Core

\* The answers of Gemini to a worker.
LEMMA CallKeeps ==
  ASSUME Core, NEW w \in Workers, Answered(w) \/ Mismatch(w) \/ Invalid(w) \/ Rejected(w) \/ Fails(w) \/ Refused(w)
  PROVE  Core'
<1>1. CASE Answered(w)
  BY <1>1, AnsweredKeeps
<1>2. CASE Mismatch(w)
  BY <1>2, MismatchKeeps
<1>3. CASE Invalid(w) \/ Rejected(w)
  <2>1. Decide(w, Asked(w), "unreadable", "ask") /\ work[w].phase = "called" /\ photo' = photo
    BY <1>3 DEF Invalid, Rejected, Alone, Called
  <2>2. Asked(w) \in SUBSET Held(w) /\ Asked(w) # {} /\ "unreadable" \in Verdicts
    BY <2>1, UnderWay DEF Verdicts
  <2> QED
    BY <2>1, <2>2, DecideKeeps
<1>4. CASE Fails(w) \/ Refused(w)
  <2>1. Decide(w, Held(w), "retry", "rest") /\ work[w].phase \in {"called", "budget"} /\ photo' = photo
    BY <1>4 DEF Fails, Refused, Called
  <2>2. Held(w) # {} /\ "retry" \in Verdicts
    BY <2>1, UnderWay DEF Verdicts
  <2> QED
    BY <2>1, <2>2, DecideKeeps
<1> QED
  BY <1>1, <1>2, <1>3, <1>4

\* What a step on the pause or the month leaves alone.
LEMMA CoreSame ==
  ASSUME Core, photo' = photo, work' = work
  PROVE  Core'
<1>1. WorkTyped'
  BY DEF Core, WorkTyped
<1>2. RowsTyped' /\ AttemptsRunOut'
  BY DEF Core, RowsTyped, AttemptsRunOut
<1>3. HeldOK' /\ NoSecondReading'
  BY DEF Core, HeldOK, NoSecondReading, Held
<1> QED
  BY <1>1, <1>2, <1>3 DEF Core

\* The pause and the month keep their types whatever the queue does.
LEMMA GeminiKeeps == GeminiTypeOK /\ [Next]_vars => GeminiTypeOK'
<1> SUFFICES ASSUME GeminiTypeOK, [Next]_vars PROVE GeminiTypeOK'
  OBVIOUS
<1>1. RefusalPause \in Nat /\ pause \in 0..RefusalPause
  BY GeminiAssumption DEF GeminiTypeOK
<1>2. CASE UNCHANGED geminiVars
  BY <1>2 DEF geminiVars, GeminiTypeOK
<1>3. ASSUME NEW length \in 1..RefusalPause, ExtendPause(length), UNCHANGED <<capped, overShare>> PROVE GeminiTypeOK'
  BY <1>1, <1>3 DEF ExtendPause, GeminiTypeOK
<1>4. CASE RefusedElsewhere
  BY <1>3, <1>4 DEF RefusedElsewhere
<1>5. ASSUME NEW w \in Workers, Refused(w) PROVE GeminiTypeOK'
  BY <1>3, <1>5 DEF Refused
<1>6. CASE BudgetMoves
  BY <1>6 DEF BudgetMoves, GeminiTypeOK
<1>7. CASE Pass
  <2>1. pause' = (IF Paused THEN pause - 1 ELSE 0) /\ UNCHANGED <<capped, overShare>>
    BY <1>7 DEF Pass
  <2>2. pause' \in 0..RefusalPause
    BY <1>1, <2>1 DEF Paused
  <2> QED
    BY <2>1, <2>2 DEF GeminiTypeOK
<1>8. ASSUME NEW w \in Workers, Step(w) \/ GiveUp(w) \/ WriteFails(w) \/ AskUnread(w) \/ Crash(w)
      PROVE  UNCHANGED geminiVars \/ Refused(w)
  <2>1. CASE Step(w)
    BY <2>1 DEF Step, Tick, Scan, Reserve, Budget, Files, Write, Ask, PutOff, Answered, Mismatch, Invalid, Rejected,
                Fails, Restart
  <2>2. CASE GiveUp(w) \/ WriteFails(w) \/ AskUnread(w) \/ Crash(w)
    BY <2>2 DEF GiveUp, WriteFails, AskUnread, Crash
  <2> QED
    BY <1>8, <2>1, <2>2
<1>9. ASSUME NEW p \in Photos, Upload(p) \/ Dismiss(p) PROVE UNCHANGED geminiVars
  BY <1>9 DEF Upload, Dismiss
<1>10. CASE UNCHANGED vars
  BY <1>2, <1>10 DEF vars
<1>11. CASE Next
  BY <1>2, <1>4, <1>5, <1>6, <1>7, <1>8, <1>9, <1>11 DEF Next, Environment
<1> QED
  BY <1>10, <1>11

\* Every step of the queue keeps the invariant.
LEMMA ReadStep == (OneReader \/ InTime) /\ ReadInv /\ [Next]_vars => ReadInv'
<1> SUFFICES ASSUME OneReader \/ InTime, ReadInv, [Next]_vars PROVE ReadInv'
  OBVIOUS
<1>1. Core /\ GeminiTypeOK
  BY DEF ReadInv
<1>2. GeminiTypeOK'
  BY <1>1, GeminiKeeps
<1>3. ASSUME NEW p \in Photos, Upload(p) \/ Dismiss(p) PROVE Core'
  BY <1>1, <1>3, ApiKeeps
<1>4. ASSUME NEW w \in Workers, Step(w) PROVE Core'
  <2>1. CASE Tick(w)
    BY <1>1, <2>1, TickKeeps
  <2>2. CASE Scan(w)
    BY <1>1, <2>2, ScanKeeps
  <2>3. CASE Reserve(w)
    BY <1>1, <2>3, ReserveKeeps
  <2>4. CASE Budget(w)
    BY <1>1, <2>4, BudgetKeeps
  <2>5. CASE Files(w)
    BY <1>1, <2>5, FilesKeep
  <2>6. CASE Write(w)
    BY <1>1, <2>6, WriteKeeps
  <2>7. CASE Ask(w)
    BY <1>1, <2>7, AskKeeps
  <2>8. CASE PutOff(w)
    BY <1>1, <2>8, PutOffKeeps
  <2>9. CASE Answered(w) \/ Mismatch(w) \/ Invalid(w) \/ Rejected(w) \/ Fails(w) \/ Refused(w)
    BY <1>1, <2>9, CallKeeps
  <2>10. CASE Restart(w)
    <3>1. work' = [work EXCEPT ![w] = At("idle")] /\ photo' = photo
      BY <2>10 DEF Restart
    <3> QED
      BY <1>1, <3>1, Begins
  <2> QED
    BY <1>4, <2>1, <2>2, <2>3, <2>4, <2>5, <2>6, <2>7, <2>8, <2>9, <2>10 DEF Step
<1>5. ASSUME NEW w \in Workers, GiveUp(w) \/ Crash(w) PROVE Core'
  <2>1. photo' = photo /\ (work' = [work EXCEPT ![w] = At("rest")] \/ work' = [work EXCEPT ![w] = At("down")])
    BY <1>5 DEF GiveUp, Crash
  <2> QED
    BY <1>1, <2>1, Begins
<1>6. ASSUME NEW w \in Workers, WriteFails(w) PROVE Core'
  BY <1>1, <1>6, WriteFailsKeeps
<1>7. ASSUME NEW w \in Workers, AskUnread(w) PROVE Core'
  BY <1>1, <1>7, AskKeeps
<1>8. ASSUME Pass PROVE Core'
  BY <1>1, <1>8, PassKeeps
<1>9. ASSUME Environment \/ UNCHANGED vars PROVE Core'
  <2>1. photo' = photo /\ work' = work
    BY <1>9 DEF Environment, vars
  <2> QED
    BY <1>1, <2>1, CoreSame
<1>10. Core'
  BY <1>3, <1>4, <1>5, <1>6, <1>7, <1>8, <1>9 DEF Next
<1> QED
  BY <1>2, <1>10 DEF ReadInv

\* What every step of the entry queue keeps, with one worker or as long as workers are
\* in time (entry-batch.processor.ts).
THEOREM ReadingInvariance == Spec /\ [](OneReader \/ InTime) => []ReadInv
<1>1. (OneReader \/ InTime) /\ ReadInv /\ [Next]_vars => ReadInv'
  BY ReadStep
<1> QED
  BY <1>1, ReadInit, PTL DEF Spec

\* However many workers there are, a photo is in the hands of two only once one of them
\* has held its lot as long as it is reserved: stops, restarts, expired reservations and
\* late writes put none in two hands before that (entry-batch.ts:16-20).
THEOREM NoPhotoIsReadTwice == Spec /\ []InTime => []NoSecondReading
<1>1. ReadInv => NoSecondReading
  BY DEF ReadInv, Core
<1>2. InTime => OneReader \/ InTime
  OBVIOUS
<1> QED
  BY <1>1, <1>2, ReadingInvariance, PTL

\* How long a reservation would have to be: longer than a call for the whole lot and one
\* for each of its photos (RESERVATION_MS, entry-batch.ts:20, is shorter).
THEOREM LongReservationsAreInTime ==
  ASSUME ReservationLasts
  PROVE  Spec => [](InTime /\ NoSecondReading)
<1>1. ReadInv => WorkTyped /\ NoSecondReading
  BY DEF ReadInv, Core
<1>2. WorkTyped => InTime
  BY LongReservations
<1>3. InTime /\ ReadInv /\ [Next]_vars => ReadInv'
  BY ReadStep
<1> QED
  BY <1>1, <1>2, <1>3, ReadInit, PTL DEF Spec

\* A photo that makes every reader fall does not go round for ever: reclaimed reservations
\* and failed calls together cost it no more than MaxAttempts.
THEOREM AttemptsOfPhotosRunOut == Spec /\ [](OneReader \/ InTime) => []AttemptsRunOut
<1>1. ReadInv => AttemptsRunOut
  BY DEF ReadInv, Core
<1> QED
  BY <1>1, ReadingInvariance, PTL

\* A photo once read or given up keeps its status and its cost: no late write, expired
\* reservation or restart takes it up again.
THEOREM VerdictsAreFinal == Spec /\ [](OneReader \/ InTime) => VerdictsStand
<1> DEFINE Settled(p) == photo[p].status \in {"DONE", "FAILED"}
           Same(p) == photo'[p].status = photo[p].status /\ photo'[p].cost = photo[p].cost
<1>1. ASSUME ReadInv, [Next]_vars, NEW p \in Photos, Settled(p) PROVE Same(p)
  <2>1. RowsTyped /\ WorkTyped /\ HeldOK /\ photo[p] \in RowOf(photo[p].due) /\ photo = [q \in Photos |-> photo[q]]
    BY <1>1 DEF ReadInv, Core, RowsTyped
  <2>2. CASE photo' = photo
    BY <2>2
  <2>3. ASSUME NEW q \in Photos, Upload(q) PROVE Same(p)
    <3>1. q # p
      BY <1>1, <2>3 DEF Upload
    <3> QED
      BY <2>1, <2>3, <3>1 DEF Upload
  <2>4. ASSUME NEW q \in Photos, Dismiss(q) PROVE Same(p)
    BY <2>1, <2>4 DEF Dismiss, RowOf
  <2>5. ASSUME NEW w \in Workers, Tick(w) PROVE Same(p)
    BY <1>1, <2>5 DEF Tick, Stuck
  <2>6. ASSUME NEW w \in Workers, Reserve(w) PROVE Same(p)
    <3> DEFINE due == Candidates(work[w].skips)
               lot == Oldest({q \in due : PhotoCave[q] = PhotoCave[Min(due)]}, BatchSize)
    <3>1. p \notin due /\ lot \subseteq due
      BY <1>1 DEF Candidates, Oldest
    <3>2. photo' = photo \/ photo' = [q \in Photos |-> IF q \in lot
            THEN [photo[q] EXCEPT !.status = "PROCESSING", !.due = Reservation] ELSE photo[q]]
      BY <2>6 DEF Reserve
    <3> HIDE DEF due, lot
    <3> QED
      BY <3>1, <3>2
  <2>7. ASSUME NEW w \in Workers, Write(w) PROVE Same(p)
    <3> DEFINE q == Min(DOMAIN work[w].verdict)
    <3>1. q \in Held(w)
      <4>1. DOMAIN work[w].verdict \subseteq Held(w) /\ Held(w) \in SUBSET Photos /\ DOMAIN work[w].verdict # {}
        BY <2>1, <2>7, HandsTyped DEF LotOK, Write
      <4>2. DOMAIN work[w].verdict \in SUBSET Photos
        BY <4>1
      <4> QED
        BY <4>1, <4>2, PhotoSets
    <3>2. photo' = [photo EXCEPT ![q] = Verdict(w, q)]
      BY <2>7 DEF Write
    <3> HIDE DEF q
    <3>3. q # p
      BY <1>1, <2>1, <3>1 DEF HeldOK
    <3> QED
      BY <2>1, <3>2, <3>3
  <2>8. CASE Pass
    <3> DEFINE a == IF photo[p].age < MaxWait THEN photo[p].age + 1 ELSE photo[p].age
               d == IF photo[p].due \in {NoTime, 0} THEN photo[p].due ELSE photo[p].due - 1
    <3>1. photo'[p] = [photo[p] EXCEPT !.age = a, !.due = d]
      BY <1>1, <2>8 DEF Pass
    <3> HIDE DEF a, d
    <3> QED
      BY <2>1, <3>1 DEF RowOf
  <2>9. ASSUME NEW w \in Workers, Step(w) PROVE photo' = photo \/ Tick(w) \/ Reserve(w) \/ Write(w)
    BY <2>9 DEF Step, Scan, Budget, Files, Ask, PutOff, Answered, Mismatch, Invalid, Rejected, Fails, Refused, Restart
  <2>10. ASSUME NEW w \in Workers, GiveUp(w) \/ WriteFails(w) \/ AskUnread(w) \/ Crash(w) PROVE photo' = photo
    BY <2>10 DEF GiveUp, WriteFails, AskUnread, Crash
  <2>11. CASE Environment \/ UNCHANGED vars
    BY <2>11 DEF Environment, vars
  <2> HIDE DEF Same
  <2> QED
    BY <1>1, <2>2, <2>3, <2>4, <2>5, <2>6, <2>7, <2>8, <2>9, <2>10, <2>11 DEF Next
<1>2. ReadInv /\ [Next]_vars => [\A p \in Photos : Settled(p) => Same(p)]_vars
  BY <1>1
<1> QED
  BY <1>2, ReadingInvariance, PTL DEF Spec, VerdictsStand

-----------------------------------------------------------------------------
(* The cents counted, whoever reads a photo *)

\* A row or a memory has these fields.
Column(k, names) == names \subseteq DOMAIN k

\* Rows and memories have a place for the cents, and a worker under way holds photos.
Shaped ==
  /\ DOMAIN photo = Photos /\ DOMAIN work = Workers
  /\ \A p \in Photos : Column(photo[p], {"cost"})

HandShaped(k) ==
  /\ Column(k, {"phase", "lot", "verdict", "next"})
  /\ DOMAIN k.lot \subseteq Photos /\ DOMAIN k.verdict \subseteq DOMAIN k.lot
  /\ \A p \in DOMAIN k.lot : Column(k.lot[p], {"cost"})
  /\ k.phase \in {"budget", "files", "ask", "called", "write"} => DOMAIN k.lot # {}
  /\ k.phase = "write" <=> DOMAIN k.verdict # {}
  /\ \A p \in DOMAIN k.verdict : k.verdict[p] \in Verdicts
  /\ k.next \in {"rest", "scan", "ask"}

HandsShaped == \A w \in Workers : HandShaped(work[w])

\* c is what the calls cost for each photo: its row and whoever holds it know of no more.
Owed(c) ==
  /\ c \in [Photos -> Nat]
  /\ \A p \in Photos : photo[p].cost \in 0..c[p]
  /\ \A w \in Workers : \A p \in Held(w) : work[w].lot[p].cost \in 0..c[p]
  /\ SumOf(c, Photos) <= billed

CountInv == Shaped /\ HandsShaped /\ billed \in Nat /\ \E c : Owed(c)

\* The photos are finitely many.
LEMMA PhotosFinite == IsFiniteSet(Photos)
  BY EntryQueueAssumption

\* Then no more is counted than was billed.
LEMMA OwedCounted == CountInv => NeverOvercounted
<1> SUFFICES ASSUME CountInv PROVE NeverOvercounted
  OBVIOUS
<1>1. PICK c : Owed(c)
  BY DEF CountInv
<1> DEFINE f == [p \in Photos |-> photo[p].cost]
<1>2. \A p \in Photos : f[p] = photo[p].cost /\ f[p] \in Int /\ c[p] \in Int /\ f[p] <= c[p]
  BY <1>1 DEF Owed
<1>3. CostsOf(photo, Photos) = SumOf(f, Photos)
  BY <1>2, PhotosFinite, CostsAreSums
<1> HIDE DEF f
<1>4. SumOf(f, Photos) <= SumOf(c, Photos)
  BY <1>2, PhotosFinite, SumLeq
<1>5. SumOf(f, Photos) \in Int /\ SumOf(c, Photos) \in Int /\ billed \in Int
  BY <1>2, PhotosFinite, SumInt DEF CountInv
<1>6. CostsOf(photo, Photos) <= billed
  BY <1>1, <1>3, <1>4, <1>5 DEF Owed
<1> QED
  BY <1>6 DEF NeverOvercounted, CostsOf

\* Cents only pass between a row and those who hold its photo.
CostsPass ==
  /\ \A p \in Photos : \/ photo'[p].cost = photo[p].cost
                       \/ \E w \in Workers : p \in Held(w) /\ photo'[p].cost = work[w].lot[p].cost
  /\ \A w \in Workers : \A p \in DOMAIN work'[w].lot :
       \/ p \in Held(w) /\ work'[w].lot[p].cost = work[w].lot[p].cost
       \/ p \in Photos /\ work'[w].lot[p].cost = photo[p].cost

\* Then none is counted that was not before.
LEMMA PassedOn ==
  ASSUME CountInv, Shaped', HandsShaped', CostsPass, billed' \in Nat, billed' >= billed
  PROVE  CountInv'
<1>1. PICK c : Owed(c)
  BY DEF CountInv
<1>2. \A p \in Photos : photo'[p].cost \in 0..c[p]
  BY <1>1 DEF Owed, CostsPass
<1>3. \A w \in Workers : \A p \in DOMAIN work'[w].lot : work'[w].lot[p].cost \in 0..c[p]
  BY <1>1 DEF Owed, CostsPass
<1>4. SumOf(c, Photos) \in Int
  BY <1>1, PhotosFinite, SumInt DEF Owed
<1>5. SumOf(c, Photos) <= billed'
  BY <1>1, <1>4 DEF Owed, CountInv
<1>6. Owed(c)'
  BY <1>1, <1>2, <1>3, <1>5 DEF Owed, Held
<1> QED
  BY <1>6 DEF CountInv

\* A worker's step on its own memory, without a call answered.
LEMMA OneHand ==
  ASSUME CountInv, NEW w \in Workers, photo' = photo, billed' \in Nat, billed' >= billed, DOMAIN work' = Workers,
         \A v \in Workers \ {w} : work'[v] = work[v], HandShaped(work'[w]),
         \A p \in DOMAIN work'[w].lot : p \in Held(w) /\ work'[w].lot[p].cost = work[w].lot[p].cost
  PROVE  CountInv'
<1>1. HandsShaped'
  BY DEF CountInv, HandsShaped
<1>2. Shaped'
  BY DEF CountInv, Shaped
<1>3. CostsPass
  BY DEF CostsPass, Held
<1> QED
  BY <1>1, <1>2, <1>3, PassedOn

\* Between two ticks a worker holds nothing.
LEMMA BeginsEmpty ==
  ASSUME CountInv, NEW w \in Workers, NEW phase \in {"down", "idle", "rest", "scan"},
         work' = [work EXCEPT ![w] = At(phase)], photo' = photo, billed' = billed
  PROVE  CountInv'
<1>1. DOMAIN NoPhotos = {}
  BY DEF NoPhotos
<1>2. HandShaped(At(phase)) /\ DOMAIN At(phase).lot = {}
  BY <1>1 DEF HandShaped, At, Column
<1>3. /\ DOMAIN work' = Workers /\ work'[w] = At(phase) /\ \A v \in Workers \ {w} : work'[v] = work[v]
      /\ billed' \in Nat /\ billed' >= billed
  BY DEF CountInv, Shaped
<1> QED
  BY <1>2, <1>3, OneHand

\* A worker goes on with the photos it holds.
LEMMA HoldsOn ==
  ASSUME CountInv, NEW w \in Workers, photo' = photo, billed' \in Nat, billed' >= billed, DOMAIN work' = Workers,
         \A v \in Workers \ {w} : work'[v] = work[v],
         work'[w].lot = work[w].lot, DOMAIN work'[w] = DOMAIN work[w], Held(w) # {},
         DOMAIN work'[w].verdict \subseteq Held(w), \A p \in DOMAIN work'[w].verdict : work'[w].verdict[p] \in Verdicts,
         work'[w].phase = "write" <=> DOMAIN work'[w].verdict # {},
         work'[w].next \in {"rest", "scan", "ask"}
  PROVE  CountInv'
<1>1. HandShaped(work[w])
  BY DEF CountInv, HandsShaped
<1>2. HandShaped(work'[w])
  BY <1>1 DEF HandShaped, Held, Column
<1> QED
  BY <1>2, OneHand DEF Held

\* What a worker under way holds.
LEMMA InHand ==
  ASSUME CountInv, NEW w \in Workers
  PROVE  /\ Held(w) \in SUBSET Photos /\ DOMAIN work[w].verdict \subseteq Held(w)
         /\ HandShaped(work[w]) /\ Column(work[w], {"phase", "lot", "verdict", "next"})
         /\ work[w].phase \in {"budget", "files", "ask", "called", "write"} =>
              /\ Held(w) # {} /\ Asked(w) # {} /\ Asked(w) \in SUBSET Held(w)
         /\ work[w].phase = "write" =>
              /\ DOMAIN work[w].verdict # {} /\ Min(DOMAIN work[w].verdict) \in DOMAIN work[w].verdict
         /\ DOMAIN work = Workers /\ billed \in Nat
<1>1. HandShaped(work[w]) /\ DOMAIN work = Workers /\ billed \in Nat
  BY DEF CountInv, HandsShaped, Shaped
<1>2. /\ Held(w) \in SUBSET Photos /\ DOMAIN work[w].verdict \subseteq Held(w)
      /\ work[w].phase \in {"budget", "files", "ask", "called", "write"} => Held(w) # {}
      /\ work[w].phase = "write" => DOMAIN work[w].verdict # {}
      /\ Column(work[w], {"phase", "lot", "verdict", "next"})
  BY <1>1 DEF HandShaped, Held
<1>3. Held(w) # {} => Min(Held(w)) \in Held(w)
  BY <1>2, PhotoSets
<1>4. Held(w) # {} => Asked(w) # {} /\ Asked(w) \in SUBSET Held(w)
  BY <1>3 DEF Asked
<1>5. DOMAIN work[w].verdict \in SUBSET Photos
  BY <1>2
<1>6. DOMAIN work[w].verdict # {} => Min(DOMAIN work[w].verdict) \in DOMAIN work[w].verdict
  BY <1>5, PhotoSets
<1> QED
  BY <1>1, <1>2, <1>4, <1>6

\* A verdict for some of the photos held leaves their cents alone.
LEMMA DecideCounts ==
  ASSUME CountInv, NEW w \in Workers, NEW S \in SUBSET Held(w), S # {}, NEW v \in Verdicts, NEW next \in {"rest", "ask"},
         Decide(w, S, v, next), photo' = photo, billed' \in Nat, billed' >= billed
  PROVE  CountInv'
<1> DEFINE g == [p \in S |-> v]
<1>1. DOMAIN work = Workers /\ Column(work[w], {"phase", "lot", "verdict", "next"})
  BY InHand
<1>2. DOMAIN g = S /\ \A p \in DOMAIN g : g[p] \in Verdicts
  OBVIOUS
<1> HIDE DEF g
<1>3. work' = [work EXCEPT ![w].phase = "write", ![w].verdict = g, ![w].next = next]
  BY DEF Decide, g
<1>4. /\ DOMAIN work' = Workers /\ \A u \in Workers \ {w} : work'[u] = work[u]
      /\ work'[w] = [work[w] EXCEPT !.phase = "write", !.verdict = g, !.next = next]
  BY <1>1, <1>3
<1>5. work'[w].lot = work[w].lot /\ work'[w].phase = "write" /\ work'[w].verdict = g /\ work'[w].next = next /\ DOMAIN work'[w] = DOMAIN work[w]
  BY <1>1, <1>4 DEF Column
<1> QED
  BY <1>2, <1>4, <1>5, HoldsOn

\* Looking, asking, failing: the steps on a worker's memory alone.
LEMMA MemoryCounts ==
  ASSUME CountInv, NEW w \in Workers,
         \/ Scan(w) \/ Budget(w) \/ Files(w) \/ Ask(w) \/ AskUnread(w) \/ PutOff(w)
         \/ Invalid(w) \/ Rejected(w) \/ Fails(w) \/ Refused(w) \/ WriteFails(w)
         \/ GiveUp(w) \/ Crash(w) \/ Restart(w)
  PROVE  CountInv'
<1>1. /\ Held(w) \in SUBSET Photos /\ HandShaped(work[w]) /\ DOMAIN work = Workers /\ billed \in Nat
      /\ Column(work[w], {"phase", "lot", "verdict", "next"})
      /\ work[w].phase \in {"budget", "files", "ask", "called", "write"} =>
              /\ Held(w) # {} /\ Asked(w) # {} /\ Asked(w) \in SUBSET Held(w)
  BY InHand
<1>2. CASE Scan(w)
  <2>1. PICK ph \in {"reserve", "rest"} : work' = [work EXCEPT ![w].phase = ph] /\ photo' = photo /\ billed' = billed /\ work[w].phase = "scan"
    BY <1>2 DEF Scan
  <2>2. /\ DOMAIN work' = Workers /\ \A u \in Workers \ {w} : work'[u] = work[u]
        /\ work'[w] = [work[w] EXCEPT !.phase = ph]
    BY <1>1, <2>1
  <2>3. /\ work'[w].lot = work[w].lot /\ work'[w].phase = ph /\ work'[w].verdict = work[w].verdict
        /\ work'[w].next = work[w].next /\ DOMAIN work'[w] = DOMAIN work[w]
    BY <1>1, <2>2 DEF Column
  <2>4. HandShaped(work'[w])
    BY <1>1, <2>1, <2>3 DEF HandShaped, Column
  <2> QED
    BY <1>1, <2>1, <2>2, <2>3, <2>4, OneHand DEF Held
<1>3. CASE Budget(w)
  <2> DEFINE g == [p \in Held(w) |-> "wait"]
  <2>1. DOMAIN g = Held(w) /\ (\A p \in DOMAIN g : g[p] \in Verdicts) /\ Held(w) # {} /\ photo' = photo /\ billed' \in Nat /\ billed' >= billed /\ work[w].phase = "budget"
    BY <1>1, <1>3 DEF Budget, Verdicts
  <2> HIDE DEF g
  <2>2. PICK n, sk : \/ n \in {"rest", "scan"} /\ work' = [work EXCEPT ![w].phase = "write", ![w].verdict = g, ![w].next = n, ![w].skips = sk]
                     \/ work' = [work EXCEPT ![w].phase = "files"]
    <3>1. CASE capped
      BY <1>1, <1>3, <3>1 DEF Budget, g
    <3>2. CASE ~ capped
      BY <1>1, <1>3, <3>2 DEF Budget, g
    <3> QED
      BY <3>1, <3>2
  <2>3. CASE work' = [work EXCEPT ![w].phase = "files"]
    <3>1. /\ DOMAIN work' = Workers /\ \A u \in Workers \ {w} : work'[u] = work[u]
          /\ work'[w] = [work[w] EXCEPT !.phase = "files"]
      BY <1>1, <2>3
    <3>2. /\ work'[w].lot = work[w].lot /\ work'[w].phase = "files" /\ work'[w].verdict = work[w].verdict
          /\ work'[w].next = work[w].next /\ DOMAIN work'[w] = DOMAIN work[w]
      BY <1>1, <3>1 DEF Column
    <3>3. DOMAIN work'[w].verdict = {} /\ work'[w].next \in {"rest", "scan", "ask"} /\ work'[w].phase # "write"
      BY <1>1, <3>2, <2>1 DEF HandShaped, Held
    <3> QED
      BY <1>1, <2>1, <3>1, <3>2, <3>3, HoldsOn
  <2>4. ASSUME n \in {"rest", "scan"}, work' = [work EXCEPT ![w].phase = "write", ![w].verdict = g, ![w].next = n, ![w].skips = sk]
        PROVE  CountInv'
    <3>1. /\ DOMAIN work' = Workers /\ \A u \in Workers \ {w} : work'[u] = work[u]
          /\ work'[w] = [work[w] EXCEPT !.phase = "write", !.verdict = g, !.next = n, !.skips = sk]
      BY <1>1, <2>4
    <3>2. work'[w].lot = work[w].lot /\ work'[w].phase = "write" /\ work'[w].verdict = g /\ work'[w].next = n /\ DOMAIN work'[w] = DOMAIN work[w]
      BY <1>1, <3>1 DEF Column
    <3> QED
      BY <1>1, <2>1, <2>4, <3>1, <3>2, HoldsOn
  <2> QED
    BY <2>2, <2>3, <2>4
<1>4. CASE Files(w)
  <2>1. Held(w) # {} /\ photo' = photo /\ billed' \in Nat /\ billed' >= billed /\ work[w].phase = "files"
    BY <1>1, <1>4 DEF Files
  <2>2. CASE work' = [work EXCEPT ![w].phase = "ask"]
    <3>1. /\ DOMAIN work' = Workers /\ \A u \in Workers \ {w} : work'[u] = work[u]
          /\ work'[w] = [work[w] EXCEPT !.phase = "ask"]
      BY <1>1, <2>2
    <3>2. /\ work'[w].lot = work[w].lot /\ work'[w].phase = "ask" /\ work'[w].verdict = work[w].verdict
          /\ work'[w].next = work[w].next /\ DOMAIN work'[w] = DOMAIN work[w]
      BY <1>1, <3>1 DEF Column
    <3>3. DOMAIN work'[w].verdict = {} /\ work'[w].next \in {"rest", "scan", "ask"} /\ work'[w].phase # "write"
      BY <1>1, <3>2, <2>1 DEF HandShaped, Held
    <3> QED
      BY <1>1, <2>1, <3>1, <3>2, <3>3, HoldsOn
  <2>3. ASSUME NEW lost \in (SUBSET Held(w)) \ {{}}, Decide(w, lost, "unreadable", "ask") PROVE CountInv'
    BY <1>1, <2>1, <2>3, DecideCounts DEF Verdicts
  <2> QED
    BY <1>4, <2>2, <2>3 DEF Files
<1>5. CASE Ask(w) \/ AskUnread(w)
  <2>1. /\ Held(w) # {} /\ work[w].phase = "ask" /\ photo' = photo /\ billed' \in Nat /\ billed' >= billed
        /\ work' = [work EXCEPT ![w].phase = "called", ![w].calling = 0]
    BY <1>1, <1>5 DEF Ask, AskUnread
  <2>2. /\ DOMAIN work' = Workers /\ \A u \in Workers \ {w} : work'[u] = work[u]
        /\ work'[w] = [work[w] EXCEPT !.phase = "called", !.calling = 0]
    BY <1>1, <2>1
  <2>3. /\ work'[w].lot = work[w].lot /\ work'[w].phase = "called" /\ work'[w].verdict = work[w].verdict
        /\ work'[w].next = work[w].next /\ DOMAIN work'[w] = DOMAIN work[w]
    BY <1>1, <2>2 DEF Column
  <2>4. DOMAIN work'[w].verdict = {} /\ work'[w].next \in {"rest", "scan", "ask"} /\ work'[w].phase # "write"
    BY <1>1, <2>1, <2>3 DEF HandShaped, Held
  <2> QED
    BY <1>1, <2>1, <2>2, <2>3, <2>4, HoldsOn
<1>6. CASE PutOff(w)
  <2> DEFINE g == [p \in Held(w) |-> "pause"]
  <2>1. DOMAIN g = Held(w) /\ (\A p \in DOMAIN g : g[p] \in Verdicts) /\ Held(w) # {} /\ photo' = photo /\ billed' \in Nat /\ billed' >= billed
    BY <1>1, <1>6 DEF PutOff, Verdicts
  <2> HIDE DEF g
  <2>2. work' = [work EXCEPT ![w].phase = "write", ![w].verdict = g, ![w].next = "rest", ![w].until = pause]
    BY <1>6 DEF PutOff, g
  <2>3. /\ DOMAIN work' = Workers /\ \A u \in Workers \ {w} : work'[u] = work[u]
        /\ work'[w] = [work[w] EXCEPT !.phase = "write", !.verdict = g, !.next = "rest", !.until = pause]
    BY <1>1, <2>2
  <2>4. work'[w].lot = work[w].lot /\ work'[w].phase = "write" /\ work'[w].verdict = g /\ work'[w].next = "rest" /\ DOMAIN work'[w] = DOMAIN work[w]
    BY <1>1, <2>3 DEF Column
  <2> QED
    BY <1>1, <2>1, <2>3, <2>4, HoldsOn
<1>7. CASE Invalid(w) \/ Rejected(w)
  <2>1. Decide(w, Asked(w), "unreadable", "ask") /\ photo' = photo /\ work[w].phase = "called"
    BY <1>7 DEF Invalid, Rejected, Alone, Called
  <2>2. billed' \in Nat /\ billed' >= billed
    BY <1>1, <1>7, EntryQueueAssumption DEF Invalid, Rejected, Bill
  <2> QED
    BY <1>1, <2>1, <2>2, DecideCounts DEF Verdicts
<1>8. CASE Fails(w) \/ Refused(w)
  <2>1. /\ Decide(w, Held(w), "retry", "rest") /\ photo' = photo /\ billed' = billed
        /\ work[w].phase \in {"called", "budget"}
    BY <1>8 DEF Fails, Refused, Called
  <2> QED
    BY <1>1, <2>1, DecideCounts DEF Verdicts
<1>9. CASE WriteFails(w)
  <2>1. Held(w) # {} /\ photo' = photo /\ billed' = billed /\ billed' \in Nat /\ billed' >= billed /\ work[w].phase = "write"
    BY <1>1, <1>9 DEF WriteFails
  <2> DEFINE g == [p \in Held(w) |-> "retry"]
             yes == TRUE
  <2>2. DOMAIN g = Held(w) /\ \A p \in DOMAIN g : g[p] \in Verdicts
    BY DEF Verdicts
  <2>3. \/ work' = [work EXCEPT ![w] = At("rest")]
        \/ work' = [work EXCEPT ![w].verdict = g, ![w].next = "rest", ![w].rescued = yes]
    BY <1>9 DEF WriteFails
  <2> HIDE DEF g, yes
  <2>4. CASE work' = [work EXCEPT ![w] = At("rest")]
    BY <2>1, <2>4, BeginsEmpty
  <2>5. CASE work' = [work EXCEPT ![w].verdict = g, ![w].next = "rest", ![w].rescued = yes]
    <3>1. /\ DOMAIN work' = Workers /\ \A u \in Workers \ {w} : work'[u] = work[u]
          /\ work'[w] = [work[w] EXCEPT !.verdict = g, !.next = "rest", !.rescued = yes]
      BY <1>1, <2>5
    <3>2. work'[w].lot = work[w].lot /\ work'[w].phase = "write" /\ work'[w].verdict = g /\ work'[w].next = "rest" /\ DOMAIN work'[w] = DOMAIN work[w]
      BY <1>1, <3>1, <2>1 DEF Column
    <3> QED
      BY <1>1, <2>1, <2>2, <3>1, <3>2, HoldsOn
  <2> QED
    BY <2>3, <2>4, <2>5
<1>10. CASE GiveUp(w) \/ Crash(w) \/ Restart(w)
  <2>1. PICK ph \in {"down", "idle", "rest"} : work' = [work EXCEPT ![w] = At(ph)]
    BY <1>10 DEF GiveUp, Crash, Restart
  <2>2. photo' = photo /\ billed' = billed
    BY <1>10 DEF GiveUp, Crash, Restart
  <2> QED
    BY <2>1, <2>2, BeginsEmpty
<1> QED
  BY <1>2, <1>3, <1>4, <1>5, <1>6, <1>7, <1>8, <1>9, <1>10

\* Rows change but for their cents, and hands stay.
LEMMA RowsCount ==
  ASSUME CountInv, DOMAIN photo' = Photos, \A p \in Photos : DOMAIN photo'[p] = DOMAIN photo[p] /\ photo'[p].cost = photo[p].cost,
         billed' = billed, DOMAIN work' = Workers, \A w \in Workers : HandShaped(work'[w]),
         \A w \in Workers : \A p \in DOMAIN work'[w].lot :
            \/ p \in Held(w) /\ work'[w].lot[p].cost = work[w].lot[p].cost
            \/ p \in Photos /\ work'[w].lot[p].cost = photo[p].cost
  PROVE  CountInv'
<1>1. HandsShaped'
  BY DEF HandsShaped
<1>2. Shaped'
  BY DEF CountInv, Shaped, Column
<1>3. CostsPass
  BY DEF CostsPass
<1>4. billed' \in Nat /\ billed' >= billed
  BY DEF CountInv
<1> QED
  BY <1>1, <1>2, <1>3, <1>4, PassedOn

\* The api, the clock, and what takes photos back or reserves them.
LEMMA ApiCounts ==
  ASSUME CountInv, NEW p \in Photos, Upload(p) \/ Dismiss(p)
  PROVE  CountInv'
<1> DEFINE yes == TRUE
<1>1. /\ photo' = [photo EXCEPT ![p].status = "PENDING"] \/ photo' = [photo EXCEPT ![p].dismissed = yes]
      /\ work' = work /\ billed' = billed
  BY DEF Upload, Dismiss
<1> HIDE DEF yes
<1>2. DOMAIN photo = Photos /\ \A q \in Photos : "cost" \in DOMAIN photo[q]
  BY DEF CountInv, Shaped, Column
<1>3. DOMAIN photo' = Photos /\ \A q \in Photos : DOMAIN photo'[q] = DOMAIN photo[q] /\ photo'[q].cost = photo[q].cost
  BY <1>1, <1>2
<1>4. /\ DOMAIN work' = Workers /\ \A w \in Workers : HandShaped(work'[w])
      /\ \A w \in Workers : \A q \in DOMAIN work'[w].lot : q \in Held(w) /\ work'[w].lot[q].cost = work[w].lot[q].cost
  BY <1>1 DEF CountInv, Shaped, HandsShaped, Held
<1> QED
  BY <1>1, <1>3, <1>4, RowsCount

\* Reservations taken back keep what their rows say.
LEMMA TickCounts ==
  ASSUME CountInv, NEW w \in Workers, Tick(w)
  PROVE  CountInv'
<1>1. DOMAIN photo = Photos /\ DOMAIN work = Workers /\ \A q \in Photos : "cost" \in DOMAIN photo[q]
  BY DEF CountInv, Shaped, Column
<1>2. ASSUME NEW q \in Photos
      PROVE  DOMAIN photo'[q] = DOMAIN photo[q] /\ photo'[q].cost = photo[q].cost
  <2>1. photo'[q] = IF Stuck(q) THEN Reclaimed(photo[q]) ELSE photo[q]
    BY DEF Tick
  <2>2. DOMAIN Reclaimed(photo[q]) = DOMAIN photo[q] /\ Reclaimed(photo[q]).cost = photo[q].cost
    <3> DEFINE s == IF photo[q].attempts >= MaxAttempts - 1 THEN "FAILED" ELSE "PENDING"
               a == photo[q].attempts + 1
    <3>1. Reclaimed(photo[q]) = [photo[q] EXCEPT !.status = s, !.attempts = a, !.due = NoTime]
      BY DEF Reclaimed
    <3> HIDE DEF s, a
    <3> QED
      BY <3>1, <1>1
  <2> QED
    BY <2>1, <2>2
<1>3. PICK ph \in {"rest", "scan"} : work' = [work EXCEPT ![w] = At(ph)]
  BY DEF Tick
<1>4. HandShaped(At(ph)) /\ DOMAIN At(ph).lot = {}
  BY DEF HandShaped, At, Column, NoPhotos
<1>5. DOMAIN work' = Workers /\ work'[w] = At(ph) /\ \A v \in Workers \ {w} : work'[v] = work[v]
  BY <1>1, <1>3
<1>6. /\ \A v \in Workers : HandShaped(work'[v])
      /\ \A v \in Workers : \A q \in DOMAIN work'[v].lot : q \in Held(v) /\ work'[v].lot[q].cost = work[v].lot[q].cost
  BY <1>4, <1>5 DEF CountInv, HandsShaped, Held
<1>7. DOMAIN photo' = Photos /\ billed' = billed
  BY DEF Tick
<1> QED
  BY <1>2, <1>5, <1>6, <1>7, RowsCount

\* Time passes over the cents.
LEMMA PassCounts ==
  ASSUME CountInv, Pass
  PROVE  CountInv'
<1>1. DOMAIN photo = Photos /\ DOMAIN work = Workers /\ \A q \in Photos : "cost" \in DOMAIN photo[q]
  BY DEF CountInv, Shaped, Column
<1>2. ASSUME NEW q \in Photos
      PROVE  DOMAIN photo'[q] = DOMAIN photo[q] /\ photo'[q].cost = photo[q].cost
  <2> DEFINE a == IF photo[q].age < MaxWait THEN photo[q].age + 1 ELSE photo[q].age
             d == IF photo[q].due \in {NoTime, 0} THEN photo[q].due ELSE photo[q].due - 1
  <2>1. photo'[q] = photo[q] \/ photo'[q] = [photo[q] EXCEPT !.age = a, !.due = d]
    BY DEF Pass
  <2> HIDE DEF a, d
  <2> QED
    BY <2>1, <1>1
<1>3. ASSUME NEW v \in Workers
      PROVE  /\ HandShaped(work'[v])
             /\ \A q \in DOMAIN work'[v].lot : q \in Held(v) /\ work'[v].lot[q].cost = work[v].lot[q].cost
  <2> DEFINE k == work[v]
             e == k.elapsed + 1
             n == k.calling + 1
  <2>1. HandShaped(k)
    BY DEF CountInv, HandsShaped
  <2>2. \/ Called(v) /\ work'[v] = [k EXCEPT !.elapsed = e, !.calling = n]
        \/ k.phase = "rest" /\ work'[v] = [k EXCEPT !.phase = "idle"]
        \/ work'[v] = k
    <3>1. k.phase \in {"off", "down", "rest"} \/ Called(v)
      BY DEF Pass
    <3> QED
      BY <3>1 DEF Pass, Called
  <2> HIDE DEF k, e, n
  <2>3. work'[v].lot = k.lot /\ HandShaped(work'[v])
    <3>1. CASE work'[v] = k
      BY <2>1, <3>1
    <3>2. CASE work'[v] = [k EXCEPT !.elapsed = e, !.calling = n]
      <4>1. /\ work'[v].lot = k.lot /\ work'[v].phase = k.phase /\ work'[v].verdict = k.verdict
            /\ work'[v].next = k.next /\ DOMAIN work'[v] = DOMAIN k
        BY <2>1, <3>2 DEF HandShaped, Column
      <4> QED
        BY <2>1, <4>1 DEF HandShaped, Column
    <3>3. CASE k.phase = "rest" /\ work'[v] = [k EXCEPT !.phase = "idle"]
      <4>1. /\ work'[v].lot = k.lot /\ work'[v].phase = "idle" /\ work'[v].verdict = k.verdict
            /\ work'[v].next = k.next /\ DOMAIN work'[v] = DOMAIN k
        BY <2>1, <3>3 DEF HandShaped, Column
      <4> QED
        BY <2>1, <3>3, <4>1 DEF HandShaped, Column
    <3> QED
      BY <2>2, <3>1, <3>2, <3>3
  <2> QED
    BY <2>3 DEF Held, k
<1>4. DOMAIN work' = Workers /\ DOMAIN photo' = Photos /\ billed' = billed
  BY DEF Pass
<1> QED
  BY <1>2, <1>3, <1>4, RowsCount

\* A lot reserved is in hand for what its rows say.
LEMMA ReserveCounts ==
  ASSUME CountInv, NEW w \in Workers, Reserve(w)
  PROVE  CountInv'
<1> DEFINE due == Candidates(work[w].skips)
           mine == {q \in due : PhotoCave[q] = PhotoCave[Min(due)]}
           lot == Oldest(mine, BatchSize)
           held == [q \in lot |-> [attempts |-> photo[q].attempts, cost |-> photo[q].cost]]
<1>1. /\ DOMAIN photo = Photos /\ DOMAIN work = Workers /\ \A q \in Photos : "cost" \in DOMAIN photo[q]
      /\ HandShaped(work[w])
  BY DEF CountInv, Shaped, HandsShaped, Column
<1>2. due \in SUBSET Photos
  BY DEF Candidates
<1>3. CASE due = {}
  <2>1. work' = [work EXCEPT ![w] = At("rest")] /\ photo' = photo /\ billed' = billed
    BY <1>3 DEF Reserve
  <2> QED
    BY <2>1, BeginsEmpty
<1>4. CASE due # {}
  <2>1. Min(due) \in due
    BY <1>2, <1>4, PhotoSets
  <2>2. mine \in SUBSET Photos /\ mine # {}
    BY <1>2, <2>1
  <2>3. lot \subseteq Photos /\ lot # {}
    <3>1. BatchSize \in Nat \ {0}
      BY EntryQueueAssumption
    <3> HIDE DEF mine
    <3> QED
      BY <2>2, <3>1, OldestAreFew
  <2>4. /\ photo' = [q \in Photos |-> IF q \in lot THEN [photo[q] EXCEPT !.status = "PROCESSING", !.due = Reservation] ELSE photo[q]]
        /\ work' = [work EXCEPT ![w].phase = "budget", ![w].lot = held] /\ billed' = billed
    BY <1>4 DEF Reserve
  <2>5. DOMAIN held = lot /\ \A q \in lot : DOMAIN held[q] = {"attempts", "cost"} /\ held[q].cost = photo[q].cost
    OBVIOUS
  <2> HIDE DEF due, mine, lot, held
  <2>6. DOMAIN photo' = Photos /\ \A q \in Photos : DOMAIN photo'[q] = DOMAIN photo[q] /\ photo'[q].cost = photo[q].cost
    BY <1>1, <2>4
  <2>7. /\ DOMAIN work' = Workers /\ \A v \in Workers \ {w} : work'[v] = work[v]
        /\ work'[w] = [work[w] EXCEPT !.phase = "budget", !.lot = held]
    BY <1>1, <2>4
  <2>8. /\ work'[w].lot = held /\ work'[w].phase = "budget" /\ work'[w].verdict = work[w].verdict
        /\ work'[w].next = work[w].next /\ DOMAIN work'[w] = DOMAIN work[w]
    BY <1>1, <2>7 DEF HandShaped, Column
  <2>9. work[w].phase = "reserve"
    BY DEF Reserve
  <2>10. HandShaped(work'[w])
    BY <1>1, <2>3, <2>5, <2>8, <2>9 DEF HandShaped, Column
  <2>11. ASSUME NEW v \in Workers
         PROVE  /\ HandShaped(work'[v])
                /\ \A q \in DOMAIN work'[v].lot :
                     \/ q \in Held(v) /\ work'[v].lot[q].cost = work[v].lot[q].cost
                     \/ q \in Photos /\ work'[v].lot[q].cost = photo[q].cost
    <3>1. CASE v = w
      BY <2>3, <2>5, <2>8, <2>10, <3>1
    <3>2. CASE v # w
      BY <2>7, <3>2 DEF CountInv, HandsShaped, Held
    <3> QED
      BY <3>1, <3>2
  <2> QED
    BY <2>4, <2>6, <2>7, <2>11, RowsCount
<1> QED
  BY <1>3, <1>4

\* A verdict written puts in the row what the hand says.
LEMMA WriteCounts ==
  ASSUME CountInv, NEW w \in Workers, Write(w)
  PROVE  CountInv'
<1> DEFINE p == Min(DOMAIN work[w].verdict)
           lot == Without(work[w].lot, p)
           verdict == Without(work[w].verdict, p)
           on == Onward(w, lot, verdict)
<1>1. /\ DOMAIN photo = Photos /\ DOMAIN work = Workers /\ \A q \in Photos : "cost" \in DOMAIN photo[q]
      /\ HandShaped(work[w])
  BY DEF CountInv, Shaped, HandsShaped, Column
<1>2. p \in Held(w) /\ p \in Photos
  BY InHand DEF Write
<1>3. /\ photo' = [photo EXCEPT ![p] = Verdict(w, p)]
      /\ work' = [work EXCEPT ![w].phase = on, ![w].lot = lot, ![w].verdict = verdict]
      /\ billed' = billed
  BY DEF Write
<1>4. DOMAIN Verdict(w, p) = DOMAIN photo[p] /\ Verdict(w, p).cost = work[w].lot[p].cost
  <2> DEFINE held == work[w].lot[p]
             row == [photo[p] EXCEPT !.cost = held.cost, !.due = NoTime]
             v == work[w].verdict[p]
             late(delay) == Left(delay, work[w].elapsed)
  <2>1. DOMAIN row = DOMAIN photo[p] /\ row.cost = held.cost /\ "cost" \in DOMAIN row
    BY <1>1, <1>2
  <2>2. v \in Verdicts
    BY <1>1, InHand DEF HandShaped, Write
  <2> DEFINE r == Verdict(w, p)
             n == held.attempts + 1
  <2>3. r = CASE v = "read"       -> [row EXCEPT !.status = "DONE"]
              [] v = "unreadable" -> [row EXCEPT !.status = "FAILED"]
              [] v = "wait"       -> [row EXCEPT !.status = "PENDING", !.due = late(MaxDelay)]
              [] v = "pause"      -> [row EXCEPT !.status = "PENDING", !.due = work[w].until]
              [] v = "retry"      -> IF n >= MaxAttempts
                                     THEN [row EXCEPT !.status = "FAILED", !.attempts = n]
                                     ELSE [row EXCEPT !.status = "PENDING", !.attempts = n, !.due = late(Backoff(n))]
    BY DEF Verdict
  <2> HIDE DEF v, row, held, r
  <2>4. \/ r = [row EXCEPT !.status = "DONE"] \/ r = [row EXCEPT !.status = "FAILED"]
        \/ \E d : r = [row EXCEPT !.status = "PENDING", !.due = d]
        \/ r = [row EXCEPT !.status = "FAILED", !.attempts = n]
        \/ \E d : r = [row EXCEPT !.status = "PENDING", !.attempts = n, !.due = d]
    BY <2>2, <2>3 DEF Verdicts
  <2> HIDE DEF n
  <2>5. DOMAIN r = DOMAIN row /\ r.cost = row.cost
    BY <2>1, <2>4
  <2> QED
    BY <2>1, <2>5 DEF r, held
<1>5. DOMAIN lot = Held(w) \ {p} /\ \A q \in DOMAIN lot : lot[q] = work[w].lot[q]
  BY DEF Without, Held
<1>6. DOMAIN verdict = DOMAIN work[w].verdict \ {p} /\ \A q \in DOMAIN verdict : verdict[q] = work[w].verdict[q]
  BY DEF Without
<1>7. on \in {"write", "rest", "scan", "ask"} /\ (on = "write" <=> DOMAIN verdict # {}) /\ (on = "ask" => DOMAIN lot # {})
  BY <1>1 DEF Onward, HandShaped
<1> HIDE DEF p, lot, verdict, on
<1>8. /\ DOMAIN work' = Workers /\ \A v \in Workers \ {w} : work'[v] = work[v]
      /\ work'[w] = [work[w] EXCEPT !.phase = on, !.lot = lot, !.verdict = verdict]
  BY <1>1, <1>3
<1>9. /\ work'[w].lot = lot /\ work'[w].phase = on /\ work'[w].verdict = verdict
      /\ work'[w].next = work[w].next /\ DOMAIN work'[w] = DOMAIN work[w]
  BY <1>1, <1>8 DEF HandShaped, Column
<1>10. HandShaped(work'[w])
  <2>1. DOMAIN verdict \subseteq DOMAIN lot /\ \A q \in DOMAIN lot : q \in Photos /\ Column(lot[q], {"cost"})
    BY <1>1, <1>5, <1>6 DEF HandShaped, Held
  <2>2. on = "write" => DOMAIN lot # {}
    BY <2>1, <1>7
  <2> QED
    BY <1>1, <1>6, <1>7, <1>9, <2>1, <2>2 DEF HandShaped, Column
<1>11. HandsShaped'
  BY <1>8, <1>10 DEF CountInv, HandsShaped
<1>12. Shaped'
  BY <1>1, <1>3, <1>4, <1>8 DEF Shaped, Column
<1>13. CostsPass
  <2>1. \A q \in Photos : \/ photo'[q].cost = photo[q].cost
                         \/ \E v \in Workers : q \in Held(v) /\ photo'[q].cost = work[v].lot[q].cost
    BY <1>1, <1>2, <1>3, <1>4
  <2>2. \A v \in Workers : \A q \in DOMAIN work'[v].lot : q \in Held(v) /\ work'[v].lot[q].cost = work[v].lot[q].cost
    BY <1>5, <1>8, <1>9 DEF Held
  <2> QED
    BY <2>1, <2>2 DEF CostsPass
<1> QED
  BY <1>3, <1>11, <1>12, <1>13, PassedOn DEF CountInv

\* The shares of a call come to no more than the call.
LEMMA SharesFit ==
  ASSUME NEW S \in SUBSET Photos, S # {}, NEW total \in Nat
  PROVE  LET add == [p \in Photos |-> IF p \in S THEN Share(total, S)[p] ELSE 0]
         IN  add \in [Photos -> Nat] /\ SumOf(add, Photos) <= total
<1> DEFINE n == Cardinality(S)
           quotient == total \div n
           rest == total % n
           first == Oldest(S, rest)
           even == [p \in Photos |-> IF p \in S THEN quotient ELSE 0]
           ones == [p \in Photos |-> IF p \in first THEN 1 ELSE 0]
           add == [p \in Photos |-> IF p \in S THEN Share(total, S)[p] ELSE 0]
<1>1. n \in Nat \ {0}
  BY PhotoSets
<1>2. quotient \in Nat /\ rest \in 0..(n - 1) /\ quotient * n + rest = total
  <2> HIDE DEF n
  <2> QED
    BY <1>1
<1>3. first \subseteq S /\ Cardinality(first) <= rest
  <2>1. CASE rest = 0
    <3>1. \A p \in S : Cardinality({q \in S : q < p}) \in Nat
      <4>1. \A p \in S : {q \in S : q < p} \in SUBSET Photos
        OBVIOUS
      <4> QED
        BY <4>1, PhotoSets
    <3> HIDE DEF rest
    <3>2. Oldest(S, rest) = {}
      BY <2>1, <3>1 DEF Oldest
    <3> QED
      BY <2>1, <3>2, FS_EmptySet
  <2>2. CASE rest # 0
    <3> HIDE DEF rest, n
    <3>1. rest \in Nat \ {0}
      BY <1>1, <1>2, <2>2
    <3> QED
      BY <3>1, OldestAreFew
  <2> QED
    BY <2>1, <2>2
<1>4. \A p \in Photos : add[p] = even[p] + ones[p]
  <2> SUFFICES ASSUME NEW p \in Photos PROVE add[p] = even[p] + ones[p]
    OBVIOUS
  <2>1. first = {q \in S : Cardinality({r \in S : r < q}) < rest}
    BY DEF Oldest
  <2>2. Share(total, S) = [q \in S |-> quotient + IF Cardinality({r \in S : r < q}) < rest THEN 1 ELSE 0]
    BY DEF Share
  <2> DEFINE before == Cardinality({r \in S : r < p})
  <2>3. p \in S => Share(total, S)[p] = quotient + IF before < rest THEN 1 ELSE 0
    BY <2>2
  <2>4. p \in first <=> p \in S /\ before < rest
    BY <2>1
  <2> HIDE DEF before, rest, quotient, first
  <2> QED
    BY <1>2, <2>3, <2>4
<1> HIDE DEF quotient, rest, first
<1>5. \A p \in Photos : even[p] \in Nat /\ ones[p] \in Nat
  BY <1>2
<1>6. SumOf(even, Photos) <= quotient * n
  <2>1. \A p \in Photos : even[p] \in Int /\ even[p] <= IF p \in S THEN quotient ELSE 0
    BY <1>2
  <2> HIDE DEF even
  <2> QED
    BY <1>2, <2>1, PhotosFinite, SumWithin
<1>7. SumOf(ones, Photos) <= 1 * Cardinality(first)
  <2>1. \A p \in Photos : ones[p] \in Int /\ ones[p] <= IF p \in first THEN 1 ELSE 0
    OBVIOUS
  <2>2. first \subseteq Photos
    BY <1>3
  <2> HIDE DEF ones
  <2> QED
    BY <2>1, <2>2, PhotosFinite, SumWithin
<1> HIDE DEF even, ones
<1>8. \A p \in Photos : add[p] \in Nat
  BY <1>4, <1>5
<1>9. add \in [Photos -> Nat]
  BY <1>8
<1> HIDE DEF add
<1>10. SumOf(add, Photos) = SumOf(even, Photos) + SumOf(ones, Photos)
  BY <1>4, <1>5, PhotosFinite, SumPlus
<1>11. SumOf(even, Photos) \in Nat /\ SumOf(ones, Photos) \in Nat /\ Cardinality(first) \in Nat
  <2>1. first \in SUBSET Photos
    BY <1>3
  <2> QED
    BY <2>1, <1>5, PhotosFinite, SumNat, PhotoSets
<1> DEFINE m == quotient * n
           a == SumOf(even, Photos)
           b == SumOf(ones, Photos)
           f == Cardinality(first)
<1>12. m \in Int /\ m + rest = total /\ a <= m /\ b <= f /\ f <= rest /\ a \in Nat /\ b \in Nat /\ f \in Nat /\ rest \in Int
  <2> HIDE DEF n
  <2> QED
    BY <1>1, <1>2, <1>3, <1>6, <1>7, <1>11
<1> HIDE DEF m, a, b, f
<1>13. a + b <= total
  BY <1>12
<1>14. SumOf(add, Photos) <= total
  BY <1>10, <1>13 DEF a, b
<1> QED
  BY <1>9, <1>14 DEF add

\* A call answered: each photo asked for owes its share of it, though others read it too.
LEMMA AnswerCounts ==
  ASSUME CountInv, NEW w \in Workers, Answered(w) \/ Mismatch(w)
  PROVE  CountInv'
<1> DEFINE S == Asked(w)
           lot == Spent(work[w].lot, S)
           add == [p \in Photos |-> IF p \in S THEN Share(CallCost, S)[p] ELSE 0]
<1>1. /\ work[w].phase = "called" /\ photo' = photo /\ billed' = billed + CallCost /\ CallCost \in Nat
  BY EntryQueueAssumption DEF Answered, Mismatch, Called, Bill
<1>2. /\ S \in SUBSET Held(w) /\ S # {} /\ Held(w) \in SUBSET Photos /\ HandShaped(work[w])
      /\ DOMAIN work = Workers /\ billed \in Nat
  BY <1>1, InHand
<1>3. DOMAIN work[w].verdict = {} /\ Held(w) # {}
  BY <1>1, <1>2 DEF HandShaped
<1>4. add \in [Photos -> Nat] /\ SumOf(add, Photos) <= CallCost
  BY <1>1, <1>2, SharesFit
<1>5. DOMAIN lot = Held(w)
  BY DEF Spent, Held
<1>6. ASSUME NEW p \in Held(w)
      PROVE  Column(lot[p], {"cost"}) /\ lot[p].cost = work[w].lot[p].cost + add[p]
  <2> DEFINE h == work[w].lot[p]
             s == Share(CallCost, S)[p]
  <2>1. lot[p] = IF p \in S THEN [h EXCEPT !.cost = h.cost + s] ELSE h
    BY DEF Spent, Held
  <2>2. p \in Photos /\ add[p] = IF p \in S THEN s ELSE 0
    BY <1>2
  <2>3. "cost" \in DOMAIN h /\ h.cost \in Int
    BY <1>2 DEF CountInv, Owed, HandShaped, Column, Held
  <2> HIDE DEF h, s, lot, add
  <2>4. Column(lot[p], {"cost"}) /\ lot[p].cost = h.cost + add[p]
    <3>1. CASE p \in S
      BY <2>1, <2>2, <2>3, <3>1 DEF Column
    <3>2. CASE p \notin S
      BY <2>1, <2>2, <2>3, <3>2 DEF Column
    <3> QED
      BY <3>1, <3>2
  <2> QED
    BY <2>4 DEF h
<1>7. PICK k : /\ work' = [work EXCEPT ![w] = k] /\ k.lot = lot /\ Column(k, {"phase", "lot", "verdict", "next"})
               /\ k.phase \in {"ask", "write"} /\ (k.phase = "write" <=> DOMAIN k.verdict # {}) /\ DOMAIN k.verdict \subseteq Held(w)
               /\ (\A p \in DOMAIN k.verdict : k.verdict[p] \in Verdicts) /\ k.next \in {"rest", "scan", "ask"}
  <2> DEFINE m == work[w]
             yes == TRUE
  <2>1. Column(m, {"phase", "lot", "verdict", "next"}) /\ DOMAIN m.verdict = {} /\ m.next \in {"rest", "scan", "ask"}
    BY <1>2, <1>3 DEF HandShaped
  <2>2. CASE Mismatch(w)
    <3>1. work' = [work EXCEPT ![w] = [m EXCEPT !.phase = "ask", !.mixed = yes, !.lot = lot]]
      BY <1>2, <2>2 DEF Mismatch
    <3> DEFINE k == [m EXCEPT !.phase = "ask", !.mixed = yes, !.lot = lot]
    <3> HIDE DEF m, yes, lot
    <3>2. k.lot = lot /\ k.phase = "ask" /\ k.verdict = m.verdict /\ k.next = m.next /\ DOMAIN k = DOMAIN m
      BY <2>1 DEF Column
    <3>3. work' = [work EXCEPT ![w] = k]
      BY <3>1
    <3> HIDE DEF k
    <3>4. Column(k, {"phase", "lot", "verdict", "next"}) /\ DOMAIN k.verdict = {}
      BY <2>1, <3>2 DEF Column
    <3> QED
      BY <2>1, <3>2, <3>3, <3>4
  <2>3. CASE Answered(w)
    <3>1. PICK bad : work' = [work EXCEPT ![w].phase = "write", ![w].next = "ask", ![w].lot = Spent(@, S),
                                        ![w].verdict = [p \in S |-> IF p \in bad THEN "unreadable" ELSE "read"]]
      BY <2>3 DEF Answered
    <3> DEFINE g == [p \in S |-> IF p \in bad THEN "unreadable" ELSE "read"]
               k == [m EXCEPT !.phase = "write", !.next = "ask", !.lot = lot, !.verdict = g]
    <3>2. DOMAIN g = S /\ \A p \in DOMAIN g : g[p] \in Verdicts
      BY DEF Verdicts
    <3>3. work' = [work EXCEPT ![w] = [m EXCEPT !.phase = "write", !.next = "ask", !.lot = lot, !.verdict = g]]
      BY <1>2, <3>1
    <3> HIDE DEF m, lot, g
    <3>4. k.lot = lot /\ k.phase = "write" /\ k.verdict = g /\ k.next = "ask" /\ DOMAIN k = DOMAIN m
      BY <2>1 DEF Column
    <3>5. work' = [work EXCEPT ![w] = k]
      BY <3>3
    <3> HIDE DEF k
    <3>6. Column(k, {"phase", "lot", "verdict", "next"})
      BY <2>1, <3>4 DEF Column
    <3> QED
      BY <1>2, <3>2, <3>4, <3>5, <3>6
  <2> QED
    BY <2>2, <2>3
<1> HIDE DEF lot, add, S
<1>8. work'[w] = k /\ DOMAIN work' = Workers /\ \A v \in Workers \ {w} : work'[v] = work[v]
  BY <1>2, <1>7
<1>9. HandShaped(k)
  BY <1>2, <1>3, <1>5, <1>6, <1>7 DEF HandShaped
<1>10. HandsShaped' /\ Shaped'
  BY <1>1, <1>8, <1>9 DEF CountInv, HandsShaped, Shaped
<1>11. PICK c : Owed(c)
  BY DEF CountInv
<1>12. PICK d \in [Photos -> Nat] :
         \A p \in Photos : d[p] = c[p] + add[p] /\ c[p] \in Nat /\ add[p] \in Nat /\ d[p] \in Nat
  <2> DEFINE e == [p \in Photos |-> c[p] + add[p]]
  <2>1. \A p \in Photos : e[p] = c[p] + add[p] /\ c[p] \in Nat /\ add[p] \in Nat /\ e[p] \in Nat
    BY <1>4, <1>11 DEF Owed
  <2>2. e \in [Photos -> Nat]
    BY <2>1
  <2> QED
    BY <2>1, <2>2
<1>13. SumOf(d, Photos) <= billed'
  <2>1. SumOf(d, Photos) = SumOf(c, Photos) + SumOf(add, Photos)
    BY <1>12, PhotosFinite, SumPlus
  <2>2. SumOf(c, Photos) \in Int /\ SumOf(add, Photos) \in Int
    BY <1>12, PhotosFinite, SumInt
  <2>3. SumOf(c, Photos) <= billed
    BY <1>11 DEF Owed
  <2> QED
    BY <1>1, <1>2, <1>4, <2>1, <2>2, <2>3
<1>14. \A p \in Photos : photo'[p].cost \in 0..d[p]
  BY <1>1, <1>11, <1>12 DEF Owed
<1>15. ASSUME NEW v \in Workers, NEW p \in DOMAIN work'[v].lot
       PROVE  work'[v].lot[p].cost \in 0..d[p]
  <2>1. CASE v = w
    <3>1. p \in Held(w) /\ p \in Photos /\ work'[v].lot[p].cost = work[w].lot[p].cost + add[p]
      BY <1>2, <1>5, <1>6, <1>7, <1>8, <1>15, <2>1
    <3>2. work[w].lot[p].cost \in 0..c[p]
      BY <1>11, <3>1 DEF Owed
    <3> QED
      BY <1>12, <3>1, <3>2
  <2>2. CASE v # w
    <3>1. p \in Held(v) /\ work'[v].lot[p].cost = work[v].lot[p].cost /\ p \in Photos
      BY <1>8, <2>2, InHand DEF Held
    <3>2. work[v].lot[p].cost \in 0..c[p]
      BY <1>11, <3>1 DEF Owed
    <3> QED
      BY <1>12, <3>1, <3>2
  <2> QED
    BY <2>1, <2>2
<1>16. Owed(d)'
  BY <1>13, <1>14, <1>15 DEF Owed, Held
<1>17. billed' \in Nat
  BY <1>1, <1>2
<1> QED
  BY <1>10, <1>16, <1>17 DEF CountInv

\* At first nothing is owed.
LEMMA CountInit == Init => CountInv
<1> SUFFICES ASSUME Init PROVE CountInv
  OBVIOUS
<1> DEFINE c == [p \in Photos |-> 0]
<1>1. billed = 0 /\ billed \in Nat
  BY DEF Init, NothingYet
<1>2. Shaped /\ \A p \in Photos : photo[p].cost = 0
  BY DEF Init, NothingYet, Shaped, Column
<1>3. \A w \in Workers : HandShaped(work[w]) /\ Held(w) = {}
  <2>1. HandShaped(At("idle")) /\ DOMAIN At("idle").lot = {}
    BY DEF HandShaped, At, Column, NoPhotos
  <2> QED
    BY <2>1 DEF Init, Held
<1>4. c \in [Photos -> Nat] /\ \A p \in Photos : c[p] = 0
  OBVIOUS
<1> HIDE DEF c
<1>5. SumOf(c, Photos) <= billed
  <2>1. \A p \in Photos : c[p] \in Int /\ c[p] <= IF p \in {} THEN 0 ELSE 0
    BY <1>4
  <2>2. SumOf(c, Photos) <= 0 * Cardinality({})
    BY <2>1, PhotosFinite, SumWithin, Zenon
  <2>3. SumOf(c, Photos) \in Int /\ Cardinality({}) = 0
    BY <2>1, PhotosFinite, SumInt, FS_EmptySet
  <2> QED
    BY <1>1, <2>2, <2>3
<1>6. Owed(c)
  BY <1>2, <1>3, <1>4, <1>5 DEF Owed
<1> QED
  BY <1>1, <1>2, <1>3, <1>6 DEF CountInv, HandsShaped

\* Every step keeps to what is owed.
LEMMA CountStep == CountInv /\ [Next]_vars => CountInv'
<1> SUFFICES ASSUME CountInv, [Next]_vars PROVE CountInv'
  OBVIOUS
<1>1. ASSUME NEW p \in Photos, Upload(p) \/ Dismiss(p) PROVE CountInv'
  BY <1>1, ApiCounts
<1>2. ASSUME NEW w \in Workers, Step(w) PROVE CountInv'
  <2>1. CASE Tick(w)
    BY <2>1, TickCounts
  <2>2. CASE Reserve(w)
    BY <2>2, ReserveCounts
  <2>3. CASE Write(w)
    BY <2>3, WriteCounts
  <2>4. CASE Answered(w) \/ Mismatch(w)
    BY <2>4, AnswerCounts
  <2>5. CASE Scan(w) \/ Budget(w) \/ Files(w) \/ Ask(w) \/ PutOff(w) \/ Invalid(w) \/ Rejected(w) \/ Fails(w)
             \/ Refused(w) \/ Restart(w)
    BY <2>5, MemoryCounts
  <2> QED
    BY <1>2, <2>1, <2>2, <2>3, <2>4, <2>5 DEF Step
<1>3. ASSUME NEW w \in Workers, GiveUp(w) \/ WriteFails(w) \/ AskUnread(w) \/ Crash(w) PROVE CountInv'
  BY <1>3, MemoryCounts
<1>4. CASE Pass
  BY <1>4, PassCounts
<1>5. CASE Environment \/ UNCHANGED vars
  <2>1. photo' = photo /\ work' = work /\ billed' = billed
    BY <1>5 DEF Environment, vars
  <2> QED
    BY <2>1 DEF CountInv, Shaped, HandsShaped, Owed, Held
<1> QED
  BY <1>1, <1>2, <1>3, <1>4, <1>5 DEF Next

\* No more is counted than Gemini billed, in any lot and after any mishap, for however many
\* workers, two that read the same photo included (splitCostExact, entry-batch.ts).
THEOREM NothingIsCountedTwice == Spec => []NeverOvercounted
<1>1. CountInv /\ [Next]_vars => CountInv'
  BY CountStep
<1> QED
  BY <1>1, CountInit, OwedCounted, PTL DEF Spec

=============================================================================
