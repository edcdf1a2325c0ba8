# Cave à vin: a TLA+ model of its core

The repository is a wine-cellar application: a NestJS api, a worker process, PostgreSQL
through Prisma, Redis for one job queue, and a React web application that works offline.
Users photograph bottles; Gemini reads the photos; bottles are entered, moved, counted and
taken out; and texts (pairings, producer profiles) are generated in the background.

This directory models what several actors read and write at once, on both sides of the
network: the journal and the zones of a cellar, the queues the worker empties, the budget they
share, photos and their files, accounts, reference images, the plan, and the pages and the
offline queue of the phones. TLC checks small instances; the TLA+ proof system proves
every safety property the passing runs check, and a refinement, for every value of the constants.

Paths below are relative to `api/src/` unless they start with `web/` (for `src/web/src/`) or
`prisma/`.

## 1. Inventory

### What runs, and what it shares

| Process | What it does |
|---|---|
| api (`main.ts`) | HTTP handlers. Any number of requests interleave: every `await` is a point where others may run. |
| worker (`worker.ts`) | a BullMQ consumer for exit photos (concurrency 5), a drained legacy consumer, and three loops, one tick at a time each, every 15 s: entry photos, pairings, producer profiles. |
| web (`web/src`) | several tabs of several devices; photos wait in IndexedDB while offline and are sent in the background. |

PostgreSQL is shared by all; the transactions, row locks, unique indexes and one trigger of the
database are nearly all the synchronisation there is (READ COMMITTED). Files under the photo
directories and the candidates of a search are shared without any lock but the rows'.

### Components

| Component | State | Hard | Correct when |
|---|---|---|---|
| Movements and journal (`movements/`) | append-only `movement` rows | each handler reads, then writes in one transaction; double taps, lost answers, keys sent twice | stock never negative; cancellations exact and unique; moves whole; answers true; cellars apart |
| Zones and locations (`zones/`, `locations/`) | `cave_zone`, `location` | a movement checked before a zone is removed, written after | no bottle out of sight; history keeps its places; active names distinct |
| Entry reading queue (`queue/entry-batch*`) | `photo` rows are the queue | crashes, reservations that run out, two workers, costs split and added | attempts run out; verdicts final; no photo in two hands, none forgotten, no cent twice |
| Generation queues (`pairing/`, `producers/`) | `pairing`, `producer_profile` | regenerate and edit while a call is on its way | nothing stale is written; given up at the attempts or the age; none forgotten |
| Pause and budget (`vision/gemini-pause`, `queue/vision-budget`) | one setting; sums over recorded costs | looked at before a call, written after it | the cap is passed by the calls in flight and no more |
| Exit reading job (`queue/extraction.processor`, `orphan-recovery`) | BullMQ job beside the row | unconditional late writes; recovery beside the consumer | an exit photo is read, failed or taken back |
| Photo intake (`photos/`) | rows, two files each | two files, a row, a job, and the undoing of each, any of which fails; two uploads of one image | a row's files are there; a file without a row is of an upload in progress or cut short |
| Accounts and membership (`auth/`, `caves/`, `admin/`) | `app_user`, `cave`, `cave_member` | sign-ins write back what they read; invitations cross creations | owners and rows agree; somebody administers; a decision stands |
| Reference images (`image-search/`) | rows, files, candidates | a file moved before its row is written, replaced by others meanwhile | what a wine shows exists; what the user took is remembered |
| Plan and zone photos (`zones/plan.service`) | one file per record | erased in a second transaction | file and row agree |
| Vision provider (`vision/gemini-vision.provider`) | the journal `gemini_call` | answers shorter, longer or out of order | each answer to its element; each cent counted once |
| Views (`cave/`, `stats/`, `export/`, `apogee/`) | none: recomputed | five computations of one stock | they agree |
| Wine matching, windows, exit ranking (`wines/`, `apogee/`) | `wine`, `guard_override` | find, then create | one card; nobody fails; an exit is confirmed alone only when it is sure |
| Offline queue and sender (`web/lib/`) | IndexedDB, one cookie, a flight per tab | tabs and sessions that change | nothing lost; own cellar; the queue empties |
| Pages (`web/pages/`) | what each shows, and the keys it sends | answers late, lost, older than a decision | one key per intention; what is shown is true |

`PROJECT.json` lists every component with its status, and under `hazards` each place where an
order of events could break something, with the property that watches it.

## 2. Plan

1. Journal, zones, their run and `MovementsProofs`: done.
2. Entry queue, generation queues with their refinement and liveness: done.
3. Exit job and intake, budget, provider, accounts, files, views, phones: done.
4. Proofs of the safety properties, those that compare sums and sorted lists included, and the
   refinement of `GenerationPromise`: done (section 6).
5. The lock programs of the journal's transactions (which rows in which order), to justify the
   one-step `Commit` of `Movements` and to look for deadlocks: an entry locks the location before
   the wine, the others the wine first.

## 3. How the modules correspond to the code

### Zones, Journal, Movements

`Zones` holds `zoneState`, `zoneName` (table `cave_zone`) and `rows` (table `location`; a place is
its cellar, zone and spot, which is the unique index of the table). `Journal` holds the set
`journal` and its two running sums, `total` and `stock`, which the code computes with SUM: the
proofs show they are exactly changed by each movement. `Movements` holds one record per handler
(`call`): the request, how far it is, what its first reads concluded and what it answered.

| Action | Code |
|---|---|
| `Check` (`CheckIn` … `CheckMove`) | a request arrives (`Requests` are what the api's schemas accept), and everything the handler reads before its transaction, and the answers it gives without one (replay, 404, 409) |
| `Commit` (`CommitIn` … `CommitMove`) | the transaction: locations resolved, zones locked and reopened, `assertEnoughAt`, the inserts, the trigger, the unique indexes; all or nothing |
| `Reread` | what the handler does after a unique violation |
| `Deliver`, `Abandon` | the client has its answer and the handler is free again, or the api stops with the request |
| `ZoneStep` | `ZonesService.create`, `update`, `remove`, in their own transactions |

*Why `Commit` is one step.* Transactions that change the stock of a wine take the row lock of the
wine (`FOR UPDATE`, in the trigger at the latest), and those that put bottles in a zone take the
lock of the zone that `remove` and `update` also take; what a transaction reads before the locks it
relies on is read again under them (`reopenZoneOf`, `assertEnoughAt`). Two transactions that do not
meet on a lock touch different rows.

*Why `Check` is one step.* Its reads are of the append-only journal and each handler acts on their
conjunction only by going on to its transaction, which decides again under locks and indexes; a
state seen by parts is weaker evidence than one of the states it was seen in.

*Abstractions.* The wine of an entry is given (`SharedRows` has its creation). A key is always given
(without one, nothing can collide). The place of an old client that names none is any place the
code's default (`exitDefault`) may pick; `CellarViews` has that default. Notes, prices and dates are
left out. The number of keys bounds the journal.

### Gemini and EntryQueue

`photo[p]` is the row of a photo: status, whether it was dismissed, its age and attempts, `due`
(time until `next_attempt_at`), the recorded cost. `work[w]` is what a worker process holds: the
phase of its tick, the lot, the verdicts still to write, the cellars skipped, and for how long the
call and the tick have lasted. `billed` is what Gemini has charged for a photo, a quantity no
table holds, against which the recorded costs are checked.

The actions follow the tick: `Tick` (`reclaimExpired`, then the pause), `Scan` (`shouldRun`),
`Reserve` (SKIP LOCKED), `Budget` (cap, share and the next cellar), `Files`, `Ask` or `PutOff`,
then the outcome of the call (`Answered`, `Mismatch`, `Rejected`, `Fails`, `Refused`), `Alone` and
`Invalid` for the photos read one by one, and `Write`, one row per step, with `WriteFails` for
`runBatch`'s catch, which settles again whatever has not been settled. `Upload` and `Dismiss` are
the api, `Crash` and `Restart` the process.

*Time* is counted in minutes left before something, so that states repeat. `Pass` is one minute
for everybody: it needs every worker to be down, to have ticked within the minute (`rest`), or to
wait for Gemini, never longer than the call's timeout. Steps between two calls take no time; a
15-second interval is what makes a worker tick at least once a minute.

### GenerationPromise and GenerationQueue

`GenerationQueue` follows the same pattern, its unit of time being the interval between two ticks. A
reservation is its owner and the time left; `reserved_until`, a time in milliseconds taken from the
tick, tells two reservations apart in the code, and `Stands` is the condition every write of a
worker carries. `asked` and `answered` count, for the properties only, how often a text was asked
for and which of these requests the text answers. `Late` are the requests made since a tick began,
which its `requestedAt <= now` does not see. `Renew` is the regeneration of pairings, one write;
`RenewRead` and `RenewWrite` are that of producer profiles, whose source is read before. Pairings are
the instance with no `Editable` text and no `Deserted` producer. `Seen` is SKIP LOCKED: rows another
worker's reservation has locked are skipped.

`GenerationPromise` is what users are promised: a request is waiting until it is served or given up,
once; what is served was generated since the last request; a manual text stays until someone asks.
`KeepsItsPromise` says that the queue implements it under the mapping `wishes`.

### Photos and ExitReading

`Photos` follows one upload request through its writes (`WriteFile` twice, `Create`, the job) and the
undoing of each, `Reclaim` (an exit photo taken back for an entry), `DismissRead` and `DismissWrite`.
Any of these steps may fail (`StepFails`: a query, a write, perhaps with its file begun, an unlink): the handler throws where it stands
and undoes nothing, since only a unique violation (`photos/photos.service.ts:73`) and a job that could
not be queued (`:89`) are handled. The api may also stop between any two. `Withdraw` removes the row of a photo whose job could not be
queued; the foreign key is ON DELETE SET NULL, so a movement that referred to it stays without a photo
(`used` loses it). A photo is named by the upload that would create it; `disk` is the set of files. `ExitReading` adds the BullMQ job: `Take` is an attempt, `Mark`,
`Calling`, `Read`, `GiveUp` and `Fail` what the processor does, `Throw` and `End` what BullMQ does of it, and
`RecoverRead`/`RecoverWrite` the recovery at start, which lists photos and then fails them one by one
while the consumer works. The entry loop is one step there (`ReadByLot`); `EntryQueue` has its detail.

### Spending and VisionCalls

`Spending` has the three callers that ask before and write after: an exit photo, a lot of pairings, an
image search. A search goes through the pause, the global cap, the cellar's share, the call, the
record of its cost and, past the deadline (`OffLate`, `Abandon`), the estimate of a call given up.
`billed` and `unsaid` are histories: what Google charged and what nobody is left to write.
`VisionCalls` is one call from Google's answer to what the caller, the journal and the
administrator's report of the days of Paris get: `InPlace` is the attribution of a lot's array,
`RoundedUp` the cents, `Transient` whether it is worth another try. `Billed` is what Google charges for the
answer, kept apart from the `cost` the code counts: the two differ for a blocked answer (section 7).

### Accounts, SharedRows

`Accounts` splits a sign-in at its awaits (`read`, `new`, `counted`, `claim`, `claiming`), and an addition
of a member in two; a transaction whose statements nobody can see apart is one step. `locked` is the row
lock a claim of the cellar without owner holds. `rewound` and `crossed` are histories that name the
exceptions the code allows (section 7). `SharedRows` has the two rows that are looked for and then
created: a wine's card, with the normalisation of its key, and a window.

### ReferenceImage, CavePlan

Both follow files and rows apart: a file is put in place by a rename, a row is written in a
transaction, an old file is effaced after. In `CavePlan` the rename is inside the transaction and
under the record's lock, and a failed commit is an explicit step.

### CellarViews, ExitRanking

`ledger` is the journal as a sequence of rows. The list, the places, the statistics, the export and the
drinking windows are operators, each from its own code, and so are what they read of the quotes the
owner types (`quotes`: the current one, the link kept from an earlier one, the price after commission,
nothing for a member); a few actions grow the ledger and the quotes so that TLC meets every small
journal. What the code sorts and filters is a `Listed` or a `Those` of `Listing` (the k-th element has
k - 1 before it), because `SortSeq` and `SelectSeq` are built in and nothing can be proved of them. `NoWindow`
is the empty sequence, which is no window. `ExitRanking` scores the wines of such a stock against a reading.
Likenesses (`pg_trgm` and its copy) are given, in thousandths.

### PhotoSender, ExitScreen, InboxScreen, ConfirmScreen, FicheScreen, PlanPage

Each is one page, or the background sender, against an api whose handlers are one step (their own
interleavings are in the modules above). What a page holds is one record per visit; requests and
answers are apart, and either may be lost. `PhotoSender` has the queue all tabs share, the cookie they
share and the flight, account and timer of each. `ExitScreen` has the confirmation of an exit and its
event stream; `InboxScreen` the list that is asked for every ten seconds; `ConfirmScreen` the form a
reading fills; `FicheScreen` the forms that count and move, one in each of two sections, which may both be open; `PlanPage` the plan with its markers and
the list of zones. What a button's `disabled` allows is a guard of its own (`Ready`, `Offered`,
`Dismissable`, `Savable`, `Movable`, `Tappable`). In `FicheScreen` a form put away leaves its request on its way, and a success closes whichever
form its section has open, be it a later one (`setCounting(false)` in `web/pages/WinePage.tsx:101`, the
`onClose` of `web/components/LocationsBlock.tsx:127`): two requests that move bottles may be on their way
at once, whereas `saving` lets the page count in one at a time. `FicheScreen` and `PlanPage` suppose that a request that is lost does not arrive
later; `PhotoSender`, `ExitScreen`, `InboxScreen` and `ConfirmScreen` lose answers.

## 4. Runs

Every run is a `.cfg` for an `MC` module. Components that share nothing share a run: a behaviour is of
one scene, chosen at first, and the other variables stay as they are.

| Run | Instance | What it shows |
|---|---|---|
| `journal` | two handlers; a behaviour is about places, counts or keys (two cellars) | the nine properties of the journal and the zones |
| `lots` | two photos of one cellar: one worker deployed, with two mishaps; or two, and a reservation that outlasts the calls of a lot | attempts run out, nothing counted twice, no photo in two hands, verdicts final |
| `caves` | two cellars, budgets and pauses that come and go, one crash, fairness | no photo is forgotten |
| `generation` | two scenes, fairness: one worker and two producers, one of them without wines; or two workers and one profile asked twice and edited, one mishap | the queue implements its promise; a request given up had spent its attempts or its age; no request is forgotten |
| `uploads` | two uploads of one image, any step of which may fail, one stop of the api and one of the worker, fairness | files follow rows; a used photo keeps its purpose; an exit photo settles |
| `rows` | five scenes: thumbnail (three requests, two candidates), plan (three requests), members (two sign-ins, one addition, three requests), views (three wines, three movements and quotes together), races (two entries, two setters) | the invariants of those tables and of what is computed from them |
| `month` | one photo, one lot, one search over two months, one stop; or two calls around the end of summer time | caps, costs, reports; a search ends |
| `phone` | six scenes, two tabs, phones or visits; two forms of a wine's page, sent twice in all | the properties of the pages and of the sender |
| `secondreading`, `rewound`, `shared`, `unbilled` | the smallest instance each | section 7 |

*Why these bounds.* Every hazard here needs two actors that have both read before either writes, and
one object they share: two handlers, two workers, two tabs, or a worker and the api, over one or two
rows. The reference image and the plan have three requests because two uploads and a removal cross.
Two attempts stand for five: the first is not the last, the second is. Delays are 1 or 2 units, which
keeps the orders the code's constants have between them: a call is shorter than a reservation, a
deferral longer than the interval between two ticks. `MaxBilled`, `MaxMishaps`, `MaxAsked`,
`MaxFaults`, `MaxUpsets`, `MaxStops` bound what could repeat for ever; the `lots` run has two mishaps,
so that a worker may stop again while it recovers. `MaxLedger` (three movements and quotes) lets an entry be followed by a withdrawal
and its cancellation, or by a move or a count; a journal is played with quotes or with a typed window, for
nothing reads both but the line of the export, field by field. `MaxKeys`, `MaxVisit`, `MaxOpened`, `MaxTaps`, `MaxForms`,
`MaxSends` and `MaxSent` bound the keys a page draws and how often a request is sent: twice, so that the
second may meet the first. `MaxItems` is the code's own limit of the offline queue, brought down to two.
`MaxCount` bounds bottles at a place. `MaxRequests` counts what owners and administrators ask for; sign-ins are not
counted. `MaxCalls`, `LastTime`, `MaxMonth` end what is otherwise endless.

`MaxDelay = 2` and `RecheckDelay = 2` matter in the two liveness runs of the queues: were a deferral no
longer than the interval between two ticks, a cellar over its share, or a producer without wines, would
be back at the head at every tick and starve the others. The code's hour and six hours against ticks of
15 s exclude it.

*Deadlock* is checked in the runs of the journal and of the two queues, where something can always
happen. The others stop when every bounded request has been made: their cfg says so.

*Symmetry* is of handlers, workers, requests or sign-ins, and only in runs without liveness.

## 5. Fairness

`FairSpec` of both queues assumes weak fairness of each worker's own steps (the loop of
`entry-batch.ts` runs as long as the process does; docker-compose restarts a stopped one; a call
ends, in an answer or by its timeout) and strong fairness of `Pass` (time goes on). Nothing is
assumed of users, of Gemini's answers or of the budget: the liveness properties are conditional on
the pause and the cap being lifted for good, which the worker cannot bring about.

`ExitReading` assumes weak fairness of an upload's own handler once begun, of the job's steps (BullMQ
takes up a waiting or stalled job), of the worker's restart and of the recovery. `MCSpending` assumes it of a
search's own steps, in which the deadline is one, so that `SearchEnds` needs no answer from anybody.
`MCPhone` assumes it of each tab's sending: the 15 s timer, the request, its answer. Taking a photo,
signing in and out and closing a tab are never assumed to happen; failures are bounded, so that a
server does not put a photo off for ever.

## 6. Proofs

Eight modules hold proofs. Each theorem is for every value of the constants that satisfies the
assumptions named in the modules: that sets and functions are of the right kind, that placeholders
are not values, that bounds are numbers. None of the properties the runs check is inductive by
itself: each needs the invariant described with it, which TLC checked before it was proved (all but
`CountInv`, which says that some function exists).

**The journal** (`MovementsProofs`, `Spec` of `Movements`). `Invariance` proves `IInv`:

- `TypeOK`, and `CallsOK`: what a handler has concluded before its transaction and no later step
  undoes: its wine and its places are of its own cellar, the movement it cancels is in the journal
  and is not a cancellation (the journal only grows);
- `KeysOK`: a key names one movement, and a move has the key of a half and reverses nothing;
- `RowsOK`: the zone of a location row has not been deleted;
- `StockTraced`: a place with bottles has been named by a movement. This is what makes removing a
  zone safe: a zone no movement names is empty and may be deleted;
- `NeverNegative`, `ReversalExact`, `MovesWhole`, `NoBottleOutOfSight`, `HistoryKeepsItsPlaces`.

The argument goes by outcome. A transaction leaves the journal alone, inserts one admitted movement,
or two (a move, or the cancellation of one); one lemma for each says which conjuncts survive, given
what the transaction has established (destination reopened, enough at the place it empties, neither
unique index violated). One lemma for each operation shows that what it inserts is admitted; zone
operations have their own. `AnswersInvariance` adds `AnswersInv`: what a call found before its
transaction (the movement of its key, the photo of its cellar) is still there when it answers,
which gives `AnswersTruthful` and `NoForeignWrite`; `NamesDistinct` is proved beside it, from the
guards of every operation that creates, renames or reopens a zone.

**The entry queue** (`EntryQueueProofs`). With the code's numbers (5 min, 2 min a call, lots of 8) a lot may
outlast its reservation, and `secondreading` shows two workers reading one photo. So what can be
proved of any workers and any reservation is about the behaviours themselves: `InTime` says, of a state, that
no worker holds a photo past the end of its reservation. `NoPhotoIsReadTwice` is `Spec /\ []InTime =>
[]NoSecondReading`: a second reading has no other cause than a worker that is late, neither a crash, nor a
failure in the middle of the verdicts, nor a pause, nor SKIP LOCKED. A lot that its first call
settles is in time; one that is read again photo by photo may not be. `AttemptsOfPhotosRunOut` and
`VerdictsAreFinal` hold of the behaviours that are in time, and of all those of one worker (`OneReader`, the
deployment of `docker-compose.yml`), late or not: it reclaims nothing while it holds a lot.
`LongReservationsAreInTime` says what the reservation would have to be: longer than a timeout for the
group and one for each photo, which is more than 18 minutes. The run `lots` is of one worker, or of two
with such a reservation. `ReadInv`, the invariant of these behaviours, says that a photo in a
worker's hands is PROCESSING with the attempts it was reserved with, and that its reservation has what
the tick has not spent of it. So a row whose reservation is over is in nobody's
hands (`NoSecondReading`), and the writes, whose WHERE clause names only the id, change a row that is
still theirs (`VerdictsStand`, `AttemptsRunOut`). `NothingIsCountedTwice` has no hypothesis: two workers
may read one photo, and the later write overwrites the cost of the earlier. `CountInv` finds a share of
what was billed for each photo, such that neither its row nor any worker that holds it knows of
more. A call raises the shares by the parts it is split into, a write only copies what the worker knew.

**The generation queues** (`GenerationProofs`). Here a late write is prevented by its condition and
there is no hypothesis. `QueueInv` says that a worker whose reservation stands holds the request as
it is: asked for as often as it read, not edited since, at least as old. `PromiseKept` is the
refinement: the initial states of the queue are initial states of `GenerationPromise` under `wishes`,
and by one lemma for each action every step is one of its steps or a stutter. The proof corrected
the promise: it let one request be given up in a step, but a tick that reclaims several exhausted
reservations gives up all of them at once. `GiveUp` now takes a set.

**Exit photos** (`PhotosProofs`, `Spec` of `ExitReading`). `ExitInv` says what each phase of an upload
tells of its row and its files (`Stage`), an upload that failed or was cut short being free to leave
files of its own, that a photo of a movement has its row (removing the row takes it off the movement), and what a job has
left (`JobOK`). Hence `FilesFollowRows`, `UsedKeepsPurpose`, and a fact no run states:
`ExitsHaveTheirJob`, an exit photo that was answered for is read, failed or still has a job, on which
the liveness property `ExitSettles` rests. It depends on `LastAttempt` agreeing with what BullMQ counts.

**Sums and the budget** (`Sums`, `SpendingProofs`). The models sum with `MapThenSumSet`, a fold defined by
CHOOSE over functions on subsets. `Sums` proves what every count needs: such a function exists and is
unique, a sum may be taken from any element, follows one changed term, and is bounded by its terms.
The induction is not the library's: of the subsets for which a statement fails, take a least one
(the strict subset order of a finite set is well-founded) and remove an element of it.
`SpendingSpec` has any number of cellars, photos, wines, searches, months and stops. It assumes that these
sets are finite, that a search exists and may cost a cent, and that the share of lots and searches
is within the cap (`PAIRING_BUDGET_SHARE` is 0.8); shares of cellars are constants, though an administrator
may change them. `SearchesAreCounted`: each step of a search moves its cents from one term to another.
`LimitsPassedByCallsInFlight`: the property is not inductive, for it says nothing of calls under way.
`CapsInv` bounds what each limit may count once every call under way has ended at its dearest. A call
that begins has just seen the limit unspent, and then what may be counted exceeds what is counted by a
call for each photo, wine and search at most; every other step leaves it or lowers it. That the share
of a cellar is looked at after that of lots and searches is why the two pairs of limits count
searches from different steps. A TLC run of the scene `month` agreed with `CapsInv` before the proof.
`CallsAreAccountedFor` is of the calls themselves, of any number: `CallsInv` says that the journal has
nothing of the future and that whoever waits gets what the answer says. As many numbers as elements, and
those of the lot, are each there once (a surjection between finite sets of one size). What is counted is
what Google billed, but for a blocked answer, which the theorem names. Days of Paris are
in order because the clocks change at one o'clock of UTC, and the two hours they differ by are within
the day more that is read; so the rows kept are those of the days asked for, and `SumGroups` (a sum may
be taken group by group) makes the lines of the report add up to them. The proof found that two cases
of `Result` overlapped, which TLC, taking the first, had not shown.

**The phone** (`PhoneProofs`). `SenderInv`: what a tab has asked
is what the server has done, and a tab that is not behind a change of session sends what its own
account took. `ExitScreenInv`: a request, its answer and the exit it made are of one wine, and one
exit carries the photo. `InboxInv`: an answer on its way leaves out what the visit has decided,
because the next one was asked after. `ConfirmInv`: the draft is the pre-filled reading but for the
fields touched. `FicheInv`: a form, whether it is open, put away or closed by the answer to another, and
its requests agree on key and section. `PlanPageInv`: one request
is on its way at a time, so that the last answer is the last order. `KeysAreKept` brings `InboxSpec`
and `FicheSpec` together in the specification the run plays.

**The stores** (`StoresProofs`), each under a specification of its own with no bound on faults or
requests. `CavePlanInv`: a record's file is the one its row names until the request that holds its
lock puts another in place, and photos are unlinked only for a zone already deleted. `ReferenceInv`:
the files about to be dropped are aside from rows and from what finished requests keep, and the user's
own photos are never among them. `AccountsInv`: owners, member rows, invitations and claims agree, a
claim is alone under its lock, and administrators of the configuration come first, which is why no
sequence of sign-ins leaves nobody who administers. `SharedRowsInv`: what a request found before it lost
a race is still there, the unique keys of the database included; it assumes that an appellation's own
name resolves to it, which holds of the 145 names of `appellations.json`. `RunsPlayTheStores` shows
that the bounded specification of the run `rows` implements these four.

**The ranking of exits** (`StoresProofs`). `NoExitIsGuessed` is about one value, not about behaviours:
for every stock, every likeness in thousandths and every reading, an exit is confirmed without a choice only
when it is sure. `Ahead` is a strict total order of the likely wines, because no two have a producer and a
vintage in common, so the first of the ranking is ahead of all others and the second of all but the first.
The score of a wine of another vintage than the one read is 300 at most, too low to be likely; and two wines
that read alike are 150 apart only if the year that was read gives one a bonus or rules one out. The proof
found a reading for which the property was false as it had been written: a wine of no known vintage,
neither raised nor lowered, may be confirmed before one like it whose vintage is not the one read.
`ExitNeverGuesses` now says so.

**The screens** (`StoresProofs`, `ViewsSpec`: any bottles, places, prices, months, windows and quotes, of
any finite cellar). `ScreensShowOneCellar` proves the seven parts of `ViewsAgree`. Each is a fact about
operators in any state where `ViewsInv` holds:

- rows, quotes and windows are of their types, and a quote is of a cent at least (0 means none);
- no place of a wine holds less than nothing. Hence the places shown add up to the bottles, a wine
  without bottles is nowhere, and the filter by place finds those of the place (`SharesAddUp`,
  `ExitProposesAPlace`);
- `UndoneOnce`: a row is numbered by its rank, and a cancellation undoes an earlier row, whole and once,
  which is neither a move nor a cancellation. Without it `CancelledLeavesNoTrace` does not follow: the statistics
  of the shorter journal must count the same rows under other ranks, and the last price, taken by the
  greatest rank, must be of the same row.

`Sums` has the lemmas these need: a list in an order holds each element of its set once, the earlier one
first (`Roll`); filtering and concatenating keep that; a sum over a set is the sum of its shares. `CurrentByWine`, the
code's one pass over the quotes, is a recursive function: its value is not computed by induction but
recognised, since the function that gives for every n the newest quote of each wine among the first n
satisfies the same equations, and two that do have no least n at which they differ. The proof corrected the model in two places: a window and its
absence could be the same value, and the two rows of a move had one number. TLC checked `ViewsInv` on
the scene `views` first. `RunsPlayTheViews` shows that the run writes what `ViewsSpec` may.

*Model-checked only.* Liveness (`NoPhotoForgotten`, `NoRequestForgotten`, `ExitSettles`, `SearchEnds`,
`QueueDrains`) and what needs `ENABLED`. That a delay has the length `Backoff` gives it
(powers): `ReadInv` types rows but for that.

## 7. Where code and comments disagree, and what else was seen

Four disagreements are runs in which TLC finds a behaviour of the code that contradicts a comment
beside it.

- `secondreading`: a lot whose answer does not match is read again photo by photo under the same
  reservation; with the code's five minutes against two per call, another worker reads the same
  photos. `queue/entry-batch.ts:16-20` says it cannot.
- `rewound`: a sign-in writes back the status it read (`auth/auth.service.ts:42-49`); an administrator's
  decision taken in between is undone. An account set back to PENDING may then be validated a second
  time and gets a second cellar (`admin/admin.service.ts:49-50` means to exclude it).
- `shared`: photos chosen for one account are sent with the session of the moment
  (`web/lib/offline-queue.ts:109-113`), which may have become another's.
- `unbilled`: the text of a blocked answer cannot be read, and the cost that has just been computed is lost
  with it (`vision/gemini-vision.provider.ts:266-267`, `:305-306`). The journal counts nothing for what was
  billed, and the error, which `transient-failure.ts` does not know, has the photo read again. `:59` says
  that a photo Gemini billed must never be counted at no cost.

Others were seen while modelling. They have no run of their own; where a property of a passing run
would otherwise be false, its statement names the exception.

*Journal.* A withdrawal of the last bottle sent twice with one key is refused, although a served key is
to be replayed, lost races included: the stock trigger speaks before the unique index
(`movements/movements.service.ts:319`). `cancel` does not check that a move took its key, and an
inventory replays a cancellation that took its key as if it were the count (`:85-88`, `:398-401`), which the
comment there excludes: `AnswersTruthful` asks of an inventory that is created that it cancels nothing, and
says no such thing of one that is replayed. An inventory that confirms
what was there keeps no key: sent again after a lost answer, it puts back what others took meanwhile. A
rise chosen from an old page may be a decrease at its destination (`:417-420`).

*Queues.* A photo read alone whose answer is billed but unusable is given up at no cost
(`queue/entry-batch.processor.ts:298`). `regenerate` decides
from an earlier read whether to clear a manual text (`producers/producers.service.ts:65`), and may leave
its words as if Gemini had written them. The cost of a text is overwritten when it is generated again.
The orphan recovery may write FAILED over a photo just read (`worker.ts:51`). A photo sent again for an
entry may be acknowledged by a request that finds the row another upload then withdraws
(`photos/photos.service.ts:101-104`).

*Budget.* The photos of a month are those created in it, whenever they are read
(`queue/vision-budget.service.ts:66`). Pairings do not ask for the cellar's share (`:131-132`). A search given up after its call
left is counted at an estimate of 2 cents, which two Google queries exceed; given up before it left, the
estimate is counted all the same (`image-search/image-search.service.ts:114-119`, `:248-249`).

*Accounts.* An invitation written while the account it names is being created is left dangling
(`caves/members.service.ts:56-63`, `auth/auth.service.ts:79-84`).

*Files and rows.* An upload whose creation fails otherwise than by its unique index, whose second file
cannot be written, or whose files cannot all be removed, leaves files that no row names
(`photos/photos.service.ts:64-65`, `:74-79`, `:92-93`). A photo whose job could not be queued in time is deleted though a
movement may have been confirmed with it meanwhile, which then has no photo (`:91`). A commit that fails after the rename leaves a file its row does not name
(`zones/plan.service.ts:45-57`, `zones/zones.service.ts:30`). An update of a window fails if the window is
removed between the find and the update (`apogee/apogee-admin.service.ts:70-72`). The year that bounds a
vintage is computed once, when the module is loaded (`vision/extraction-schema.ts:14`).

*Pages.* Once an exit of a photo has been cancelled, a lost answer followed by the choice of the wine
again takes two bottles out. A late reading overwrites what the user typed
(`web/pages/EntreeConfirmationPage.tsx:111`), and `readingShown` is true of a photo that was read although
the screen typed by hand never showed the reading. A second arrow pressed before the list of zones is
read again sends the old order (`web/pages/MaCavePage.tsx:186-191`). A form sent again with other values after a lost answer is
replayed, not applied. Two tabs send the same photo twice; the api's content hash makes it harmless.
Whether two scores are exactly 0.15 apart depends on floating point, which `ExitRanking` replaces by
thousandths.

## 8. What is not modelled

- The lock orders inside a transaction of the journal (`movements/movements.service.ts:437`): two
  transactions that wait on each other are broken by PostgreSQL, which fails one of them; the models
  have no such refusal.
- The transaction of `extendPause` (one step here).
- Break-glass passwords, session cookies, rate limits, the names of cellars.
- Fetching and resizing images, what an image host may answer, the display files made on demand;
  prompts and the wording of answers; the trigram similarity and the seeding of appellations (an
  appellation's own name is taken to be the likest to itself).
- Quality of vintages: one upsert per request, nothing to interleave.
- Pages that only show, or send one request at a time whose handler is modelled; renaming, members
  and zone photos on the pages that are modelled. `PlanPage` puts a zone that is opened again last,
  whatever its old rank.
- In the entry queue a photo that changes purpose (it is in `ExitReading`); in the generation queues,
  identical wines sharing one line of a call (their answers are chosen independently, which allows
  more) and the split of its cost.
