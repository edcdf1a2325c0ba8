---------------------------- MODULE VisionCalls ----------------------------
(***************************************************************************)
(* A call to Gemini, from what Google answers to what the caller and the   *)
(* journal gemini_call get: which element of a lot each answer is for,     *)
(* what is counted for it, whether a failure is worth another try, and the *)
(* days of the administrator's report.  The answers are external; costs    *)
(* before rounding are in thousandths of a cent, times in half hours.      *)
(***************************************************************************)
EXTENDS Integers, SequencesExt

CONSTANTS
  Lot,       \* elements of a lot
  Tokens,    \* what the tokens of a call may cost
  MaxCalls,  \* bound: calls
  LastTime,  \* bound: half hours
  WinterTime \* when Paris goes from two hours ahead of UTC to one

GEMINI_USAGES == {"LECTURE_ENTREE", "LECTURE_SORTIE", "ACCORDS", "DESCRIPTIF", "RECHERCHE_IMAGE"}
Lots == {"LECTURE_ENTREE", "ACCORDS", "DESCRIPTIF"}

\* Paris changes its clocks at one o'clock of UTC.
ASSUME VisionCallsAssumption ==
  /\ Lot \in Nat \ {0} /\ Tokens \subseteq Nat /\ {MaxCalls, LastTime, WinterTime} \subseteq Nat
  /\ WinterTime % 48 = 2

VARIABLES
  calls, \* gemini_call, in the order of createdAt
  last,  \* what was answered to the call that ends, and what its caller gets
  clock  \* now

callVars == <<calls, last, clock>>

Nothing == 0
NoCall == [usage |-> "none", answer |-> [kind |-> "none", array |-> Nothing, tokens |-> 0, queries |-> 0],
           got |-> [type |-> "none", items |-> << >>, cost |-> 0]]

-----------------------------------------------------------------------------
(* What Google may answer (external) *)

\* Elements of an array: the number each carries, and the one that cannot be used.
Arrays == [numbers : UNION {[1..k -> 0..Lot + 1] : k \in (Lot - 1)..(Lot + 1)}, broken : 0..1]

Answered == [kind : {"array", "wrapped"}, array : Arrays, tokens : Tokens, queries : {0}]
Others   == [kind : {"prose", "object", "broken object", "blocked"}, array : {Nothing}, tokens : Tokens, queries : {0, 2}]
Refusals == [kind : {"400", "429", "500", "503", "network", "key"}, array : {Nothing}, tokens : {0}, queries : {0}]

-----------------------------------------------------------------------------
(* Costs *)

RoundedUp(milli) == (milli + 999) \div 1000

\* costCentsOf, pairingCostCentsOf, groundedCostCentsOf
CostOf(usage, answer) ==
  CASE usage \in {"LECTURE_ENTREE", "LECTURE_SORTIE"} -> RoundedUp(answer.tokens)
    [] usage \in {"ACCORDS", "DESCRIPTIF"}           -> (answer.tokens + 500) \div 1000
    [] usage = "RECHERCHE_IMAGE" -> Max({1, RoundedUp(answer.tokens), RoundedUp(1400 * answer.queries)})

\* What Google bills for an answer, in the cents the code counts in (external).
Billed(usage, answer) == IF answer \in Refusals THEN 0 ELSE CostOf(usage, answer)

-----------------------------------------------------------------------------
(* What the caller gets: "cost" is what the code counts *)

Failed(type, cost) == [type |-> type, items |-> << >>, cost |-> cost]

\* Mutant: the numbers are not looked at, but for how many there are.
InPlaceByCount(numbers) == Len(numbers) = Lot

\* indexedItems: each number from 1 to the size of the lot, once.
InPlace(numbers) == Len(numbers) = Lot /\ {numbers[k] : k \in 1..Len(numbers)} = 1..Lot

\* The element that carries number i; what cannot be used is left out or marked.
Itemised(array) ==
  [i \in {array.numbers[k] : k \in DOMAIN array.numbers \ {array.broken}} |->
     CHOOSE k \in DOMAIN array.numbers : array.numbers[k] = i]

\* readLabels, pairingsBatch, producersBatch.  The text of a blocked answer cannot be
\* read: what is thrown then has no cost, though it has just been computed.
OfLot(answer, cost) ==
  CASE answer.kind \in {"array", "wrapped"} /\ InPlace(answer.array.numbers) ->
         [type |-> "OK", items |-> Itemised(answer.array), cost |-> cost]
    [] answer.kind = "blocked" -> Failed("blocked", 0)
    [] OTHER -> Failed("mismatch", cost)

\* readLabel
OfPhoto(answer, cost) ==
  CASE answer.kind = "object"  -> [type |-> "OK", items |-> << >>, cost |-> cost]
    [] answer.kind = "blocked" -> Failed("blocked", 0)
    [] OTHER -> Failed("invalid", cost)

\* officialSite: what cannot be read is no site.
OfSearch(answer, cost) == [type |-> "OK", items |-> << >>, cost |-> cost]

Result(usage, answer) ==
  IF answer \in Refusals THEN Failed(answer.kind, 0)
  ELSE CASE usage \in Lots -> OfLot(answer, CostOf(usage, answer))
         [] usage = "LECTURE_SORTIE" -> OfPhoto(answer, CostOf(usage, answer))
         [] usage = "RECHERCHE_IMAGE" -> OfSearch(answer, CostOf(usage, answer))

\* statusFromMessage, classifyFailure
Outcome(type) == CASE type = "OK" -> "OK" [] type \in {"429", "503"} -> "REFUSE" [] OTHER -> "ERREUR"

\* isConfigurationError
Misconfigured(type) == type = "key"

\* isTransientVisionFailure: what is not known to be definitive is worth another try.
Transient(type) == type \notin {"mismatch", "invalid"} /\ ~ Misconfigured(type) /\ type \notin {"400"}

-----------------------------------------------------------------------------
(* The journal and its report *)

\* call: one row by request sent, whatever becomes of it.
CallGemini(usage, answer) ==
  LET got == Result(usage, answer) IN
  /\ last = NoCall /\ Len(calls) < MaxCalls
  /\ last' = [usage |-> usage, answer |-> answer, got |-> got]
  /\ calls' = Append(calls, [at |-> clock, usage |-> usage, outcome |-> Outcome(got.type), cost |-> got.cost])
  /\ UNCHANGED clock

CallEnds == last # NoCall /\ last' = NoCall /\ UNCHANGED <<calls, clock>>

TimeGoesBy(n) == last = NoCall /\ clock + n <= LastTime /\ clock' = clock + n /\ UNCHANGED <<calls, last>>

\* parisDay
ParisDay(t) == (t + (IF t >= WinterTime THEN 2 ELSE 4)) \div 48

\* usageSince: one day more is read.
UsageSince(days) == clock - (days + 1) * 48

Read(days) == {i \in DOMAIN calls : calls[i].at >= UsageSince(days) /\ calls[i].at <= clock}

\* aggregateGeminiUsage: those of the days asked for, by day and use.
Kept(days) == {i \in Read(days) : ParisDay(calls[i].at) \in (ParisDay(clock) - (days - 1))..ParisDay(clock)}
Line(i)    == <<ParisDay(calls[i].at), calls[i].usage>>

Under(days, line) == {i \in Kept(days) : Line(i) = line}
With(outcome, rows) == {i \in rows : calls[i].outcome = outcome}

Whole(column) == MapThenSumSet(LAMBDA x : column[x], DOMAIN column)

\* The calls of each line by outcome, and their cents.
Report(days) ==
  [line \in {Line(i) : i \in Kept(days)} |->
     LET rows == Under(days, line)
     IN [ok |-> Cardinality(With("OK", rows)), refused |-> Cardinality(With("REFUSE", rows)),
         errors |-> Cardinality(With("ERREUR", rows)), cents |-> Whole([i \in rows |-> calls[i].cost])]]

CallsInit == calls = << >> /\ last = NoCall /\ clock = 0

-----------------------------------------------------------------------------
(* Properties *)

\* In a lot, whoever gets an answer gets the one that carries his number, and a lot where
\* that cannot be told leaves nobody with any.
NobodyGetsAnothers ==
  last.usage \in Lots /\ last.got.type = "OK" =>
    LET numbers == last.answer.array.numbers IN
      /\ \A i \in DOMAIN last.got.items : numbers[last.got.items[i]] = i
      /\ \A k \in DOMAIN numbers : \A l \in DOMAIN numbers : numbers[k] = numbers[l] => k = l

\* What Google bills is counted, and an answer that was billed and cannot be used is not
\* bought again as if Google had failed, as what Google refused is.  A blocked answer is
\* the one exception to both: it is counted for nothing and asked again.
BilledIsCounted ==
  LET billed  == Billed(last.usage, last.answer)
      blocked == last.answer.kind = "blocked" /\ last.got.type # "OK"
  IN /\ last.got.cost = IF blocked THEN 0 ELSE billed
     /\ last.got.type # "OK" /\ billed > 0 => (Transient(last.got.type) <=> blocked)
     /\ Outcome(last.got.type) = "REFUSE" => Transient(last.got.type)

\* "Une photo facturée par Gemini ne doit jamais être comptée à coût nul"
\* (gemini-vision.provider.ts:59).
BilledPhotosCount ==
  last.usage \in {"LECTURE_ENTREE", "LECTURE_SORTIE"} /\ Billed(last.usage, last.answer) > 0 => last.got.cost > 0

\* The report of some days holds each call of these days of Paris once, with its cents.
EachCallOnce(days) ==
  LET report == Report(days)
      wanted == {i \in DOMAIN calls : ParisDay(calls[i].at) > ParisDay(clock) - days}
  IN /\ Whole([line \in DOMAIN report |-> report[line].ok + report[line].refused + report[line].errors])
          = Cardinality(wanted)
     /\ Whole([line \in DOMAIN report |-> report[line].cents]) = Whole([i \in wanted |-> calls[i].cost])

\* Calls are attributed, counted and retried as the answers say
\* (gemini-vision.provider.ts:118-145, transient-failure.ts:87-96, gemini-usage.ts:62-92).
CallsAccountedFor ==
  /\ last # NoCall => NobodyGetsAnothers /\ BilledIsCounted
  /\ \A days \in 1..2 : EachCallOnce(days)
=============================================================================
