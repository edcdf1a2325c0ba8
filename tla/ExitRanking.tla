---------------------------- MODULE ExitRanking ----------------------------
(***************************************************************************)
(* Which wines of the stock an exit photo is taken for.  A reading is kept *)
(* only when every field is well formed; each wine in stock is scored by   *)
(* the likeness of its name and appellation and by its vintage, and one is *)
(* taken for the bottle only when it is likely and well ahead.  Likenesses *)
(* are in thousandths, scores before rounding in millionths.               *)
(***************************************************************************)
EXTENDS CellarViews

CONSTANTS
  NameLikeness,        \* name read -> wine -> trigramSimilarity of the two names
  AppellationLikeness, \* appellation read -> wine -> trigramSimilarity
  YearsRead            \* years the model can answer, well formed or not

Unreadable == ""     \* a field read as null
Thousandths == 0..1000

ASSUME ExitRankingAssumption ==
  /\ \A n \in DOMAIN NameLikeness : \A w \in Cuvees : NameLikeness[n][w] \in Thousandths
  /\ \A a \in DOMAIN AppellationLikeness : \A w \in Cuvees : AppellationLikeness[a][w] \in Thousandths
  /\ YearsRead \subseteq Nat

Readings ==
  [name : DOMAIN NameLikeness \union {Unreadable}, appellation : DOMAIN AppellationLikeness \union {Unreadable},
   vintage : YearsRead \union {NoYear}]

\* rawExtractionSchema: the year of the module's loading bounds the vintage.
WellFormed(read, loaded) == read.vintage = NoYear \/ (read.vintage >= 1900 /\ read.vintage <= loaded)

\* Without a reading of the appellation, the name counts alone.
Base(read, w) ==
  LET name == IF read.name = Unreadable THEN 0 ELSE NameLikeness[read.name][w]
  IN IF read.appellation = Unreadable THEN 1000 * name
     ELSE 600 * name + 400 * AppellationLikeness[read.appellation][w]

\* Mutant: another vintage only misses the bonus.
ScoreWithoutMalus(read, w) ==
  (Base(read, w) + (IF read.vintage # NoYear /\ read.vintage = Sheet[w].vintage THEN 250000 ELSE 0) + 500) \div 1000

\* A vintage read and known decides: a bonus when equal, three tenths of the score if not.
Score(read, w) ==
  LET year == Sheet[w].vintage
      raw  == CASE NoYear \in {read.vintage, year} -> Base(read, w)
                [] NoYear \notin {read.vintage, year} /\ read.vintage = year -> Base(read, w) + 250000
                [] OTHER -> (Base(read, w) * 3) \div 10
  IN (raw + 500) \div 1000

Likely(read) == {w \in Cuvees : Bottles(ledger, w) > 0 /\ Score(read, w) >= 350}

\* The better score first, the order of the list when equal.
Ahead(read, w, x) ==
  \/ Score(read, w) > Score(read, x)
  \/ Score(read, w) = Score(read, x) /\ Precedes(w, x, FALSE)

\* The four best: the k-th has k - 1 ahead of it.
Ranked(read) ==
  LET likely == Likely(read)
  IN [k \in 1..Min({4, Cardinality(likely)}) |->
        CHOOSE w \in likely : Cardinality({x \in likely : Ahead(read, x, w)}) = k - 1]

\* rankExitCandidates.  Scores are floats: a gap of exactly 0.15 counts or not by the pair.
Outcomes(read) ==
  LET found == Ranked(read)
      gap   == Score(read, found[1]) - Score(read, found[2])
  IN IF found = << >> \/ (read.name = Unreadable /\ read.appellation = Unreadable) THEN {"NONE"}
     ELSE CASE Score(read, found[1]) < 600 -> {"SEVERAL"}
            [] Score(read, found[1]) >= 600 /\ Len(found) = 1 -> {"UNIQUE"}
            [] OTHER -> (IF gap >= 150 THEN {"UNIQUE"} ELSE {}) \union (IF gap <= 150 THEN {"SEVERAL"} ELSE {})

\* exitCandidates, of a photo read: a reading that is not well formed sends to the list.
Answers(read, loaded) ==
  IF WellFormed(read, loaded) THEN [status : {"DONE"}, outcome : Outcomes(read), candidates : {Ranked(read)}]
  ELSE {[status |-> "FAILED", outcome |-> "NONE", candidates |-> << >>]}

-----------------------------------------------------------------------------

Alike(read, w, x) == Base(read, w) = Base(read, x)

\* What is confirmed without a choice is in stock, of no other vintage than the one read,
\* and no wine in stock reads like it: between two vintages of a wine the year that was
\* read rules one out, or the user decides (exit-ranking.ts:39-49, cave.service.ts:211-234).
ExitNeverGuesses ==
  ledger # << >> => \A read \in Readings, loaded \in {2029, 2030} : \A answer \in Answers(read, loaded) :
    answer.outcome = "UNIQUE" =>
      LET w == answer.candidates[1] IN
        /\ Bottles(ledger, w) > 0 /\ WellFormed(read, loaded)
        /\ NoYear \in {read.vintage, Sheet[w].vintage} \/ read.vintage = Sheet[w].vintage
        /\ \A x \in Cuvees \ {w} : Bottles(ledger, x) > 0 /\ Alike(read, w, x) =>
             read.vintage # NoYear /\ Sheet[x].vintage \notin {read.vintage, Sheet[w].vintage}
        /\ \A x \in Cuvees \ {w} : Bottles(ledger, x) > 0 => Score(read, x) + 150 <= Score(read, w)
=============================================================================
