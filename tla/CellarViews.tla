---------------------------- MODULE CellarViews ----------------------------
(***************************************************************************)
(* What the application shows of a cellar: the list, the wine's page, the  *)
(* statistics, the export and "to drink soon" by place.  Each is computed  *)
(* when it is read, from the wines' rows, the journal and the quotes, by   *)
(* code of its own: what one screen says of a bottle the others must too.  *)
(***************************************************************************)
EXTENDS Integers, SequencesExt, Listing

CONSTANTS
  Cuvees,    \* the wines of the cellar
  Sheet,     \* the row of each: producer, vintage, color, appellation, region, guard, rating, dishes;
             \* producer is its rank, and tells apart what the database lists in an order of its own
  Shelves,   \* its locations, numbered in the order of their labels
  NoShelf,   \* location_id NULL, "Sans emplacement"
  Guards,    \* guardOverrides, by appellation and colour, "*" for all colours
  Qualities, \* vintageQualities, by region and year
  Months,    \* months a movement may be of
  Links,     \* pages of iDealwine a quote may come from
  MaxLedger  \* bound: movements and quotes

NoYear == 0      \* vintage NULL
NoWindow == << >>
NoPrice == 0     \* priceUnitCents NULL, no quote

\* manualApogeeSchema, guardOverrideSchema
InOrderOfYears(v) == v[1] \in Nat /\ v[2] \in Nat /\ v[1] <= v[2]

ASSUME CellarViewsAssumption ==
  /\ IsFiniteSet(Cuvees) /\ IsFiniteSet(Shelves) /\ Shelves \subseteq Nat /\ NoShelf \notin Shelves /\ MaxLedger \in Nat
  /\ IsFiniteSet(Months) /\ Months \subseteq Nat /\ Months # {}
  /\ \A w \in Cuvees : Sheet[w].producer \in Int /\ Sheet[w].vintage \in Nat /\ Sheet[w].rating \in Nat
  /\ \A w \in Cuvees : Sheet[w].guard # NoWindow => InOrderOfYears(Sheet[w].guard)
  /\ \A k \in DOMAIN Guards : Guards[k] # NoWindow /\ InOrderOfYears(Guards[k])
  /\ \A k \in DOMAIN Qualities : Qualities[k] \in {"GRAND", "MOYEN", "FAIBLE"}
  /\ \A w, x \in Cuvees : Sheet[w].producer = Sheet[x].producer /\ Sheet[w].vintage = Sheet[x].vintage => w = x

VARIABLES
  ledger, \* the movements, oldest first
  manual, \* apogeeMin and apogeeMax of each wine, NoWindow unless apogeeSource is MANUEL
  quotes  \* the quotes the owner typed, in the order they were

viewVars == <<ledger, manual, quotes>>

Whole(column) == MapThenSumSet(LAMBDA x : column[x], DOMAIN column)

-----------------------------------------------------------------------------
(* Apogee *)

\* VINTAGE_FACTOR, in twentieths.
VintageFactor == [GRAND |-> 24, MOYEN |-> 20, FAIBLE |-> 17]

\* guardFor: from the most precise rule to the most general.
GuardFor(s) ==
  CASE <<s.appellation, s.color>> \in DOMAIN Guards -> Guards[<<s.appellation, s.color>>]
    [] <<s.appellation, s.color>> \notin DOMAIN Guards /\ s.color = "ROSE" -> <<1, 3>>
    [] <<s.appellation, s.color>> \notin DOMAIN Guards /\ s.color # "ROSE" ->
         IF <<s.appellation, "*">> \in DOMAIN Guards THEN Guards[<<s.appellation, "*">>] ELSE s.guard

Factor(s) ==
  IF <<s.region, s.vintage>> \in DOMAIN Qualities THEN VintageFactor[Qualities[<<s.region, s.vintage>>]] ELSE 20

\* estimateApogee: a typed window first, NoWindow without an estimate.
Estimated(s, typed) ==
  LET Rounded(years) == s.vintage + (years * Factor(s) + 10) \div 20
  IN CASE typed # NoWindow -> typed
       [] typed = NoWindow /\ (s.vintage = NoYear \/ s.appellation = "" \/ GuardFor(s) = NoWindow) -> NoWindow
       [] OTHER -> <<Rounded(GuardFor(s)[1]), Rounded(GuardFor(s)[2])>>

Apogee(w) == Estimated(Sheet[w], manual[w])

\* apogeeStatus
Status(window, year) ==
  IF window = NoWindow THEN "SANS_ESTIMATION"
  ELSE CASE year < window[1] -> "TROP_JEUNE"
         [] year > window[2] -> "PASSEE"
         [] year = window[2] -> "A_BOIRE_VITE"
         [] OTHER -> "A_BOIRE"

Soon(window, year) == window # NoWindow /\ window[2] <= year + 1

\* A window that ends before another; a wine without an estimate comes last.
Sooner(window, other) == window # NoWindow /\ (other = NoWindow \/ window[2] < other[2])

\* Nearest end of apogee first; tie decides between two that are the same, then the order
\* there was.
Sorted(wines, tie) ==
  LET before(i, j) ==
        \/ Sooner(Apogee(wines[i]), Apogee(wines[j]))
        \/ /\ ~ Sooner(Apogee(wines[j]), Apogee(wines[i]))
           /\ tie[wines[i]] < tie[wines[j]] \/ (tie[wines[i]] = tie[wines[j]] /\ i < j)
      order == Listed(DOMAIN wines, {p \in (DOMAIN wines) \X (DOMAIN wines) : before(p[1], p[2])})
  IN [k \in DOMAIN wines |-> wines[order[k]]]

\* sortByApogeeEnd: stable.
SortedByEnd(wines) == Sorted(wines, [w \in Cuvees |-> 0])

-----------------------------------------------------------------------------
(* Stock, places *)

Of(rows, w) == {i \in DOMAIN rows : rows[i].wine = w}
Moved(rows, S) == Whole([i \in S |-> rows[i].delta])
Bottles(rows, w) == Moved(rows, Of(rows, w))
BottlesAt(rows, w, p) == Moved(rows, {i \in Of(rows, w) : rows[i].place = p})
Reversed(rows) == {rows[i].reverses : i \in DOMAIN rows} \ {0}

\* placesOf: what is at each location, then what no location holds.
Located(w) == {p \in Shelves : BottlesAt(ledger, w, p) > 0}
Unplaced(w) == Bottles(ledger, w) - Whole([p \in Located(w) |-> BottlesAt(ledger, w, p)])
PlacesOf(w) ==
  [p \in Located(w) \union (IF Unplaced(w) > 0 THEN {NoShelf} ELSE {}) |->
     IF p = NoShelf THEN Unplaced(w) ELSE BottlesAt(ledger, w, p)]

\* wineIdsAt, the filter of the list on a place.
WinesAt(p) ==
  IF p # NoShelf THEN {w \in Cuvees : BottlesAt(ledger, w, p) > 0}
  ELSE {w \in Cuvees : Whole([q \in Shelves \union {NoShelf} |-> BottlesAt(ledger, w, q)])
                         > Whole([q \in Shelves |-> Max({0, BottlesAt(ledger, w, q)})])}

\* exitDefault: the rows that brought the wine somewhere.
Received(w) ==
  {i \in Of(ledger, w) : ledger[i].delta > 0 /\ ledger[i].type \in {"IN", "MOVE"} /\ ledger[i].id \notin Reversed(ledger)}

\* exitDefault: where the last bottles came that are still there; {} without stock.
ExitDefault(w) ==
  LET kept == {i \in Received(w) : ledger[i].place \in DOMAIN PlacesOf(w)}
  IN CASE kept # {} -> {ledger[Max(kept)].place}
       [] kept = {} /\ NoShelf \in DOMAIN PlacesOf(w) -> {NoShelf}
       [] OTHER -> {p \in Located(w) : \A q \in Located(w) : p <= q}

-----------------------------------------------------------------------------
(* Quotes *)

QuotesOf(w) == {i \in DOMAIN quotes : quotes[i].wine = w}

\* newestFirst: by the date of the quote, then by the one it was typed on.
Newer(i, j) == quotes[i].on > quotes[j].on \/ (quotes[i].on = quotes[j].on /\ i > j)

Newest(among) == {i \in among : \A j \in among \ {i} : Newer(i, j)}

\* currentQuote, on the wine's page.
CurrentQuote(w) == Newest(QuotesOf(w))

\* savedSourceUrl: the link of the newest quote that has one.
SavedLink(w) == {quotes[i].link : i \in Newest({j \in QuotesOf(w) : quotes[j].link # {}})}

\* currentQuoteByWine, for the statistics and the export: one pass over all rows, 0
\* for a wine without a quote.
BestOfFirst[n \in 0..Len(quotes)] ==
  IF n = 0 THEN [w \in Cuvees |-> 0]
  ELSE LET best == BestOfFirst[n - 1]
           w    == quotes[n].wine
       IN IF best[w] = 0 \/ Newer(n, best[w]) THEN [best EXCEPT ![w] = n] ELSE best

CurrentByWine == BestOfFirst[Len(quotes)]

Cotes == [w \in Cuvees |-> IF CurrentByWine[w] = 0 THEN NoPrice ELSE quotes[CurrentByWine[w]].cote]

NoCotes == [w \in Cuvees |-> NoPrice]

\* cessionCents: the quote without the buyer's fees, divided by 1.16 and rounded.
Cession(cote) == (50 * cote + 29) \div 58

QuoteView(i) == [cote |-> quotes[i].cote, on |-> quotes[i].on, cession |-> Cession(quotes[i].cote)]

-----------------------------------------------------------------------------
(* The list, the page and the export *)

\* ORDER BY producer, vintage: NULLS FIRST in the list, last in the export.
Precedes(w, x, nullsLast) ==
  LET year  == Sheet[w].vintage
      other == Sheet[x].vintage
  IN \/ Sheet[w].producer < Sheet[x].producer
     \/ /\ Sheet[w].producer = Sheet[x].producer
        /\ IF NoYear \in {year, other} THEN year # other /\ (year = NoYear) # nullsLast ELSE year < other

InOrder(wines, nullsLast) == Listed(wines, {p \in wines \X wines : Precedes(p[1], p[2], nullsLast)})

\* matchDish: the first dish with every word.
MatchDish(w, words) == \E k \in DOMAIN Sheet[w].dishes : words \subseteq Sheet[w].dishes[k]

\* filterCave, and the filter on a place.
Kept(w, f) ==
  /\ f.empty \/ Bottles(ledger, w) > 0
  /\ f.color \in {"", Sheet[w].color}
  /\ f.at = {} \/ \E p \in f.at : w \in WinesAt(p)

SoonOnes(year) == {w \in Cuvees : Soon(Apogee(w), year)}

\* For a dish, what is to drink soon comes first.
SoonFirst(wines, year) == SortedByEnd(Those(wines, SoonOnes(year))) \o Those(wines, Cuvees \ SoonOnes(year))

List(f, year) ==
  LET rows  == InOrder({w \in Cuvees : Kept(w, f)}, FALSE)
      timed == CASE f.when = "soon" -> SortedByEnd(Those(rows, SoonOnes(year)))
                 [] f.when = "none" -> Those(rows, {w \in Cuvees : Apogee(w) = NoWindow})
                 [] f.when = "any"  -> rows
  IN IF f.dish = {} THEN timed ELSE SoonFirst(Those(timed, {w \in Cuvees : MatchDish(w, f.dish)}), year)

\* buildWorkbook: the rows of the sheet "Stock".
Exported(color, soon, year) ==
  LET rows == InOrder({w \in Cuvees : Bottles(ledger, w) > 0 /\ color \in {"", Sheet[w].color}}, TRUE)
  IN IF soon THEN SortedByEnd(Those(rows, SoonOnes(year))) ELSE rows

\* buildWorkbook: the price of the last entry that was not cancelled.
ExportedPrice(w) ==
  LET priced == {i \in Of(ledger, w) : ledger[i].type = "IN" /\ ledger[i].price # NoPrice /\ ledger[i].id \notin Reversed(ledger)}
  IN IF priced = {} THEN NoPrice ELSE ledger[Max(priced)].price

\* buildWorkbook: the line of a wine on that sheet.
SheetLine(w) ==
  LET quantity == Bottles(ledger, w)
  IN [quantity |-> quantity, places |-> PlacesOf(w), apogee |-> Apogee(w),
      price |-> ExportedPrice(w), value |-> quantity * ExportedPrice(w),
      cote |-> Cotes[w], quotedValue |-> quantity * Cotes[w],
      quotedOn |-> IF CurrentByWine[w] = 0 THEN {} ELSE {quotes[CurrentByWine[w]].on}]

\* The last ten movements of a wine, their price left out.
LastRows(w) ==
  LET rows == Reverse(Picked(ledger, Of(ledger, w)))
  IN [i \in 1..Min({10, Len(rows)}) |->
        [delta |-> rows[i].delta, type |-> rows[i].type, place |-> rows[i].place, month |-> rows[i].month]]

\* detail: the quotes are not read for a member, and their keys are missing.
Detail(w, role) ==
  LET page == [quantity |-> Bottles(ledger, w), places |-> PlacesOf(w), apogee |-> Apogee(w),
               exitDefault |-> ExitDefault(w), movements |-> LastRows(w),
               quote |-> {QuoteView(i) : i \in CurrentQuote(w)}, link |-> SavedLink(w)]
  IN [k \in DOMAIN page \ (IF role = "VIEWER" THEN {"quote", "link"} ELSE {}) |-> page[k]]

\* groupByPlace, on the phone: the wines of each place, nearest end first, then best rating.
ByPlace(wines, p) ==
  LET there == {w \in Cuvees : IF PlacesOf(w) = << >> THEN p = NoShelf ELSE p \in DOMAIN PlacesOf(w)}
  IN Sorted(Those(wines, there), [w \in Cuvees |-> - Sheet[w].rating])

-----------------------------------------------------------------------------
(* Statistics *)

\* Mutant: a cancelled movement still counts.
CountedAll(rows) == {i \in DOMAIN rows : rows[i].type \in {"IN", "OUT"}}

\* computeStats: entries and withdrawals that were not cancelled.
Counted(rows) == {i \in DOMAIN rows : rows[i].type \in {"IN", "OUT"} /\ rows[i].id \notin Reversed(rows)}

LastPrice(rows, w) ==
  LET priced == {i \in Counted(rows) \cap Of(rows, w) : rows[i].type = "IN" /\ rows[i].price # NoPrice}
  IN IF priced = {} THEN NoPrice ELSE rows[Max(priced)].price

\* lastMonths: twelve, the one that runs included.
Window(now) == {m \in Months : now - 12 < m /\ m <= now}

Flow(rows, type, now) ==
  Moved(rows, {i \in Counted(rows) : rows[i].type = type /\ rows[i].month \in Window(now)})

\* group: the bottles of each share of a breakdown.
Share(rows, key) ==
  LET stocked == {w \in Cuvees : Bottles(rows, w) > 0}
  IN [k \in {key[w] : w \in stocked} |-> Whole([w \in {x \in stocked : key[x] = k} |-> Bottles(rows, w)])]

\* cotes: the current quote of each wine, NoPrice without one.
Stats(rows, cotes, now) ==
  LET stocked == {w \in Cuvees : Bottles(rows, w) > 0}
      priced  == {w \in stocked : LastPrice(rows, w) # NoPrice}
      quoted  == {w \in stocked : cotes[w] # NoPrice}
      worth   == Whole([w \in quoted |-> Bottles(rows, w) * cotes[w]])
      out     == - Flow(rows, "OUT", now)
      all     == Whole([w \in stocked |-> Bottles(rows, w)])
  IN [bottles |-> all, references |-> Cardinality(stocked), pricedReferences |-> Cardinality(priced),
      purchaseValue |-> Whole([w \in priced |-> Bottles(rows, w) * LastPrice(rows, w)]),
      mostExpensive |-> [w \in priced |-> LastPrice(rows, w)],
      quotedValue |-> worth, cessionValue |-> Cession(worth),
      quotedReferences |-> Cardinality(quoted), quotableReferences |-> Cardinality(stocked),
      byColor |-> Share(rows, [w \in Cuvees |-> Sheet[w].color]),
      byRegion |-> Share(rows, [w \in Cuvees |-> Sheet[w].region]),
      byDecade |-> Share(rows, [w \in Cuvees |-> (Sheet[w].vintage \div 10) * 10]),
      byApogee |-> Share(rows, [w \in Cuvees |-> Status(Apogee(w), now \div 12)]),
      in |-> Flow(rows, "IN", now), out |-> out, drinkRate |-> (20 * out + 12) \div 24,
      yearsLeft |-> IF out > 0 THEN {(2 * all + out) \div (2 * out)} ELSE {},
      drunk |-> [w \in Cuvees |-> - Moved(rows,
                   {i \in Counted(rows) \cap Of(rows, w) : rows[i].type = "OUT" /\ rows[i].month \in Window(now)})]]

PRICE_KEYS ==
  {"pricedReferences", "purchaseValue", "mostExpensive",
   "quotedValue", "cessionValue", "quotedReferences", "quotableReferences"}

\* statsForRole: a member gets none of PRICE_KEYS.
StatsForRole(stats, role) ==
  [k \in DOMAIN stats \ (IF role = "VIEWER" THEN PRICE_KEYS ELSE {}) |-> stats[k]]

\* compute: the quotes are not read for a member.
StatsFor(role, now) ==
  StatsForRole(Stats(ledger, IF role = "OWNER" THEN Cotes ELSE NoCotes, now), role)

-----------------------------------------------------------------------------
(* What is written *)

Row(w, delta, type, p, price, month, reverses) ==
  [id |-> Len(ledger) + 1, wine |-> w, delta |-> delta, type |-> type, place |-> p, price |-> price,
   month |-> month, reverses |-> reverses]

LastMonth == IF ledger = << >> THEN Min(Months) ELSE Last(ledger).month

\* The trigger and assertEnoughAt: no wine and no place under zero.
Written(rows) ==
  /\ Len(ledger) + Len(rows) + Len(quotes) <= MaxLedger
  /\ \A w \in Cuvees, p \in Shelves \union {NoShelf} : BottlesAt(ledger \o rows, w, p) >= 0
  /\ ledger' = ledger \o rows
  /\ UNCHANGED <<manual, quotes>>

EnterBottles(w, qty, p, price, month) == Written(<<Row(w, qty, "IN", p, price, month, 0)>>)

TakeBottle(w, p, month) == Written(<<Row(w, -1, "OUT", p, NoPrice, month, 0)>>)

CountBottles(w, delta, p) == Written(<<Row(w, delta, "ADJUST", p, NoPrice, LastMonth, 0)>>)

ShiftBottle(w, p, q) ==
  /\ p # q
  /\ Written(<<Row(w, -1, "MOVE", p, NoPrice, LastMonth, 0),
               [Row(w, 1, "MOVE", q, NoPrice, LastMonth, 0) EXCEPT !.id = Len(ledger) + 2]>>)

\* An entry, a withdrawal or a count is undone once, where it was written.
CancelRow(m) ==
  /\ m.type # "MOVE" /\ m.reverses = 0 /\ m.id \notin Reversed(ledger)
  /\ Written(<<Row(m.wine, - m.delta, "ADJUST", m.place, NoPrice, LastMonth, m.id)>>)

\* setManualApogee, clearManualApogee
SetManualApogee(w, window) ==
  /\ manual[w] # window /\ (window # NoWindow => InOrderOfYears(window))
  /\ manual' = [manual EXCEPT ![w] = window]
  /\ UNCHANGED <<ledger, quotes>>

\* createQuoteSchema: of a day that has come, with a page of iDealwine or none.
QuoteAccepted(q) ==
  /\ q.cote \in Nat \ {0} /\ q.cote <= 10000000
  /\ q.on \in Months /\ q.on <= LastMonth /\ q.link \in {{}} \union {{l} : l \in Links}

\* create: added to those there are.
AddQuote(q) ==
  /\ Len(ledger) + Len(quotes) < MaxLedger
  /\ QuoteAccepted(q)
  /\ quotes' = Append(quotes, q)
  /\ UNCHANGED <<ledger, manual>>

-----------------------------------------------------------------------------
(* Properties *)

Filters == [empty : BOOLEAN, color : {""} \union {Sheet[w].color : w \in Cuvees}, when : {"any", "soon", "none"},
            dish : {{}} \union {Sheet[w].dishes[1] : w \in {x \in Cuvees : Sheet[x].dishes # << >>}},
            at : {{}, {NoShelf}} \union {{p} : p \in Shelves}]

Nows == {m + 6 : m \in Months}

\* Two screens that offer the same bottles offer the same: the list to drink soon and
\* the export, whose prices are those of the statistics and whose quotes add up to
\* theirs; the page of a wine and its line there; the page by place, each wine's places
\* and the filter on a place too.
SameBottlesEverywhere ==
  \A now \in Nows : LET year == now \div 12 IN
    /\ \A f \in {g \in Filters : ~ g.empty /\ g.when # "none" /\ g.dish = {} /\ g.at = {}} :
         ToSet(List(f, year)) = ToSet(Exported(f.color, f.when = "soon", year))
    /\ \A w \in Cuvees : ExportedPrice(w) = LastPrice(ledger, w)
    /\ StatsFor("OWNER", now).quotedValue =
         Whole([w \in ToSet(Exported("", FALSE, year)) |-> SheetLine(w).quotedValue])
    /\ \A w \in ToSet(Exported("", FALSE, year)) :
         LET line == SheetLine(w)
             seen == Detail(w, "OWNER")
         IN /\ {q.cote : q \in seen.quote} = {line.cote} \ {NoPrice} /\ {q.on : q \in seen.quote} = line.quotedOn
            /\ \A k \in {"quantity", "places", "apogee"} : seen[k] = line[k]
    /\ \A f \in {g \in Filters : g.when = "soon" /\ ~ g.empty /\ g.color = ""} :
         LET shown == List(f, year)
         IN \A p \in Shelves \union {NoShelf} :
              LET placed == ToSet(ByPlace(shown, p))
              IN \A w \in ToSet(shown) :
                   LET there == p \in DOMAIN PlacesOf(w)
                   IN ((w \in placed) <=> there) /\ ((w \in WinesAt(p)) <=> there)

\* A dish orders what it keeps and loses none: each wine with the dish is there once,
\* what is to drink soon before the rest.
DishLosesNone ==
  \A now \in Nows, f \in {g \in Filters : g.dish # {} /\ g.at = {} /\ g.color = ""} :
    LET year  == now \div 12
        shown == List(f, year)
        all   == List([f EXCEPT !.dish = {}], year)
    IN /\ ToSet(shown) = {w \in ToSet(all) : MatchDish(w, f.dish)} /\ Len(shown) = Cardinality(ToSet(shown))
       /\ \A i, j \in DOMAIN shown : i < j /\ Soon(Apogee(shown[j]), year) => Soon(Apogee(shown[i]), year)

\* A movement and its cancellation leave no trace in the statistics.
CancelledLeavesNoTrace ==
  \A i \in DOMAIN ledger, now \in Nows :
    LET gone == {ledger[i].id, ledger[i].reverses}
    IN ledger[i].reverses # 0 =>
         Stats(ledger, Cotes, now) = Stats(Picked(ledger, {k \in DOMAIN ledger : ledger[k].id \notin gone}), Cotes, now)

\* Every breakdown shares out the bottles there are, as the places do.
SharesAddUp ==
  \A now \in Nows :
    LET s == Stats(ledger, Cotes, now)
    IN /\ \A share \in {"byColor", "byRegion", "byDecade", "byApogee"} : Whole(s[share]) = s.bottles
       /\ s.bottles = Whole([w \in Cuvees |-> Whole(PlacesOf(w))])

\* What a member reads would be the same had no bottle a price, and no wine a quote;
\* a page that shows a link shows a quote.
MembersReadNoPrice ==
  LET free == [i \in DOMAIN ledger |-> [ledger[i] EXCEPT !.price = NoPrice]]
  IN /\ \A now \in Nows :
          /\ StatsFor("VIEWER", now) = StatsForRole(Stats(free, NoCotes, now), "VIEWER")
          /\ StatsForRole(Stats(ledger, Cotes, now), "VIEWER") = StatsFor("VIEWER", now)
     /\ \A w \in Cuvees :
          /\ DOMAIN Detail(w, "VIEWER") \intersect {"quote", "link"} = {}
          /\ SavedLink(w) # {} => CurrentQuote(w) # {}

\* The place an exit proposes holds the wine; none is proposed without stock.
ExitProposesAPlace ==
  \A w \in Cuvees :
    /\ ExitDefault(w) \subseteq DOMAIN PlacesOf(w)
    /\ (ExitDefault(w) = {}) <=> (Bottles(ledger, w) = 0)

\* No window ends before it begins, and what is past or in its last year is to drink soon.
WindowsKeepTheirOrder ==
  \A w \in Cuvees, year \in 2026..2036 :
    LET span == Apogee(w) IN
      /\ span # NoWindow => span[1] <= span[2]
      /\ Status(span, year) \in {"PASSEE", "A_BOIRE_VITE"} => Soon(span, year)
      /\ Status(span, year) = "SANS_ESTIMATION" => ~ Soon(span, year)

\* The screens of a cellar in use agree on its bottles (cave.service.ts:122-152,
\* stats.ts:129-208, export.service.ts:61-81, locations.service.ts:214-258).
ViewsAgree ==
  ledger # << >> =>
    /\ SameBottlesEverywhere /\ DishLosesNone /\ CancelledLeavesNoTrace
    /\ SharesAddUp /\ MembersReadNoPrice /\ ExitProposesAPlace /\ WindowsKeepTheirOrder
=============================================================================
