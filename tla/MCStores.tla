------------------------------ MODULE MCStores ------------------------------
(***************************************************************************)
(* Small instances of ReferenceImage, CavePlan, Accounts, SharedRows and   *)
(* ExitRanking.  The five share nothing: a behaviour moves one of them,    *)
(* its scene, and leaves the others as they are.                           *)
(***************************************************************************)
EXTENDS ReferenceImage, CavePlan, Accounts, SharedRows, ExitRanking, TLC

CONSTANTS Scenes, MaxFaults, MaxRequests, w1, w2, w3

VARIABLES
  scene, \* which of the five this behaviour is about
  asked  \* requests of owners and administrators; sign-ins are not counted

vars == <<refVars, planVars, accountVars, viewVars, sharedVars, scene, asked>>

\* Two vintages of a red, one of them a great year; a rose without vintage.
MCSheet ==
  [w \in Cuvees |->
    [producer |-> 1, vintage |-> CASE w = w1 -> 2020 [] w = w2 -> NoYear [] w = w3 -> 2030,
     color |-> IF w = w2 THEN "ROSE" ELSE "ROUGE",
     appellation |-> "a", region |-> "r", guard |-> <<5, 10>>, rating |-> IF w = w1 THEN 4 ELSE 0,
     dishes |-> CASE w = w1 -> <<{"beef"}, {"lamb", "beef"}>> [] w = w2 -> <<{"lamb", "beef"}>> [] w = w3 -> << >>]]

\* A name that the three bear, and one half effaced.
MCNameLikeness ==
  [name \in {"whole", "half"} |->
    [w \in Cuvees |-> CASE name = "whole" -> 1000 [] name = "half" -> (IF w = w2 THEN 700 ELSE 500)]]
MCAppellationLikeness == [name \in {"a"} |-> [w \in Cuvees |-> 1000]]
MCYears == {2019, 2020, 2030}

MCGuards == <<"a", "*">> :> <<4, 9>>
MCQualities == <<"r", 2020>> :> "GRAND"

\* May 2029 and February 2030: six months after each, the last twelve months hold it
\* and not the other.
MCMonths == {2030 * 12 - 8, 2030 * 12 + 1}

\* One bottle twice, its label nearly read; its appellation half read; another label.
MCPlain == [w \in {"Domaine", "Dupont", "Saumur", "Saumurs", "Samur", "Cidre"} |->
  CASE w = "Domaine" -> "domaine" [] w = "Dupont" -> "dupont" [] w = "Saumur" -> "saumur"
    [] w = "Saumurs" -> "saumurs" [] w = "Samur" -> "samur" [] w = "Cidre" -> "cidre"]
MCNearest == [label \in {<<"saumur">>, <<"saumurs">>, <<"samur">>, <<"cidre">>} |->
  [name |-> <<"Saumur">>,
   sim |-> CASE label = <<"saumur">> -> 1000 [] label = <<"saumurs">> -> 800 [] label = <<"samur">> -> 500 [] OTHER -> 0]]
Bottle(producer, label) ==
  [producer |-> producer, cuvee |-> << >>, label |-> label, vintage |-> "NV", color |-> "ROUGE", formatCl |-> 75]
MCDrafts ==
  {Bottle(<<"Domaine", "Dupont">>, <<"Saumur">>), Bottle(<<"Dupont">>, <<"Saumurs">>),
   Bottle(<<"Dupont">>, <<"Samur">>), Bottle(<<"Dupont">>, <<"Cidre">>)}

MCPrice(p) == IF p = NoShelf THEN NoPrice ELSE 10
\* A quote with a page, or a lower one without.
MCQuote(cote, m) == [wine |-> w1, cote |-> cote, on |-> m, link |-> IF cote = 100 THEN Links ELSE {}]
MCWindows == {<<2030, 2031>>, NoWindow}

\* The scenes that are not played keep one of the initial states their Init offers.
Resolved ==
  /\ scene # "members" => \A p \in Persons \ {BreakGlass} : user[p].status = "none"
  /\ scene # "plan" => \A s \in Senders : sender[s].on = Plan
  /\ scene # "races" =>
       /\ \A e \in Entrants : entrant[e] = [cellar |-> (CHOOSE c \in Cellars : TRUE), draft |-> (CHOOSE d \in Drafts : TRUE),
                                          at |-> "find", card |-> NoCard]
       /\ \A x \in Setters : setter[x] = [scope |-> (CHOOSE c \in Scopes : TRUE), span |-> (CHOOSE c \in Spans : TRUE),
                                          at |-> "find", row |-> 0]

Init ==
  /\ ReferenceInit /\ CavePlanInit /\ AccountsInit /\ SharedRowsInit /\ scene \in Scenes /\ asked = 0
  /\ ledger = << >> /\ manual = [w \in Cuvees |-> NoWindow] /\ quotes = << >>
  /\ Resolved

Thumbnails ==
  /\ scene = "thumbnail"
  /\ ReferenceNext \/ (faults < MaxFaults /\ ReferenceFault)
  /\ UNCHANGED <<planVars, accountVars, viewVars, sharedVars, scene, asked>>

Plans ==
  /\ scene = "plan"
  /\ CavePlanNext \/ (upsets < MaxFaults /\ PlanFault)
  /\ UNCHANGED <<refVars, accountVars, viewVars, sharedVars, scene, asked>>

Members ==
  /\ scene = "members"
  /\ \/ AccountsGoOn /\ UNCHANGED asked
     \/ asked < MaxRequests /\ AccountsRequest /\ asked' = asked + 1
  /\ UNCHANGED <<refVars, planVars, viewVars, sharedVars, scene>>

\* Quotes and windows do not meet: a journal is played with one or the other.
Views ==
  /\ scene = "views"
  /\ \/ \E w \in {w1, w2}, p \in Shelves \union {NoShelf}, m \in {x \in Months : x >= LastMonth} :
          EnterBottles(w, 2, p, MCPrice(p), m)
     \/ EnterBottles(w3, 2, NoShelf, NoPrice, LastMonth)
     \/ \E w \in {w1, w2}, p \in Shelves \union {NoShelf} : TakeBottle(w, p, LastMonth) \/ CountBottles(w, -1, p)
     \/ \E w \in {w1, w2}, p, q \in Shelves \union {NoShelf} : ShiftBottle(w, p, q)
     \/ \E i \in DOMAIN ledger : CancelRow(ledger[i])
     \/ ledger # << >> /\ manual[w2] = NoWindow /\ \E cote \in {100, 58}, m \in Months : AddQuote(MCQuote(cote, m))
     \/ ledger # << >> /\ quotes = << >> /\ \E window \in MCWindows : SetManualApogee(w2, window)
  /\ UNCHANGED <<refVars, planVars, accountVars, sharedVars, scene, asked>>

Races ==
  /\ scene = "races"
  /\ SharedRowsStep
  /\ UNCHANGED <<refVars, planVars, accountVars, viewVars, scene, asked>>

Next == Thumbnails \/ Plans \/ Members \/ Views \/ Races

Spec == Init /\ [][Next]_vars

Symmetry == Permutations(Requests) \union Permutations(Logins)
=============================================================================
