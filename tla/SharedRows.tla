----------------------------- MODULE SharedRows -----------------------------
(***************************************************************************)
(* Rows that two requests may create at once: the card of a wine in a      *)
(* cellar, and an administrator's window for an appellation and a colour.  *)
(* Each is looked for, then created; the database has one of each key and  *)
(* refuses the second, which looks again.                                  *)
(***************************************************************************)
EXTENDS Naturals, SequencesExt, FiniteSetsExt

CONSTANTS
  Entrants,    \* requests that enter a bottle
  Cellars,
  Drafts,      \* what is known of the bottles
  STOP_WORDS,
  Plain,       \* a word without accents nor capitals
  Nearest,     \* the appellation likest a normalised label, similarity in thousandths
  Setters,     \* requests that set a window
  Scopes,      \* an appellation and a colour, or all colours
  Spans        \* windows

VARIABLES
  wines,     \* cards: cellar, key, appellation, wording of the appellation
  entrant,   \* each request to enter: its cellar, its draft, where it is, its card
  overrides, \* the rows guard_override
  setter,    \* each request to set a window
  removals   \* history: overrides removed

sharedVars == <<wines, entrant, overrides, setter, removals>>

NoCard == {}
NoneAlike == [name |-> << >>, sim |-> 0]

SharedRowsInit ==
  /\ wines = {} /\ overrides = {} /\ removals = 0
  /\ entrant \in [Entrants -> [cellar : Cellars, draft : Drafts, at : {"find"}, card : {NoCard}]]
  /\ setter \in [Setters -> [scope : Scopes, span : Spans, at : {"find"}, row : {0}]]

\* Mutant: the database's refusal goes to the user.
Failing == "error"

\* P2002: the row is looked for again.
Beaten == "again"

-----------------------------------------------------------------------------
(* The card of a wine *)

normalizeLabel(text) == [i \in DOMAIN text |-> Plain[text[i]]]

normalizeName(text) == SelectSeq(normalizeLabel(text), LAMBDA w : w \notin STOP_WORDS)

Kind(match) == IF match.sim < 500 THEN "none" ELSE IF match.sim < 800 THEN "fuzzy" ELSE "exact"

\* AppellationsService.resolve
Resolve(label) == IF label = << >> THEN NoneAlike ELSE Nearest[normalizeLabel(label)]

\* The label is rewritten by an appellation it is nearly the name of.
LabelOf(d) == IF Kind(Resolve(d.label)) = "exact" THEN Resolve(d.label).name ELSE d.label

AppellationOf(d) == IF Kind(Resolve(d.label)) = "none" THEN << >> ELSE Resolve(d.label).name

computeMatchKey(d) ==
  <<normalizeName(d.producer), normalizeName(d.cuvee), normalizeLabel(LabelOf(d)), d.vintage, d.color, d.formatCl>>

\* Labels and names are words; an appellation is the one likest its own name, no two
\* of the repository's list (appellations.json) having the same words.
ASSUME SharedRowsAssumption ==
  \A d \in Drafts :
    /\ d.label \in Seq(DOMAIN Plain)
    /\ LET match == Resolve(d.label) IN
       Kind(match) = "exact" =>
         /\ match.name \in Seq(DOMAIN Plain) \ {<< >>}
         /\ Nearest[normalizeLabel(match.name)].name = match.name
         /\ Kind(Nearest[normalizeLabel(match.name)]) # "none"

Cards(e) == {w \in wines : w.cellar = entrant[e].cellar /\ w.key = computeMatchKey(entrant[e].draft)}

MatchFind(e) ==
  /\ entrant[e].at = "find"
  /\ entrant' = IF Cards(e) = {} THEN [entrant EXCEPT ![e].at = "create"]
                ELSE [entrant EXCEPT ![e].at = "found", ![e].card = Cards(e)]
  /\ UNCHANGED <<wines, overrides, setter, removals>>

MatchCreate(e) ==
  LET d == entrant[e].draft
      card == [cellar |-> entrant[e].cellar, key |-> computeMatchKey(d),
               appellation |-> AppellationOf(d), label |-> LabelOf(d)]
  IN
  /\ entrant[e].at = "create"
  /\ \/ /\ Cards(e) = {}
        /\ wines' = wines \union {card}
        /\ entrant' = [entrant EXCEPT ![e].at = "created", ![e].card = {card}]
     \/ /\ Cards(e) # {}
        /\ entrant' = [entrant EXCEPT ![e].at = Beaten]
        /\ UNCHANGED wines
  /\ UNCHANGED <<overrides, setter, removals>>

MatchAgain(e) ==
  /\ entrant[e].at = "again"
  /\ entrant' = [entrant EXCEPT ![e].at = IF Cards(e) = {} THEN "error" ELSE "found", ![e].card = Cards(e)]
  /\ UNCHANGED <<wines, overrides, setter, removals>>

-----------------------------------------------------------------------------
(* An administrator's window *)

WindowRow(s) == {o \in overrides : o.scope = setter[s].scope}

\* findFirst: the row to update, or none.
FindWindow(s) ==
  /\ setter[s].at \in {"find", "again"}
  /\ setter' = IF WindowRow(s) # {} THEN [setter EXCEPT ![s].at = "update", ![s].row = (CHOOSE o \in WindowRow(s) : TRUE).id]
               ELSE [setter EXCEPT ![s].at = IF @ = "find" THEN "create" ELSE "error"]
  /\ UNCHANGED <<wines, entrant, overrides, removals>>

CreateWindow(s) ==
  LET id == Cardinality(overrides) + removals + 1 IN
  /\ setter[s].at = "create"
  /\ \/ /\ WindowRow(s) = {}
        /\ overrides' = overrides \union {[id |-> id, scope |-> setter[s].scope, span |-> setter[s].span]}
        /\ setter' = [setter EXCEPT ![s].at = "set"]
     \/ /\ WindowRow(s) # {}
        /\ setter' = [setter EXCEPT ![s].at = Beaten]
        /\ UNCHANGED overrides
  /\ UNCHANGED <<wines, entrant, removals>>

\* The row found may be gone: nothing catches it.
UpdateWindow(s) ==
  /\ setter[s].at = "update"
  /\ \/ /\ \E o \in overrides : o.id = setter[s].row /\ overrides' = (overrides \ {o}) \union {[o EXCEPT !.span = setter[s].span]}
        /\ setter' = [setter EXCEPT ![s].at = "set"]
     \/ /\ \A o \in overrides : o.id # setter[s].row
        /\ setter' = [setter EXCEPT ![s].at = "error"]
        /\ UNCHANGED overrides
  /\ UNCHANGED <<wines, entrant, removals>>

RemoveGuard(o) ==
  /\ o \in overrides
  /\ overrides' = overrides \ {o} /\ removals' = removals + 1
  /\ UNCHANGED <<wines, entrant, setter>>

SharedRowsStep ==
  \/ \E e \in Entrants : MatchFind(e) \/ MatchCreate(e) \/ MatchAgain(e)
  \/ \E s \in Setters : FindWindow(s) \/ CreateWindow(s) \/ UpdateWindow(s)
  \/ \E o \in overrides : RemoveGuard(o)

-----------------------------------------------------------------------------
(* Properties *)

\* Nobody loses the race to create a row: no entry fails for it, two entries of one
\* bottle in a cellar share one card, which one of them created; entries of different
\* cellars never do; the card says of the appellation what each of them found, whoever
\* created it and however the label was written; a window fails only when one was
\* removed (wine-matching.service.ts:45, 72-77, apogee-admin.service.ts:78-83).
NobodyLosesARace ==
  /\ \A e \in Entrants :
       /\ entrant[e].at # "error"
       /\ \A w \in entrant[e].card :
            /\ w.cellar = entrant[e].cellar
            /\ w.appellation = AppellationOf(entrant[e].draft)
  /\ \A e, f \in Entrants :
       entrant[e].card # NoCard /\ entrant[f].card # NoCard /\ e # f
       /\ entrant[e].cellar = entrant[f].cellar
       /\ computeMatchKey(entrant[e].draft) = computeMatchKey(entrant[f].draft) =>
         /\ entrant[e].card = entrant[f].card
         /\ ~ (entrant[e].at = "created" /\ entrant[f].at = "created")
  /\ \A o, p \in overrides : o.scope = p.scope => o = p
  /\ removals = 0 => \A s \in Setters : setter[s].at # "error"
=============================================================================
