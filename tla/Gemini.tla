------------------------------- MODULE Gemini -------------------------------
(***************************************************************************)
(* What every user of Gemini shares: the common pause that a refusal (429, *)
(* 503) sets for the api and the workers, and the monthly budget, global   *)
(* and per cellar.  How much is spent elsewhere is the environment's       *)
(* choice; time left is counted in the queue's own unit.                   *)
(***************************************************************************)
EXTENDS Naturals

CONSTANTS
  Caves,        \* the cellars
  RefusalPause  \* the longest pause a refusal sets (PAUSE_AFTER_REFUSAL)

ASSUME GeminiAssumption == RefusalPause \in Nat \ {0}

VARIABLES
  pause,        \* time until gemini_pause_until, 0 when there is no pause
  capped,       \* assertUnderCap throws
  overShare     \* the cellars for which assertCaveUnderShare throws

geminiVars == <<pause, capped, overShare>>

GeminiTypeOK ==
  /\ pause \in 0..RefusalPause
  /\ capped \in BOOLEAN
  /\ overShare \subseteq Caves

GeminiInit ==
  /\ pause = 0
  /\ capped = FALSE
  /\ overShare = {}

Paused == pause > 0

\* A cellar's photos can be sent.
Open(c) == ~ Paused /\ ~ capped /\ c \notin overShare

\* A refusal only ever lengthens the pause (extendPause).
ExtendPause(length) == pause' = IF pause >= length THEN pause ELSE length

\* Another caller, or a call this caller gave up on, was refused.
RefusedElsewhere ==
  /\ \E length \in 1..RefusalPause : ExtendPause(length)
  /\ UNCHANGED <<capped, overShare>>

\* Money is spent elsewhere, the month ends, or an administrator moves a share.
BudgetMoves ==
  /\ capped' \in BOOLEAN
  /\ overShare' \in SUBSET Caves
  /\ UNCHANGED pause
=============================================================================
