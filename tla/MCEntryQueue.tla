---------------------------- MODULE MCEntryQueue ----------------------------
(***************************************************************************)
(* Small instances of EntryQueue for TLC.                                  *)
(***************************************************************************)
EXTENDS EntryQueue

CONSTANTS c1, c2

\* All photos are of one cellar.
OneCave == [p \in Photos |-> c1]

\* The first photo is of one cellar, the others of another.
TwoCaves == [p \in Photos |-> IF p = 1 THEN c1 ELSE c2]
=============================================================================
