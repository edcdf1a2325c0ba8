---------------------------- MODULE MCEntryLots ----------------------------
(***************************************************************************)
(* EntryQueue with two worker processes, for TLC: only one of them         *)
(* deployed, which may stop, or both, whose mishaps are behind them.       *)
(***************************************************************************)
EXTENDS MCEntryQueue, TLC

CONSTANTS w1, w2

OneDeployed(w) == [v \in Workers |-> At(IF v = w THEN "idle" ELSE "off")]

LotsInit ==
  /\ NothingYet
  /\ \/ mishaps = 0 /\ \E w \in Workers : work = OneDeployed(w)
     \/ mishaps = MaxMishaps /\ work = [w \in Workers |-> At("idle")]

LotsSpec == LotsInit /\ [][Next]_vars

Interchangeable == Permutations(Workers)
=============================================================================
