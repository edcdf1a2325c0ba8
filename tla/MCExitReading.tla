---------------------------- MODULE MCExitReading ----------------------------
(***************************************************************************)
(* Small instances of ExitReading for TLC.                                 *)
(***************************************************************************)
EXTENDS ExitReading, TLC

CONSTANTS u1, u2, u3, i1, i2

\* Every upload sends the same bytes.
SameImage == [u \in Uploads |-> i1]
=============================================================================
