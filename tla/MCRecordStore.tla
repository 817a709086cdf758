--------------------------- MODULE MCRecordStore ----------------------------
(***************************************************************************)
(* An instance of RecordStore for TLC.                                     *)
(***************************************************************************)
EXTENDS RecordStore

CONSTANTS k1, k2, short, long

\* The short value fits into one cell, the long one takes two.
Sizes == [v \in Values |-> IF v = long THEN 2 ELSE 1]
=============================================================================
