--------------------------- MODULE MCKeysetPaging ---------------------------
(***************************************************************************)
(* A small instance of KeysetPaging: limits that are negative, absent,     *)
(* below and above the maximum.                                            *)
(***************************************************************************)
EXTENDS KeysetPaging

MCLimits == {-1, 0, 1, 4}
=============================================================================
