----------------------------- MODULE MCEndpoints -----------------------------
(***************************************************************************)
(* Small instances of BillEndpoints, with the constants of MCBill.         *)
(***************************************************************************)
EXTENDS MCBill, BillEndpoints
=============================================================================
