---------------------------- MODULE MCBillAmounts ----------------------------
(***************************************************************************)
(* A small instance of BillAmounts: with four fine units to a unit, amounts *)
(* that are not positive, vanish, round down, are halves, round up, are     *)
(* whole, and are beyond the column.                                        *)
(***************************************************************************)
EXTENDS BillAmounts

MCInputs == {-4, 0, 1, 2, 3, 4, 5, 6, 7, 8, 60}
=============================================================================
