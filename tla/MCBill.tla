------------------------------- MODULE MCBill -------------------------------
(***************************************************************************)
(* Small instances of BillWorkflow.  The bills are owned by "alpha"; a     *)
(* request of "beta", one in a currency other than the bill's and one      *)
(* without a positive amount are rejected.  A period end that is pending    *)
(* may pass at any time, or never.                                         *)
(***************************************************************************)
EXTENDS BillClaims, BillInvariant, BillRefinement, TLC

CONSTANTS b1, b2, i1, i2

MCAccounts == {"alpha", "beta"}
MCOwner == [b \in Bills |-> "alpha"]
MCCurrencies == {"USD", "GEL", "XXX"}
MCRegistered == {"USD", "GEL"}
MCAmounts == {0, 1}

\* With Tried requests the updates and the keys are interchangeable.
MCSymmetry == Permutations(Updates) \cup Permutations(Items)

Request(b, i, amount, currency, caller) ==
  [bill |-> b, id |-> i, amount |-> amount, currency |-> currency,
   caller |-> caller, described |-> TRUE]

\* Plain additions in USD.
Good == {Request(b, i, 1, "USD", "alpha") : b \in Bills, i \in Items}

\* Additions, the same by another account, and without a positive amount.
Tried ==
  UNION {{r, [r EXCEPT !.caller = "beta"], [r EXCEPT !.amount = 0]} : r \in Good}

\* On b1 an addition and one whose key the instance leaves out of UuidItems; on
\* b2 an addition with the key of b1's.
Shared ==
  {Request(b1, i1, 1, "USD", "alpha"), Request(b1, i2, 1, "USD", "alpha"),
   Request(b2, i1, 1, "USD", "alpha")}

AnyPeriod == [b \in Bills |-> {"none", "pending", "over"}]
NoPeriod == [b \in Bills |-> {"none"}]
PeriodOfB1 == [b \in Bills |-> IF b = b1 THEN {"pending"} ELSE {"none"}]
=============================================================================
