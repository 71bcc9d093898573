--------------------------- MODULE BillRefinement ---------------------------
(***************************************************************************)
(* BillWorkflow implements BillLedger: for every bill that stays           *)
(* undisturbed, the row, the line items and the answers of AddLineItem are  *)
(* those of a ledger entry, although they are produced by an update handler *)
(* and by attempts of activities that fail, time out and commit late.       *)
(***************************************************************************)
EXTENDS BillProperties

LedgerEntry(b) ==
  IF Undisturbed(b)
  THEN [status |-> bills[b].status, charges |-> {Charge(li) : li \in ItemsOf(b)},
        total |-> bills[b].total]
  ELSE [status |-> "FORSAKEN", charges |-> {}, total |-> ZeroTotal]

\* A running handler's charge counts as added once its transaction committed.
CallState(u) ==
  LET r == upd[u].in IN
  IF ~Undisturbed(r.bill) THEN "void"
  ELSE IF upd[u].st = "running"
  THEN IF LineItem(r) \in lineItems THEN "added" ELSE "asked"
  ELSE IF upd[u].code = "OK" THEN "acked" ELSE "refused"

LedgerCall(u) ==
  IF upd[u].st = "idle" THEN [st |-> "idle"]
  ELSE [st |-> CallState(u), bill |-> upd[u].in.bill, charge |-> Charge(upd[u].in)]

Ledger == INSTANCE BillLedger WITH
  Calls <- Updates,
  ledger <- [b \in Bills |-> LedgerEntry(b)],
  call <- [u \in Updates |-> LedgerCall(u)]

\* The workflow, its activities and its endpoints implement the ledger: a
\* charge gets on an undisturbed bill once and only while it is open, its call
\* is acknowledged only afterwards and refused only if the charge is not and
\* will never be there, and closing (CloseBillActivity writes the workflow's
\* total over the row's) changes neither charges nor total and leaves no
\* accepted call undecided.
LedgerSpec == Ledger!Spec
=============================================================================
