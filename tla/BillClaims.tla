----------------------------- MODULE BillClaims -----------------------------
(***************************************************************************)
(* Statements that the repository's README, comments and migrations make   *)
(* about a bill and that the code does not keep in every execution.  Each  *)
(* is the property of one run in which TLC exhibits an execution against   *)
(* it.                                                                     *)
(***************************************************************************)
EXTENDS BillProperties

\* README "Idempotent line items": duplicate keys are no-ops, "the bill total
\* is never double-counted".  Two handlers for one key both pass the seen check
\* of registerAddLineItemHandler before either activity returns; both count,
\* and CloseBillActivity writes that total to the row.
NeverDoubleCounted ==
  \A b \in Bills : \A c \in Charges : bills[b].total[c] <= 1

\* README "Add a line item": when the response returns the item is persisted
\* "and the totals reflect it".  An update accepted while CloseBillActivity is
\* pending is acknowledged, and the close then writes the total without it.
TotalsReflectAcked ==
  \A u \in Updates :
    upd[u].st = "done" /\ upd[u].code = "OK"
      => bills[upd[u].in.bill].total[Charge(upd[u].in)] >= 1

\* README "Bill lifecycle": CLOSED is final, and a retried CreateBill "will hit
\* the running workflow regardless" (CreateBill).  After the workflow ended the
\* retry starts a new one with an empty total, whose close overwrites the row.
ClosedTotalStands ==
  [][\A b \in Bills :
       bills[b].status = "CLOSED" /\ hazard'[b] = {}
         => bills'[b].total = bills[b].total]_vars

\* README "Create a bill": with periodEnd "the workflow auto-closes when the
\* timer fires".  ItemCount counts the items of all runs, so a bill that has
\* reached the threshold continues as new in every task and never closes.
AutoCloses ==
  \A b \in Bills : Running(b) /\ wf[b].period = "over" ~> Ended(b)
=============================================================================
