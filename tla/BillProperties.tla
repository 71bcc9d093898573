--------------------------- MODULE BillProperties ---------------------------
(***************************************************************************)
(* What BillingWorkflow and its activities guarantee to a bill.            *)
(***************************************************************************)
EXTENDS BillWorkflow

\* A bill nothing happened to that the code does not guard against: its
\* workflow was started once, no two handlers ran for one key, no update was
\* accepted while it closed, no caller was told of a failure after the item was
\* (or could still be) written, and no key was already used by another bill.
Undisturbed(b) == hazard[b] = {} /\ starts[b] <= 1

ItemsOf(b) == {li \in lineItems : li.bill = b}

EventsOf(b) == {billEvents[b][i] : i \in DOMAIN billEvents[b]}

-----------------------------------------------------------------------------
(* Invariants *)

\* line_items.id is unique, and the total of an OPEN row is the sum of the
\* bill's line items, whatever attempts were retried, lost or committed late
\* (AppendLineItemActivity adds to the total only when it inserts).
OpenTotalIsItems ==
  /\ \A li, lj \in lineItems : li.id = lj.id => li = lj
  /\ \A b \in Bills : bills[b].status = "OPEN" => bills[b].total = ItemsTotal(b)

\* The total that CloseBillActivity writes over the row is the sum of the
\* bill's line items, for every bill that was left undisturbed.
ClosedTotalExact ==
  \A b \in Bills :
    bills[b].status = "CLOSED" /\ Undisturbed(b) => bills[b].total = ItemsTotal(b)

\* An acknowledged AddLineItem is on its bill, also when it was acknowledged
\* from the seen set, unless another bill or charge had taken its key.
AckedIsPersisted ==
  \A u \in Updates :
    LET r == upd[u].in IN
    upd[u].st = "done" /\ upd[u].code = "OK" /\ "sharedKey" \notin hazard[r.bill]
      => \E li \in ItemsOf(r.bill) : li.id = r.id

\* The audit log mirrors the tables: a bill's log starts with its only OPENED
\* event, has exactly one ITEM_ADDED event for each line item and none for an
\* item that is not there, under the account that owns the bill.
AuditMirrorsItems ==
  \A b \in Bills :
    LET log == billEvents[b] IN
    /\ RowExists(b) <=> log # <<>>
    /\ \A i \in DOMAIN log : (log[i].kind = "OPENED") <=> (i = 1)
    /\ {e.item : e \in {f \in EventsOf(b) : f.kind = "ITEM_ADDED"}} = ItemsOf(b)
    /\ \A i, j \in DOMAIN log :
         log[i].kind = "ITEM_ADDED" /\ log[j] = log[i] => i = j
    /\ \A i \in DOMAIN log :
         log[i].kind = "ITEM_ADDED" => log[i].actor = Owner[b]

ReplayEvent(row, e) ==
  CASE e.kind = "OPENED" -> [NoRow EXCEPT !.status = "OPEN", !.currency = e.currency]
    [] e.kind = "ITEM_ADDED" -> [row EXCEPT !.total = AddTo(@, Charge(e.item))]
    [] e.kind = "CLOSED" -> [row EXCEPT !.status = "CLOSED", !.total = e.total,
                                        !.reason = e.reason]

\* The row a log leads to, event by event.
Replay(log) ==
  LET row[n \in 0 .. Len(log)] ==
        IF n = 0 THEN NoRow ELSE ReplayEvent(row[n - 1], log[n])
  IN row[Len(log)]

\* Replaying a bill's log gives its row: the log loses no state change, also
\* of transactions that commit after Temporal gave them up.
LogReplaysToRow == \A b \in Bills : bills[b] = Replay(billEvents[b])

\* All items of a bill are in the currency of its row, and its workflow's, as
\* long as CreateBill has not started a second workflow for it.
OneCurrency ==
  \A b \in Bills : starts[b] <= 1 =>
    \A li \in ItemsOf(b) : li.currency = bills[b].currency /\ li.currency = wf[b].currency

\* Every line item was asked for by the account that owns the bill, with a
\* positive amount, in a call that the workflow accepted: no rejected call, of
\* another account or in another currency, leaves an item behind.
ItemsWereRequested ==
  \A li \in lineItems : \E u \in Updates :
    /\ upd[u].in # NoInput
    /\ LineItem(upd[u].in) = li
    /\ upd[u].in.caller = Owner[li.bill] /\ upd[u].in.amount > 0
    /\ upd[u].code \notin {"NotFound", "FailedPrecondition"}

\* The close recorded in the log is attributed to the owner exactly when the
\* owner's signal closed the bill, and to the system when the period end did,
\* and the owner is never charged with a close before the bill was closing.  An
\* undisturbed bill may have several such events, one for each attempt of
\* CloseBillActivity that committed, but all say the same.
CloseAttribution ==
  \A b \in Bills : \A i \in DOMAIN billEvents[b] :
    LET e == billEvents[b][i] IN
    e.kind = "CLOSED" =>
      /\ e.actor = IF e.reason = "SIGNAL" THEN Owner[b] ELSE SystemActor
      /\ starts[b] = 1 =>
           /\ wf[b].phase \in {"closing", "completed", "failed"}
           /\ e.reason = wf[b].reason
      /\ Undisturbed(b) => e.total = bills[b].total

-----------------------------------------------------------------------------
(* Action properties *)

\* Once a row is CLOSED neither it nor the bill's line items change, for every
\* bill that stays undisturbed: late commits and second attempts of
\* CloseBillActivity write what is there.
ClosedIsFrozen ==
  [][\A b \in Bills :
       bills[b].status = "CLOSED" /\ hazard'[b] = {} /\ starts'[b] <= 1
         => bills'[b] = bills[b] /\ ItemsOf(b)' = ItemsOf(b)]_vars

\* ContinueAsNew hands over every counted item: within one workflow the seen
\* set, the count and the total only grow, and together.
HandOverKeepsItems ==
  [][\A b \in Bills : starts'[b] = starts[b] =>
       /\ wf[b].seen \subseteq wf'[b].seen
       /\ wf'[b].itemCount - wf[b].itemCount
            = IF wf'[b].total = wf[b].total THEN 0 ELSE 1]_vars

-----------------------------------------------------------------------------
(* Liveness, under FairSpec *)

\* Every accepted update is answered, though its activity may be refused and
\* retried, and its workflow may meanwhile wait to roll over, close or end.
UpdateIsAnswered ==
  \A u \in Updates : upd[u].st = "running" ~> upd[u].st = "done"

\* A bill whose period end has passed, or whose close was signalled, ends,
\* unless it rolls over at the ContinueAsNew threshold.
CloseIsReached ==
  \A b \in Bills :
    Running(b) /\ (wf[b].signal \/ wf[b].period = "over")
      ~> Ended(b) \/ wf[b].phase = "resume"
=============================================================================
