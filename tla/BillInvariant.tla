--------------------------- MODULE BillInvariant ----------------------------
(***************************************************************************)
(* The inductive invariant behind the properties of BillProperties and the *)
(* refinement of BillLedger.                                               *)
(***************************************************************************)
EXTENDS BillProperties

(* Who waits for what, beyond the types *)

\* A running handler has a request, a workflow that runs handlers and a pending
\* activity; an answered call has the request it was made with.
HandlersOK ==
  \A u \in Updates :
    /\ upd[u].st # "idle" => upd[u].in \in Requests
    /\ upd[u].st = "running" =>
         /\ wf[upd[u].in.bill].phase \in {"await", "drain", "closing"}
         /\ act[u].st # "idle"

\* A handler's pending activity is the append of its request.
AppendsOK ==
  \A u \in Updates : act[u].st # "idle" =>
    upd[u].st = "running" /\ act[u].in = AppendInput(upd[u].in)

\* The main coroutine's pending activity creates or closes its own bill.
MainOK ==
  \A b \in Bills : act[b].st # "idle" =>
    /\ act[b].in.bill = b
    /\ \/ wf[b].phase = "creating" /\ act[b].in \in CreateInputs
       \/ wf[b].phase = "closing" /\ act[b].in \in CloseInputs

\* A pending activity is at its first attempt or a later one; a workflow that
\* was started has a currency.
StartedOK ==
  /\ \A t \in Tasks : act[t].st # "idle" => act[t].try > 0
  /\ \A b \in Bills : wf[b].phase # "none" => wf[b].currency \in Currencies
  /\ \A b \in Bills : wf[b].phase = "none" <=> starts[b] = 0

WellFormed == HandlersOK /\ AppendsOK /\ MainOK /\ StartedOK

\* Primary key, foreign key, and the total of an OPEN row.
TablesAgree ==
  /\ OpenTotalIsItems
  /\ \A li \in lineItems : RowExists(li.bill)

-----------------------------------------------------------------------------
(* For an undisturbed bill b *)

RunningOn(u, b) == upd[u].st = "running" /\ upd[u].in.bill = b

\* Handlers run before the bill closes, one for a key, none for a seen key.
HandlersInv(b) ==
  /\ \A u \in Updates : RunningOn(u, b) =>
       wf[b].phase \in {"await", "drain"} /\ upd[u].in.id \notin wf[b].seen
  /\ \A u, v \in Updates :
       RunningOn(u, b) /\ RunningOn(v, b) /\ upd[u].in.id = upd[v].in.id => u = v

\* A committed append has its item in the table; an open one has a handler
\* that waits for it, or was overtaken by another attempt.
AppendsInv(b) ==
  /\ \A u \in Updates : RunningOn(u, b) /\ act[u].st = "committed" =>
       LineItem(upd[u].in) \in lineItems
  /\ \A x \in open : x.in \in AppendInputs /\ x.in.bill = b =>
       \/ LineItem(x.in) \in lineItems
       \/ \E u \in Updates : RunningOn(u, b) /\ x.in = AppendInput(upd[u].in)

\* Every item in the table is counted or has a handler that will count it, and
\* the workflow's total counts what is seen once.
CountInv(b) ==
  /\ \A li \in ItemsOf(b) :
       \/ li.id \in wf[b].seen
       \/ \E u \in Updates : RunningOn(u, b) /\ LineItem(upd[u].in) = li
  /\ \A c \in Charges :
       wf[b].total[c] = IF c.id \in wf[b].seen THEN ItemsTotal(b)[c] ELSE 0
  /\ wf[b].phase = "none" => wf[b].seen = {}

EndPhases == {"closing", "completed", "failed"}

\* A close of b, or its row once closed, carries the sum of the bill's items
\* and the reason the workflow decided on.
Closes(b, c) == c.total = ItemsTotal(b) /\ c.reason = wf[b].reason

CloseInv(b) ==
  /\ act[b].st # "idle" /\ act[b].in \in CloseInputs => Closes(b, act[b].in)
  /\ \A x \in open : x.in \in CloseInputs /\ x.in.bill = b =>
       wf[b].phase \in EndPhases /\ Closes(b, x.in)
  /\ bills[b].status = "CLOSED" => wf[b].phase \in EndPhases /\ Closes(b, bills[b])

CountsAgree ==
  \A b \in Bills : Undisturbed(b) =>
    HandlersInv(b) /\ AppendsInv(b) /\ CountInv(b) /\ CloseInv(b)

\* What the seen set and the committed attempts stand for, on every bill whose
\* keys no other bill or charge had taken.
AcksAgree ==
  /\ AckedIsPersisted
  /\ \A b \in Bills : "sharedKey" \notin hazard[b] =>
       \A id \in wf[b].seen : \E li \in ItemsOf(b) : li.id = id
  /\ \A u \in Updates :
       upd[u].st = "running" /\ act[u].st = "committed"
         /\ "sharedKey" \notin hazard[upd[u].in.bill] => LineItem(upd[u].in) \in lineItems

-----------------------------------------------------------------------------
(* Where appends, currencies and closes come from *)

\* A call that the endpoint and the validator let pass.
Asked(u) ==
  LET r == upd[u].in IN
  /\ r \in Requests
  /\ r.caller = Owner[r.bill] /\ r.amount > 0
  /\ upd[u].code \notin {"NotFound", "FailedPrecondition"}

\* Every handler, every open append and every line item comes from such a call.
OriginsAgree ==
  /\ \A u \in Updates : upd[u].st = "running" => Asked(u)
  /\ \A x \in open : x.in \in AppendInputs => \E u \in Updates :
       upd[u].st # "idle" /\ Asked(u) /\ x.in = AppendInput(upd[u].in)
  /\ \A li \in lineItems : \E u \in Updates :
       upd[u].st # "idle" /\ Asked(u) /\ li = LineItem(upd[u].in)

\* A bill that was never created is not in the database, and no transaction
\* is under way for it.
BirthInv(b) ==
  /\ starts[b] = 0 => ~RowExists(b) /\ \A x \in open : x.in.bill # b
  /\ ~RowExists(b) => bills[b] = NoRow

\* As long as b has one workflow, everything about b is in its currency.
CurrencyInv(b) ==
  LET currency == wf[b].currency IN
  starts[b] = 1 =>
    /\ RowExists(b) => bills[b].currency = currency
    /\ \A u \in Updates : RunningOn(u, b) => upd[u].in.currency = currency
    /\ act[b].st # "idle" /\ act[b].in \in CreateInputs => act[b].in.currency = currency
    /\ \A x \in open : x.in.bill = b /\ x.in \notin CloseInputs => x.in.currency = currency
    /\ \A li \in ItemsOf(b) : li.currency = currency

\* A close, wherever it is on its way to the log, names whoever caused it, and
\* the reason for which the bill's only workflow closed it.
Attributed(b, c) ==
  /\ c.actor = IF c.reason = "SIGNAL" THEN Owner[b] ELSE SystemActor
  /\ starts[b] = 1 => wf[b].phase \in EndPhases /\ c.reason = wf[b].reason

AttributionInv(b) ==
  /\ act[b].st # "idle" /\ act[b].in \in CloseInputs => Attributed(b, act[b].in)
  /\ \A x \in open : x.in \in CloseInputs /\ x.in.bill = b => Attributed(b, x.in)
  /\ \A e \in EventsOf(b) : e.kind = "CLOSED" =>
       /\ Attributed(b, e)
       /\ bills[b].status = "CLOSED"
       /\ Undisturbed(b) => e.total = bills[b].total

LogsAgree ==
  /\ AuditMirrorsItems
  /\ \A b \in Bills : BirthInv(b) /\ CurrencyInv(b) /\ AttributionInv(b)

IInv ==
  /\ TypeOK /\ WellFormed
  /\ TablesAgree /\ CountsAgree /\ AcksAgree
  /\ OriginsAgree /\ LogsAgree
=============================================================================
