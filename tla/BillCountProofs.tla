-------------------------- MODULE BillCountProofs ---------------------------
(***************************************************************************)
(* What a caller is told and what a bill is closed with: acknowledged items *)
(* are in the table, and an undisturbed bill is closed once and for all     *)
(* with the sum of its line items.                                          *)
(***************************************************************************)
EXTENDS BillProofs

BillInv(b) == HandlersInv(b) /\ AppendsInv(b) /\ CountInv(b) /\ CloseInv(b)

-----------------------------------------------------------------------------
(* Records the steps pass on *)

LEMMA AppendInputItem ==
  ASSUME NEW r
  PROVE  /\ LineItem(AppendInput(r)) = LineItem(r)
         /\ LineItem(r).id = r.id /\ LineItem(r).bill = r.bill
         /\ AppendInput(r).id = r.id /\ AppendInput(r).bill = r.bill
         /\ AppendInput(r).kind = "append"
BY DEF LineItem, AppendInput

LEMMA KindsDiffer ==
  /\ \A in \in CloseInputs : in.kind = "close"
  /\ \A in \in CreateInputs : in.kind = "create"
  /\ \A in \in AppendInputs : in.kind = "append"
BY DEF CloseInputs, CreateInputs, AppendInputs

\* Two items of the table that share a charge are one.
LEMMA ItemsTotalMeans ==
  ASSUME NEW b \in Bills, NEW c \in Charges
  PROVE  /\ ItemsTotal(b)[c] = 1 <=> \E li \in lineItems : li.bill = b /\ Charge(li) = c
         /\ ItemsTotal(b)[c] = 0 <=> ~ \E li \in lineItems : li.bill = b /\ Charge(li) = c
BY DEF ItemsTotal

LEMMA HazardGrows ==
  ASSUME WellTyped, NEW b \in Bills, [Next]_vars
  PROVE  hazard[b] \subseteq hazard'[b]
<1>1. CASE hazard' = hazard
  BY <1>1
<1>2. ASSUME NEW u \in Updates, NEW r \in Requests, AddLineItemStarted(u, r)
      PROVE  hazard[b] \subseteq hazard'[b]
  BY <1>2 DEF AddLineItemStarted, WellTyped, TypeOK
<1>3. ASSUME NEW u \in Updates, HandlerFailed(u)
      PROVE  hazard[b] \subseteq hazard'[b]
  BY <1>3 DEF HandlerFailed, WellTyped, TypeOK
<1>4. ASSUME NEW x \in open, CommitTx(x)
      PROVE  hazard[b] \subseteq hazard'[b]
  BY <1>4 DEF CommitTx, WellTyped, TypeOK
<1> QED
  BY <1>1, <1>2, <1>3, <1>4
  DEF Next, vars, CreateBill, CloseBill, WorkflowTask, PeriodPasses, FirstTask,
      CreateDone, CreateFailed, ResumeTask, SelectorTask, CloseDone, CloseFailed,
      EndWorkflow, AddLineItemRefused, AddLineItemAnswered, HandlerTask, HandlerDone,
      StartAttempt, LoseAttempt, ExpireActivity, EndAttempt, AbortTx

\* A bill is never undisturbed again.
LEMMA StaysUndisturbed ==
  ASSUME WellTyped, NEW b \in Bills, [Next]_vars, Undisturbed(b)'
  PROVE  Undisturbed(b)
<1>1. hazard[b] \subseteq hazard'[b]
  BY HazardGrows
<1>2. starts[b] \in Nat /\ (starts'[b] = starts[b] \/ starts'[b] = starts[b] + 1)
  <2>1. starts[b] \in Nat
    BY WorkflowAssumption DEF WellTyped, TypeOK
  <2>2. ASSUME NEW c \in Bills, NEW cur \in Currencies, NEW p \in Periods[c],
               CreateBill(c, cur, p)
        PROVE  starts'[b] = starts[b] \/ starts'[b] = starts[b] + 1
    BY <2>2 DEF CreateBill, WellTyped, TypeOK
  <2> QED
    BY <2>1, <2>2
    DEF Next, vars, CloseBill, WorkflowTask, PeriodPasses, FirstTask,
        CreateDone, CreateFailed, ResumeTask, SelectorTask, CloseDone, CloseFailed,
        EndWorkflow, AddLineItemRefused, AddLineItemAnswered, AddLineItemStarted,
        HandlerTask, HandlerDone, HandlerFailed,
        StartAttempt, LoseAttempt, ExpireActivity, EndAttempt, CommitTx, AbortTx
<1> QED
  BY <1>1, <1>2 DEF Undisturbed

-----------------------------------------------------------------------------
(* Steps that do not concern a bill *)

\* A step that adds no item to b, keeps its handlers, its seen set and its
\* total, and moves nothing but its phase and its attempts.
LEMMA Frame ==
  ASSUME WellTyped, WellTyped', NEW b \in Bills, BillInv(b),
         lineItems \subseteq lineItems', ItemsOf(b)' = ItemsOf(b),
         ItemsTotal(b)' = ItemsTotal(b),
         bills'[b].status = "CLOSED" =>
           \/ bills'[b] = bills[b]
           \/ wf[b].phase \in EndPhases /\ Closes(b, bills'[b]),
         wf'[b].seen = wf[b].seen, wf'[b].total = wf[b].total,
         wf[b].phase \in {"await", "drain"} => wf'[b].phase \in {"await", "drain"},
         wf[b].phase \in EndPhases =>
           wf'[b].phase \in EndPhases /\ wf'[b].reason = wf[b].reason,
         wf'[b].phase = "none" => wf[b].phase = "none",
         \A u \in Updates : RunningOn(u, b)' <=> RunningOn(u, b),
         \A u \in Updates : RunningOn(u, b) => upd'[u].in = upd[u].in,
         \A u \in Updates : RunningOn(u, b) /\ act'[u].st = "committed" =>
           act[u].st = "committed" \/ LineItem(upd[u].in) \in lineItems',
         \A x \in open' :
           \/ x \in open
           \/ x.in.bill # b
           \/ \E u \in Updates : RunningOn(u, b) /\ x.in = AppendInput(upd[u].in)
           \/ act[b].st # "idle" /\ x.in = act[b].in,
         act'[b].st # "idle" => act[b].st # "idle" /\ act'[b].in = act[b].in
  PROVE  BillInv(b)'
<1>1. HandlersInv(b)'
  BY DEF BillInv, HandlersInv
<1>2. AppendsInv(b)'
  <2>1. ASSUME NEW u \in Updates, RunningOn(u, b)', act'[u].st = "committed"
        PROVE  LineItem(upd'[u].in) \in lineItems'
    BY <2>1 DEF BillInv, AppendsInv
  <2>2. ASSUME NEW x \in open', x.in \in AppendInputs, x.in.bill = b
        PROVE  \/ LineItem(x.in) \in lineItems'
               \/ \E u \in Updates : RunningOn(u, b)' /\ x.in = AppendInput(upd'[u].in)
    <3>1. CASE x \in open
      BY <2>2, <3>1 DEF BillInv, AppendsInv
    <3>2. CASE act[b].st # "idle" /\ x.in = act[b].in
      BY <2>2, <3>2, KindsDiffer DEF WellTyped, WellFormed, MainOK
    <3>3. CASE \E u \in Updates : RunningOn(u, b) /\ x.in = AppendInput(upd[u].in)
      BY <3>3
    <3> QED
      BY <2>2, <3>1, <3>2, <3>3
  <2> QED
    BY <2>1, <2>2 DEF AppendsInv, RunningOn, AppendInput, LineItem
<1>3. CountInv(b)'
  <2>1. \A li \in ItemsOf(b)' :
          \/ li.id \in wf'[b].seen
          \/ \E u \in Updates : RunningOn(u, b)' /\ LineItem(upd'[u].in) = li
    BY DEF BillInv, CountInv
  <2>2. \A c \in Charges :
          wf'[b].total[c] = IF c.id \in wf'[b].seen THEN ItemsTotal(b)'[c] ELSE 0
    BY DEF BillInv, CountInv
  <2>3. wf'[b].phase = "none" => wf'[b].seen = {}
    BY DEF BillInv, CountInv
  <2> QED
    BY <2>1, <2>2, <2>3 DEF CountInv
<1>4. CloseInv(b)'
  <2>1. ASSUME NEW c, wf[b].phase \in EndPhases, Closes(b, c)
        PROVE  wf'[b].phase \in EndPhases /\ c.total = ItemsTotal(b)' /\ c.reason = wf'[b].reason
    BY <2>1 DEF Closes
  <2>2. act[b].st # "idle" /\ act[b].in \in CloseInputs =>
          wf[b].phase \in EndPhases /\ Closes(b, act[b].in)
    BY KindsDiffer DEF WellTyped, WellFormed, MainOK, EndPhases, BillInv, CloseInv
  <2>3. act'[b].st # "idle" /\ act'[b].in \in CloseInputs =>
          act'[b].in.total = ItemsTotal(b)' /\ act'[b].in.reason = wf'[b].reason
    BY <2>1, <2>2
  <2>4. ASSUME NEW x \in open', x.in \in CloseInputs, x.in.bill = b
        PROVE  /\ wf'[b].phase \in EndPhases
               /\ x.in.total = ItemsTotal(b)' /\ x.in.reason = wf'[b].reason
    <3>1. CASE x \in open
      BY <2>1, <2>4, <3>1 DEF BillInv, CloseInv
    <3>2. CASE act[b].st # "idle" /\ x.in = act[b].in
      BY <2>1, <2>2, <2>4, <3>2
    <3>3. CASE \E u \in Updates : RunningOn(u, b) /\ x.in = AppendInput(upd[u].in)
      BY <2>4, <3>3, KindsDiffer, AppendInputItem
    <3> QED
      BY <2>4, <3>1, <3>2, <3>3
  <2>5. bills'[b].status = "CLOSED" =>
          /\ wf'[b].phase \in EndPhases
          /\ bills'[b].total = ItemsTotal(b)' /\ bills'[b].reason = wf'[b].reason
    BY <2>1 DEF BillInv, CloseInv
  <2> QED
    BY <2>3, <2>4, <2>5 DEF CloseInv, Closes
<1> QED
  BY <1>1, <1>2, <1>3, <1>4 DEF BillInv

-----------------------------------------------------------------------------
(* Commits *)

\* What a transaction does to the tables, as far as a bill b is concerned.
LEMMA ExecuteEffect ==
  ASSUME DBTypeOK, TablesAgree, NEW in \in Inputs, Execute(in), NEW b \in Bills
  PROVE  /\ lineItems \subseteq lineItems'
         /\ in.kind # "append" => lineItems' = lineItems
         /\ in.kind = "append" =>
              \/ HasItem(in.id) /\ UNCHANGED dbVars
              \/ /\ ~HasItem(in.id) /\ LineItem(in) \in LineItems
                 /\ lineItems' = lineItems \cup {LineItem(in)}
                 /\ bills'[in.bill].status = bills[in.bill].status
         /\ in.bill # b => bills'[b] = bills[b]
         /\ in.kind = "create" =>
              bills'[b] = bills[b] \/ (bills[b].status = "NONE" /\ bills'[b].status = "OPEN")
         /\ in.kind = "close" /\ in.bill = b =>
              bills'[b] = [bills[b] EXCEPT !.status = "CLOSED", !.total = in.total,
                                           !.reason = in.reason]
<1>0. bills \in [Bills -> Rows] /\ in.bill \in Bills
  BY InputTypes DEF DBTypeOK
<1>1. CASE UNCHANGED dbVars /\ in.kind # "close" /\ (in.kind = "append" => HasItem(in.id))
  BY <1>1 DEF dbVars
<1>2. CASE in.kind = "create" /\ CreateBillActivity(in) /\ ~RowExists(in.bill)
  <2> DEFINE row == [NoRow EXCEPT !.status = "OPEN", !.currency = in.currency]
  <2>1. bills' = [bills EXCEPT ![in.bill] = row] /\ lineItems' = lineItems
    BY <1>2 DEF CreateBillActivity
  <2>2. row.status = "OPEN"
    BY DEF NoRow
  <2> HIDE DEF row
  <2> QED
    BY <1>0, <1>2, <2>1, <2>2 DEF RowExists
<1>3. CASE in.kind = "append" /\ AppendLineItemActivity(in) /\ ~HasItem(in.id)
  <2> DEFINE row == [bills[in.bill] EXCEPT !.total = AddTo(@, Charge(in))]
  <2>1. bills' = [bills EXCEPT ![in.bill] = row] /\ lineItems' = lineItems \cup {LineItem(in)}
    BY <1>3 DEF AppendLineItemActivity
  <2>2. row.status = bills[in.bill].status
    BY <1>0 DEF Rows
  <2>3. LineItem(in) \in LineItems
    BY <1>3, InputTypes, ChargeTypes
  <2> HIDE DEF row
  <2> QED
    BY <1>0, <1>3, <2>1, <2>2, <2>3
<1>4. CASE in.kind = "close" /\ CloseBillActivity(in)
  <2> DEFINE row == [bills[in.bill] EXCEPT !.status = "CLOSED", !.total = in.total,
                                           !.reason = in.reason]
  <2>1. bills' = [bills EXCEPT ![in.bill] = row] /\ lineItems' = lineItems
    BY <1>4 DEF CloseBillActivity
  <2>2. bills'[in.bill] = row /\ (in.bill # b => bills'[b] = bills[b])
    BY <1>0, <2>1
  <2> QED
    BY <1>4, <2>1, <2>2
<1> QED
  BY <1>1, <1>2, <1>3, <1>4 DEF Execute, CreateBillActivity, AppendLineItemActivity

\* The append of an undisturbed bill has its own item in the table afterwards.
LEMMA AppendCommitted ==
  ASSUME WellTyped, TablesAgree, NEW x \in open, CommitTx(x), x.in.kind = "append",
         "sharedKey" \notin hazard'[x.in.bill]
  PROVE  LineItem(x.in) \in lineItems'
<1>1. x.in \in Inputs /\ x.in.bill \in Bills /\ DBTypeOK /\ Execute(x.in)
  BY InputTypes DEF WellTyped, TypeOK, Attempts, CommitTx
<1>2. ~SharesKey(x.in)
  <2>1. hazard'[x.in.bill] = hazard[x.in.bill]
                    \cup (IF SharesKey(x.in) THEN {"sharedKey"} ELSE {})
    BY <1>1 DEF CommitTx, WellTyped, TypeOK
  <2> QED
    BY <2>1
<1>3. CASE HasItem(x.in.id) /\ UNCHANGED dbVars
  BY <1>2, <1>3 DEF SharesKey, HasItem, dbVars
<1>4. CASE lineItems' = lineItems \cup {LineItem(x.in)}
  BY <1>4
<1> QED
  BY <1>1, <1>3, <1>4, ExecuteEffect

\* What a commit does besides.
LEMMA CommitActs ==
  ASSUME WellTyped, NEW x \in open, CommitTx(x)
  PROVE  /\ UNCHANGED <<wf, upd, starts>> /\ open' \subseteq open
         /\ \A t \in Tasks : act'[t].st # "idle" => act[t].st # "idle" /\ act'[t].in = act[t].in
         /\ \A t \in Tasks : act'[t].st = "committed" =>
              act[t].st = "committed" \/ (act[t].st # "idle" /\ act[t].in = x.in)
<1>1. UNCHANGED <<wf, upd, starts>> /\ open' \subseteq open
  BY DEF CommitTx
<1>2. CASE act' = act
  BY <1>1, <1>2
<1>3. CASE IsCurrent(x) /\ act' = [act EXCEPT ![x.task].st = "committed"]
  <2>1. act[x.task].st = "started" /\ act[x.task].in = x.in
    BY <1>3 DEF IsCurrent, Attempt
  <2>2. x.task \in Tasks
    BY DEF WellTyped, TypeOK, Attempts
  <2>3. /\ \A t \in Tasks \ {x.task} : act'[t] = act[t]
        /\ act'[x.task] = [act[x.task] EXCEPT !.st = "committed"]
    BY <1>3, <2>2 DEF WellTyped, TypeOK
  <2>4. act'[x.task].in = act[x.task].in
    BY <2>2, <2>3, SetState DEF WellTyped, TypeOK
  <2> QED
    BY <1>1, <2>1, <2>2, <2>3, <2>4
<1> QED
  BY <1>2, <1>3 DEF CommitTx

\* A commit that inserts an item of b: some handler of b waits to count it.
LEMMA NewItemCounts ==
  ASSUME WellTyped, WellTyped', TablesAgree, NEW b \in Bills, BillInv(b), Undisturbed(b)',
         NEW x \in open, CommitTx(x), x.in.kind = "append", x.in.bill = b,
         ~HasItem(x.in.id)
  PROVE  BillInv(b)'
<1> DEFINE li == LineItem(x.in)
<1>1. x \in Attempts /\ x.in \in Inputs /\ x.in \in AppendInputs /\ DBTypeOK /\ Execute(x.in)
  BY InputTypes DEF WellTyped, TypeOK, Attempts, CommitTx
<1>2. /\ lineItems' = lineItems \cup {li} /\ li \in LineItems
      /\ bills'[b].status = bills[b].status
  BY <1>1, ExecuteEffect
<1>3. li.id = x.in.id /\ li.bill = b /\ Charge(li) \in Charges /\ Charge(li).id = x.in.id
  BY <1>2, ChargeTypes DEF LineItem, Charge
<1>4. li \notin lineItems
  BY <1>3 DEF HasItem
<1>5. PICK u \in Updates : RunningOn(u, b) /\ x.in = AppendInput(upd[u].in)
  BY <1>1, <1>4 DEF BillInv, AppendsInv
<1>6. wf[b].phase \in {"await", "drain"} /\ upd[u].in.id \notin wf[b].seen
  BY <1>5 DEF BillInv, HandlersInv
<1>7. LineItem(upd[u].in) = li /\ upd[u].in.id = li.id
  BY <1>3, <1>5, AppendInputItem
<1>8. /\ UNCHANGED <<wf, upd, starts>> /\ open' \subseteq open
      /\ \A t \in Tasks : act'[t].st # "idle" => act[t].st # "idle" /\ act'[t].in = act[t].in
      /\ \A t \in Tasks : act'[t].st = "committed" =>
           act[t].st = "committed" \/ (act[t].st # "idle" /\ act[t].in = x.in)
  BY CommitActs
<1> HIDE DEF li
<1>9. Updates \subseteq Tasks /\ b \in Tasks
  BY DEF Tasks
<1>10. HandlersInv(b)'
  BY <1>8 DEF BillInv, HandlersInv, RunningOn
<1>11. AppendsInv(b)'
  <2>1. ASSUME NEW v \in Updates, RunningOn(v, b), act'[v].st = "committed"
        PROVE  LineItem(upd[v].in) \in lineItems'
    <3>1. CASE act[v].st = "committed"
      BY <1>2, <2>1, <3>1 DEF BillInv, AppendsInv
    <3>2. CASE act[v].st # "committed"
      <4>1. act[v].in = x.in /\ act[v].st # "idle"
        BY <1>8, <1>9, <2>1, <3>2
      <4>2. act[v].in = AppendInput(upd[v].in)
        BY <4>1, HandlerFacts
      <4>3. LineItem(upd[v].in) = li
        BY <4>1, <4>2, AppendInputItem DEF li
      <4> QED
        BY <1>2, <4>3
    <3> QED
      BY <3>1, <3>2
  <2>2. ASSUME NEW y \in open', y.in \in AppendInputs, y.in.bill = b
        PROVE  \/ LineItem(y.in) \in lineItems'
               \/ \E v \in Updates : RunningOn(v, b) /\ y.in = AppendInput(upd[v].in)
    BY <1>2, <1>8, <2>2 DEF BillInv, AppendsInv
  <2> QED
    BY <1>8, <2>1, <2>2 DEF AppendsInv, RunningOn, AppendInput, LineItem
<1>12. CountInv(b)'
  <2>1. ASSUME NEW lj \in ItemsOf(b)'
        PROVE  \/ lj.id \in wf[b].seen
               \/ \E v \in Updates : RunningOn(v, b) /\ LineItem(upd[v].in) = lj
    <3>1. CASE lj = li
      BY <1>5, <1>7, <3>1
    <3>2. CASE lj # li
      BY <1>2, <3>2 DEF ItemsOf, BillInv, CountInv
    <3> QED
      BY <3>1, <3>2
  <2>2. ASSUME NEW c \in Charges, c.id \in wf[b].seen
        PROVE  ItemsTotal(b)'[c] = ItemsTotal(b)[c]
    <3>1. c # Charge(li)
      BY <1>3, <1>6, <1>7, <2>2
    <3> QED
      BY <1>2, <3>1 DEF ItemsTotal
  <2>3. \A c \in Charges :
          wf[b].total[c] = IF c.id \in wf[b].seen THEN ItemsTotal(b)'[c] ELSE 0
    BY <2>2 DEF BillInv, CountInv
  <2>4. wf[b].phase = "none" => wf[b].seen = {}
    BY DEF BillInv, CountInv
  <2> QED
    BY <1>8, <2>1, <2>3, <2>4 DEF CountInv, RunningOn, LineItem
<1>13. CloseInv(b)'
  <2>1. wf[b].phase \notin EndPhases
    BY <1>6 DEF EndPhases
  <2>2. bills'[b].status # "CLOSED"
    BY <1>2, <2>1 DEF BillInv, CloseInv
  <2>3. \A y \in open' : ~(y.in \in CloseInputs /\ y.in.bill = b)
    BY <1>8, <2>1 DEF BillInv, CloseInv
  <2>4. act'[b].st = "idle"
    BY <1>6, <1>8, <1>9 DEF WellTyped, WellFormed, MainOK
  <2> QED
    BY <2>2, <2>3, <2>4 DEF CloseInv
<1> QED
  BY <1>10, <1>11, <1>12, <1>13 DEF BillInv

LEMMA CommitCounts ==
  ASSUME WellTyped, WellTyped', TablesAgree, NEW b \in Bills, BillInv(b), Undisturbed(b)',
         NEW x \in open, CommitTx(x)
  PROVE  BillInv(b)'
<1>1. x.in \in Inputs /\ x.in.bill \in Bills /\ DBTypeOK /\ Execute(x.in)
  BY InputTypes DEF WellTyped, TypeOK, Attempts, CommitTx
<1>2. CASE x.in.kind = "append" /\ x.in.bill = b /\ ~HasItem(x.in.id)
  BY <1>2, NewItemCounts
<1>3. CASE ~(x.in.kind = "append" /\ x.in.bill = b /\ ~HasItem(x.in.id))
  <2>1. /\ UNCHANGED <<wf, upd, starts>> /\ open' \subseteq open
        /\ \A t \in Tasks : act'[t].st # "idle" => act[t].st # "idle" /\ act'[t].in = act[t].in
        /\ \A t \in Tasks : act'[t].st = "committed" =>
             act[t].st = "committed" \/ (act[t].st # "idle" /\ act[t].in = x.in)
    BY CommitActs
  <2>2. Updates \subseteq Tasks /\ b \in Tasks
    BY DEF Tasks
  <2>3. \/ lineItems' = lineItems
        \/ \E li \in LineItems : li.bill # b /\ lineItems' = lineItems \cup {li}
    <3>1. LineItem(x.in).bill = x.in.bill
      BY DEF LineItem
    <3> QED
      BY <1>1, <1>3, <3>1, ExecuteEffect DEF dbVars
  <2>4. lineItems \subseteq lineItems' /\ ItemsOf(b)' = ItemsOf(b)
    BY <2>3 DEF ItemsOf
  <2>5. ItemsTotal(b)' = ItemsTotal(b)
    BY <2>3 DEF ItemsTotal
  <2>6. bills'[b].status = "CLOSED" =>
           \/ bills'[b] = bills[b]
           \/ wf[b].phase \in EndPhases /\ Closes(b, bills'[b])
    <3>1. CASE x.in.kind = "close" /\ x.in.bill = b
      <4>1. x.in \in CloseInputs
        BY <1>1, <3>1, InputTypes
      <4>2. wf[b].phase \in EndPhases /\ Closes(b, x.in)
        BY <3>1, <4>1 DEF BillInv, CloseInv
      <4>3. bills'[b] = [bills[b] EXCEPT !.status = "CLOSED", !.total = x.in.total,
                                         !.reason = x.in.reason]
        BY <1>1, <3>1, ExecuteEffect
      <4>4. bills'[b].total = x.in.total /\ bills'[b].reason = x.in.reason
        <5>1. bills[b] \in Rows
          BY DEF WellTyped, TypeOK, DBTypeOK
        <5> QED
          BY <4>3, <5>1 DEF Rows
      <4> QED
        BY <4>2, <4>4 DEF Closes
    <3>2. CASE x.in.kind = "create" \/ x.in.bill # b
      BY <1>1, <3>2, ExecuteEffect
    <3>3. CASE x.in.kind = "append" /\ HasItem(x.in.id)
      BY <1>1, <3>3, ExecuteEffect DEF dbVars
    <3>4. x.in.kind \in {"create", "append", "close"}
      BY <1>1, KindsDiffer DEF Inputs
    <3> QED
      BY <1>3, <3>1, <3>2, <3>3, <3>4
  <2>7. ASSUME NEW u \in Updates, RunningOn(u, b), act'[u].st = "committed",
               act[u].st # "committed"
        PROVE  LineItem(upd[u].in) \in lineItems'
    <3>1. act[u].st # "idle" /\ act[u].in = x.in
      BY <2>1, <2>2, <2>7
    <3>2. x.in = AppendInput(upd[u].in)
      BY <3>1, HandlerFacts
    <3>3. x.in.kind = "append" /\ x.in.bill = b /\ LineItem(x.in) = LineItem(upd[u].in)
      BY <2>7, <3>2, AppendInputItem DEF RunningOn
    <3>4. "sharedKey" \notin hazard'[b]
      BY DEF Undisturbed
    <3> QED
      BY <3>3, <3>4, AppendCommitted
  <2>8. \A u \in Updates : RunningOn(u, b)' <=> RunningOn(u, b)
    BY <2>1 DEF RunningOn
  <2> QED
    BY <2>1, <2>2, <2>4, <2>5, <2>6, <2>7, <2>8, Frame
<1> QED
  BY <1>2, <1>3

-----------------------------------------------------------------------------
(* Attempts, and steps of the main coroutine that run no handlers *)

\* A step of an attempt other than its commit.
LEMMA AttemptActs ==
  ASSUME WellTyped, NEW t \in Tasks,
         \/ StartAttempt(t) \/ LoseAttempt(t) \/ ExpireActivity(t)
         \/ \E x \in open : AbortTx(x) /\ x.task = t
  PROVE  /\ \A s \in Tasks : act'[s].st # "idle" => act[s].st # "idle" /\ act'[s].in = act[s].in
         /\ \A s \in Tasks : act'[s].st = "committed" => act[s].st = "committed"
<1>1. act[t] \in Activities /\ act \in [Tasks -> Activities]
  BY DEF WellTyped, TypeOK
<1>2. /\ RetryOrFail(act[t]).in = act[t].in /\ RetryOrFail(act[t]).st # "committed"
      /\ [act[t] EXCEPT !.st = "started"].in = act[t].in
      /\ [act[t] EXCEPT !.st = "failed"].in = act[t].in
      /\ [act[t] EXCEPT !.st = "started"].st = "started"
      /\ [act[t] EXCEPT !.st = "failed"].st = "failed"
  BY <1>1 DEF RetryOrFail, Activities
<1>3. CASE act' = act
  BY <1>3
<1>4. CASE \E y : /\ act' = [act EXCEPT ![t] = y] /\ act[t].st # "idle"
                  /\ y.in = act[t].in /\ y.st # "committed"
  BY <1>1, <1>4
<1>5. CASE StartAttempt(t)
  BY <1>2, <1>4, <1>5 DEF StartAttempt
<1>6. CASE LoseAttempt(t)
  BY <1>2, <1>4, <1>6 DEF LoseAttempt
<1>7. CASE ExpireActivity(t)
  BY <1>2, <1>4, <1>7 DEF ExpireActivity
<1>8. ASSUME NEW x \in open, AbortTx(x), x.task = t
      PROVE  \/ act' = act
             \/ \E y : /\ act' = [act EXCEPT ![t] = y] /\ act[t].st # "idle"
                       /\ y.in = act[t].in /\ y.st # "committed"
  BY <1>2, <1>8 DEF AbortTx, IsCurrent
<1> QED
  BY <1>3, <1>4, <1>5, <1>6, <1>7, <1>8

LEMMA AttemptCounts ==
  ASSUME WellTyped, WellTyped', NEW b \in Bills, BillInv(b),
         NEW t \in Tasks,
         \/ StartAttempt(t) \/ LoseAttempt(t) \/ ExpireActivity(t)
         \/ \E x \in open : AbortTx(x) /\ x.task = t
  PROVE  BillInv(b)'
<1>1. UNCHANGED <<bills, lineItems, billEvents, wf, starts, upd, hazard>>
  BY DEF StartAttempt, LoseAttempt, ExpireActivity, AbortTx, dbVars
<1>2. /\ \A s \in Tasks : act'[s].st # "idle" => act[s].st # "idle" /\ act'[s].in = act[s].in
      /\ \A s \in Tasks : act'[s].st = "committed" => act[s].st = "committed"
  BY AttemptActs
<1>3. Updates \subseteq Tasks /\ b \in Tasks
  BY DEF Tasks
<1>4. ASSUME NEW x \in open', x \notin open, x.in.bill = b
      PROVE  \/ \E u \in Updates : RunningOn(u, b) /\ x.in = AppendInput(upd[u].in)
             \/ act[b].st # "idle" /\ x.in = act[b].in
  <2>1. StartAttempt(t) /\ x = Attempt(t)
    BY <1>4 DEF StartAttempt, LoseAttempt, ExpireActivity, AbortTx
  <2>2. x.in = act[t].in /\ act[t].st # "idle"
    BY <2>1 DEF StartAttempt, Attempt
  <2>3. CASE t \in Updates
    <3>1. upd[t].st = "running" /\ act[t].in = AppendInput(upd[t].in)
      BY <2>2, <2>3, HandlerFacts
    <3>2. upd[t].in.bill = b
      BY <1>4, <2>2, <3>1, AppendInputItem
    <3> QED
      BY <2>2, <2>3, <3>1, <3>2 DEF RunningOn
  <2>4. CASE t \in Bills
    <3>1. act[t].in.bill = t
      BY <2>2, <2>4 DEF WellTyped, WellFormed, MainOK
    <3> QED
      BY <1>4, <2>2, <3>1
  <2> QED
    BY <2>3, <2>4 DEF Tasks
<1>5. ItemsOf(b)' = ItemsOf(b) /\ ItemsTotal(b)' = ItemsTotal(b)
  BY <1>1 DEF ItemsOf, ItemsTotal
<1>6. \A u \in Updates : RunningOn(u, b)' <=> RunningOn(u, b)
  BY <1>1 DEF RunningOn
<1>7. \A u \in Updates : RunningOn(u, b) /\ act'[u].st = "committed" => act[u].st = "committed"
  BY <1>2, <1>3
<1> QED
  BY <1>1, <1>2, <1>3, <1>4, <1>5, <1>6, <1>7, Frame

\* A workflow task, handler or call that concerns another bill.
LEMMA OtherCounts ==
  ASSUME WellTyped, WellTyped', NEW b \in Bills, BillInv(b),
         UNCHANGED <<bills, lineItems, billEvents, open>>,
         wf'[b] = wf[b], act'[b] = act[b],
         \A u \in Updates : RunningOn(u, b)' <=> RunningOn(u, b),
         \A u \in Updates : RunningOn(u, b) => upd'[u].in = upd[u].in /\ act'[u] = act[u]
  PROVE  BillInv(b)'
<1>1. ItemsOf(b)' = ItemsOf(b) /\ ItemsTotal(b)' = ItemsTotal(b)
  BY DEF ItemsOf, ItemsTotal
<1>2. \A u \in Updates : RunningOn(u, b) /\ act'[u].st = "committed" => act[u].st = "committed"
  OBVIOUS
<1> QED
  BY <1>1, <1>2, Frame

\* Steps that set the signal, the timer or the phase of some bill d.
LEMMA MainCounts ==
  ASSUME WellTyped, WellTyped', NEW b \in Bills, BillInv(b), NEW d \in Bills,
         CloseBill(d) \/ PeriodPasses(d) \/ FirstTask(d) \/ CreateFailed(d)
  PROVE  BillInv(b)'
<1>1. UNCHANGED <<bills, lineItems, billEvents, starts, upd, open, hazard>>
  BY DEF CloseBill, PeriodPasses, FirstTask, CreateFailed, dbVars
<1>2. wf[d] \in Executions /\ wf \in [Bills -> Executions] /\ act \in [Tasks -> Activities]
  BY DEF WellTyped, TypeOK
<1>3. d \in Tasks /\ b \in Tasks /\ Updates \subseteq Tasks /\ Updates \cap Bills = {}
  BY WorkflowAssumption DEF Tasks
<1>4. \A t \in Tasks \ {d} : act'[t] = act[t]
  BY <1>2, <1>3 DEF CloseBill, PeriodPasses, FirstTask, CreateFailed
<1>5. \A u \in Updates : act'[u] = act[u]
  BY <1>3, <1>4
<1>6. \A u \in Updates : RunningOn(u, b)' <=> RunningOn(u, b)
  BY <1>1 DEF RunningOn
<1>7. CASE b # d
  <2>1. wf'[b] = wf[b]
    BY <1>2, <1>7 DEF CloseBill, PeriodPasses, FirstTask, CreateFailed
  <2> QED
    BY <1>1, <1>3, <1>4, <1>5, <1>6, <1>7, <2>1, OtherCounts
<1>8. CASE b = d
  <2>1. ItemsOf(b)' = ItemsOf(b) /\ ItemsTotal(b)' = ItemsTotal(b)
    BY <1>1 DEF ItemsOf, ItemsTotal
  <2>2. CASE CloseBill(d) \/ PeriodPasses(d)
    <3>1. \/ wf'[b] = [wf[b] EXCEPT !.signal = TRUE]
          \/ wf'[b] = [wf[b] EXCEPT !.period = "over"]
      BY <1>2, <1>8, <2>2 DEF CloseBill, PeriodPasses
    <3>2. /\ wf'[b].phase = wf[b].phase /\ wf'[b].seen = wf[b].seen
          /\ wf'[b].total = wf[b].total /\ wf'[b].reason = wf[b].reason
      BY <1>2, <1>8, <3>1 DEF Executions
    <3>3. act' = act
      BY <2>2 DEF CloseBill, PeriodPasses
    <3> QED
      BY <1>1, <1>6, <2>1, <3>2, <3>3, Frame
  <2>3. CASE FirstTask(d) \/ CreateFailed(d)
    <3>1. PICK ph \in {"creating", "failed"} : wf' = [wf EXCEPT ![b].phase = ph]
      BY <1>8, <2>3 DEF FirstTask, CreateFailed
    <3>2. wf[b].phase \in {"start", "creating"}
      BY <1>8, <2>3 DEF FirstTask, CreateFailed
    <3>3. wf'[b].phase = ph /\ wf'[b].seen = wf[b].seen /\ wf'[b].total = wf[b].total
      <4>1. ph \in Phases
        BY DEF Phases
      <4> QED
        BY <3>1, <4>1, SetPhase
    <3>4. HandlersInv(b)' /\ AppendsInv(b)'
      BY <1>1, <1>5, <1>6, <3>2 DEF BillInv, HandlersInv, AppendsInv, RunningOn, LineItem, AppendInput
    <3>5. CountInv(b)'
      BY <1>1, <1>6, <2>1, <3>3 DEF BillInv, CountInv, LineItem
    <3>6. CloseInv(b)'
      <4>1. wf[b].phase \notin EndPhases
        BY <3>2 DEF EndPhases
      <4>2. bills'[b].status # "CLOSED" /\ \A x \in open' : ~(x.in \in CloseInputs /\ x.in.bill = b)
        BY <1>1, <4>1 DEF BillInv, CloseInv
      <4>3. act'[b].st # "idle" => act'[b].in \notin CloseInputs
        <5>1. wf'[b].phase # "closing"
          BY <3>3
        <5> QED
          BY <5>1, KindsDiffer DEF WellTyped, WellFormed, MainOK
      <4> QED
        BY <4>2, <4>3 DEF CloseInv
    <3> QED
      BY <3>4, <3>5, <3>6 DEF BillInv
  <2> QED
    BY <2>2, <2>3
<1> QED
  BY <1>7, <1>8

\* CreateBill: the first start of b's workflow finds nothing of b anywhere.
LEMMA CreateBillCounts ==
  ASSUME WellTyped, WellTyped', NEW b \in Bills, BillInv(b), Undisturbed(b)',
         NEW d \in Bills, NEW cur \in Currencies, NEW p \in Periods[d],
         CreateBill(d, cur, p)
  PROVE  BillInv(b)'
<1>1. UNCHANGED <<bills, lineItems, billEvents, upd, act, open, hazard>>
  BY DEF CreateBill, dbVars
<1>2. \A u \in Updates : RunningOn(u, b)' <=> RunningOn(u, b)
  BY <1>1 DEF RunningOn
<1>3. CASE b # d
  <2>1. wf'[b] = wf[b]
    BY <1>3 DEF CreateBill, WellTyped, TypeOK
  <2> QED
    BY <1>1, <1>2, <2>1, OtherCounts
<1>4. CASE b = d
  <2>1. wf[b].phase = "none"
    <3>1. starts'[b] = starts[b] + 1 /\ starts'[b] <= 1 /\ starts[b] \in Nat
      BY <1>4, WorkflowAssumption DEF CreateBill, WellTyped, TypeOK, Undisturbed
    <3>2. starts[b] = 0
      BY <3>1
    <3> QED
      BY <3>2 DEF WellTyped, WellFormed, StartedOK
  <2>2. wf'[b] = initialBill("start", cur, p)
    BY <1>4 DEF CreateBill, WellTyped, TypeOK
  <2>3. wf'[b].phase = "start" /\ wf'[b].seen = {} /\ wf'[b].total = ZeroTotal
    <3>1. LET w == initialBill("start", cur, p) IN
          w.phase = "start" /\ w.seen = {} /\ w.total = ZeroTotal
      BY DEF initialBill
    <3> QED
      BY <2>2, <3>1
  <2>4. wf[b].seen = {} /\ \A c \in Charges : wf[b].total[c] = 0
    BY <2>1 DEF BillInv, CountInv
  <2>5. ItemsOf(b)' = ItemsOf(b) /\ ItemsTotal(b)' = ItemsTotal(b)
    BY <1>1 DEF ItemsOf, ItemsTotal
  <2>6. HandlersInv(b)' /\ AppendsInv(b)'
    BY <1>1, <1>2, <2>1 DEF BillInv, HandlersInv, AppendsInv, RunningOn, LineItem, AppendInput
  <2>7. CountInv(b)'
    BY <1>1, <1>2, <2>3, <2>4, <2>5 DEF BillInv, CountInv, ZeroTotal, LineItem
  <2>8. CloseInv(b)'
    BY <1>1, <2>1 DEF BillInv, CloseInv, EndPhases, WellTyped, WellFormed, MainOK
  <2> QED
    BY <2>6, <2>7, <2>8 DEF BillInv
<1> QED
  BY <1>3, <1>4

\* The workflow of some bill d ends; while an undisturbed bill closes it runs
\* no handlers, so none is abandoned.
LEMMA EndCounts ==
  ASSUME WellTyped, WellTyped', NEW b \in Bills, BillInv(b), NEW d \in Bills,
         CloseDone(d) \/ CloseFailed(d)
  PROVE  BillInv(b)'
<1>1. PICK ph \in {"completed", "failed"} : EndWorkflow(d, ph) /\ wf[d].phase = "closing"
  BY DEF CloseDone, CloseFailed
<1>2. UNCHANGED <<bills, lineItems, billEvents, open>>
  BY <1>1 DEF EndWorkflow, dbVars
<1>3. /\ wf'[d].phase = ph /\ wf'[d].seen = wf[d].seen /\ wf'[d].total = wf[d].total
      /\ wf'[d].reason = wf[d].reason /\ \A c \in Bills \ {d} : wf'[c] = wf[c]
  <2>1. wf[d] \in Executions /\ wf \in [Bills -> Executions]
    BY DEF WellTyped, TypeOK
  <2>2. /\ wf'[d] = [wf[d] EXCEPT !.phase = ph] /\ \A c \in Bills \ {d} : wf'[c] = wf[c]
    BY <1>1, <2>1 DEF EndWorkflow
  <2> QED
    BY <2>1, <2>2 DEF Executions
<1>4. Updates \subseteq Tasks /\ Bills \subseteq Tasks /\ Updates \cap Bills = {}
  BY WorkflowAssumption DEF Tasks
<1>5. \A u \in Updates : u \notin Handlers(d) => upd'[u] = upd[u] /\ act'[u] = act[u]
  BY <1>1, <1>4 DEF EndWorkflow
<1>6. \A u \in Updates : u \in Handlers(d) <=> RunningOn(u, d)
  BY DEF Handlers, RunningOn
<1>7. \A u \in Updates : u \in Handlers(d) => upd'[u].st = "done"
  <2>1. \A u \in Updates : upd[u] \in Calls
    BY DEF WellTyped, TypeOK
  <2> QED
    BY <1>1, <2>1 DEF EndWorkflow, Calls
<1>8. CASE b # d
  <2>1. \A u \in Updates : RunningOn(u, b) => u \notin Handlers(d)
    BY <1>8 DEF Handlers, RunningOn
  <2>2. \A u \in Updates : RunningOn(u, b)' <=> RunningOn(u, b)
    BY <1>5, <1>7, <2>1 DEF RunningOn
  <2>3. act'[b] = act[b]
    BY <1>1, <1>4, <1>8 DEF EndWorkflow, Handlers
  <2> QED
    BY <1>2, <1>3, <1>5, <1>8, <2>1, <2>2, <2>3, OtherCounts
<1>9. CASE b = d
  <2>1. \A u \in Updates : ~RunningOn(u, b)
    BY <1>1, <1>9 DEF BillInv, HandlersInv
  <2>2. \A u \in Updates : ~RunningOn(u, b)'
    BY <1>5, <1>6, <1>9, <2>1 DEF RunningOn
  <2>3. act'[b].st = "idle"
    BY <1>1, <1>4, <1>9, NoTaskType DEF EndWorkflow
  <2>4. ItemsOf(b)' = ItemsOf(b) /\ ItemsTotal(b)' = ItemsTotal(b)
    BY <1>2 DEF ItemsOf, ItemsTotal
  <2>5. wf'[b].phase \in EndPhases /\ wf[b].phase \in EndPhases /\ wf'[b].phase # "none"
    BY <1>1, <1>3, <1>9 DEF EndPhases
  <2>6. wf[b].phase \notin {"await", "drain"}
    BY <1>1, <1>9
  <2> QED
    BY <1>2, <1>3, <1>9, <2>1, <2>2, <2>3, <2>4, <2>5, <2>6, Frame
<1> QED
  BY <1>8, <1>9

-----------------------------------------------------------------------------
(* Workflow tasks *)

\* The last handlers are drained before a bill closes: if the coroutines other
\* than the main one leave every item counted or handled, the total the close
\* carries is the sum of the items.
LEMMA TaskCounts ==
  ASSUME WellTyped, WellTyped', NEW b \in Bills, CloseInv(b), AppendsInv(b)',
         NEW w \in Executions, NEW busy \in BOOLEAN,
         NEW a \in [Tasks -> Activities], RunTask(b, w, busy, a),
         UNCHANGED <<bills, lineItems, billEvents, open>>,
         w.phase \in {"await", "drain", "closing"},
         wf[b].phase \in EndPhases => w.phase = "closing" /\ w.reason = wf[b].reason,
         w.phase = "closing" => wf[b].phase = "closing" /\ a[b] = act[b],
         w.phase # "closing" => a[b].st = "idle",
         ~busy => \A u \in Updates : ~RunningOn(u, b)',
         \A u \in Updates : RunningOn(u, b)' =>
           w.phase \in {"await", "drain"} /\ upd'[u].in.id \notin w.seen,
         \A u, v \in Updates :
           RunningOn(u, b)' /\ RunningOn(v, b)' /\ upd'[u].in.id = upd'[v].in.id => u = v,
         \A li \in ItemsOf(b) :
           \/ li.id \in w.seen
           \/ \E u \in Updates : RunningOn(u, b)' /\ LineItem(upd'[u].in) = li,
         \A c \in Charges : w.total[c] = IF c.id \in w.seen THEN ItemsTotal(b)[c] ELSE 0
  PROVE  BillInv(b)'
<1> DEFINE p == Proceed(w, busy)
<1>1. wf'[b] = p
  BY RunTaskEffect DEF WellTyped
<1>2. /\ p.total = w.total /\ p.seen = w.seen /\ p.reason = w.reason
      /\ p.phase \in {w.phase, "drain", "resume", "closing"}
  BY ProceedFields
<1>3. p.phase = "closing" /\ w.phase # "closing" => ~busy
  BY ProceedPhase
<1>4. busy => p.phase \in {"await", "drain", "closing"}
  BY ProceedPhase
<1>5. w.phase = "closing" => p = w
  BY DEF Proceed, Waits
<1>6. \/ act'[b] = a[b]
      \/ /\ p.phase = "closing" /\ w.phase # "closing"
         /\ act'[b] = Schedule(CloseInput(b, p))
  BY <1>1, RunTaskEffect DEF WellTyped
<1>7. w.total \in Total /\ p.phase # "none"
  BY <1>2, ExecutionFields
<1> HIDE DEF p
<1>8. ItemsOf(b)' = ItemsOf(b) /\ ItemsTotal(b)' = ItemsTotal(b) /\ ItemsTotal(b) \in Total
  BY ItemsTotalType DEF ItemsOf, ItemsTotal
<1>9. HandlersInv(b)'
  <2>1. ASSUME NEW u \in Updates, RunningOn(u, b)'
        PROVE  p.phase \in {"await", "drain"} /\ upd'[u].in.id \notin p.seen
    BY <1>2, <1>3, <1>4, <2>1
  <2> QED
    BY <1>1, <2>1 DEF HandlersInv
<1>10. CountInv(b)'
  <2>1. \A c \in Charges : p.total[c] = IF c.id \in p.seen THEN ItemsTotal(b)'[c] ELSE 0
    BY <1>2, <1>8
  <2>2. \A li \in ItemsOf(b)' :
          \/ li.id \in p.seen
          \/ \E u \in Updates : RunningOn(u, b)' /\ LineItem(upd'[u].in) = li
    BY <1>2, <1>8
  <2> QED
    BY <1>1, <1>7, <2>1, <2>2 DEF CountInv
<1>11. ASSUME p.phase = "closing", w.phase # "closing"
       PROVE  p.total = ItemsTotal(b)
  <2>1. \A li \in ItemsOf(b) : li.id \in w.seen
    BY <1>3, <1>11
  <2>2. ASSUME NEW c \in Charges PROVE w.total[c] = ItemsTotal(b)[c]
    <3>1. CASE c.id \in w.seen
      BY <3>1
    <3>2. CASE c.id \notin w.seen
      <4>1. ~ \E li \in lineItems : li.bill = b /\ Charge(li) = c
        BY <2>1, <3>2 DEF ItemsOf, Charge
      <4> QED
        BY <3>2, <4>1, ItemsTotalMeans
    <3> QED
      BY <3>1, <3>2
  <2> QED
    BY <1>2, <1>7, <1>8, <2>2 DEF Total
<1>12. CloseInv(b)'
  <2>1. act'[b].st # "idle" /\ act'[b].in \in CloseInputs =>
          act'[b].in.total = ItemsTotal(b) /\ act'[b].in.reason = p.reason
    <3>1. CASE w.phase = "closing"
      <4>1. act'[b] = act[b]
        BY <1>6, <3>1
      <4>2. p.reason = wf[b].reason
        BY <1>5, <3>1 DEF EndPhases
      <4> QED
        BY <4>1, <4>2 DEF CloseInv, Closes
    <3>2. CASE w.phase # "closing" /\ p.phase = "closing" /\ act'[b] = Schedule(CloseInput(b, p))
      <4>1. act'[b].in.total = p.total /\ act'[b].in.reason = p.reason
        BY <3>2 DEF Schedule, CloseInput
      <4> QED
        BY <1>11, <3>2, <4>1
    <3>3. CASE w.phase # "closing" /\ act'[b] = a[b]
      BY <3>3
    <3> QED
      BY <1>6, <3>1, <3>2, <3>3
  <2>2. wf[b].phase \in EndPhases => p.phase = "closing" /\ p.reason = wf[b].reason
    BY <1>5
  <2>3. \A x \in open' : x.in \in CloseInputs /\ x.in.bill = b =>
          p.phase \in EndPhases /\ x.in.total = ItemsTotal(b) /\ x.in.reason = p.reason
    BY <2>2 DEF CloseInv, Closes, EndPhases
  <2>4. bills'[b].status = "CLOSED" =>
          /\ p.phase \in EndPhases
          /\ bills'[b].total = ItemsTotal(b) /\ bills'[b].reason = p.reason
    BY <2>2 DEF CloseInv, Closes, EndPhases
  <2> QED
    BY <1>1, <1>8, <2>1, <2>3, <2>4 DEF CloseInv, Closes
<1> QED
  BY <1>9, <1>10, <1>12 DEF BillInv

LEMMA SelectReason ==
  ASSUME NEW w \in Executions, w.phase # "await"
  PROVE  Select(w).reason = w.reason
BY DEF Select, Executions

\* A task of another bill d, which leaves the handlers of b alone.
LEMMA OtherTask ==
  ASSUME WellTyped, WellTyped', NEW b \in Bills, BillInv(b), NEW d \in Bills, d # b,
         NEW w \in Executions, NEW busy \in BOOLEAN,
         NEW a \in [Tasks -> Activities], RunTask(d, w, busy, a),
         UNCHANGED <<bills, lineItems, billEvents, open>>,
         \A v \in Updates : RunningOn(v, b)' <=> RunningOn(v, b),
         \A v \in Updates : RunningOn(v, b) => upd'[v].in = upd[v].in /\ a[v] = act[v],
         a[b] = act[b]
  PROVE  BillInv(b)'
<1>1. Updates \subseteq Tasks /\ Bills \subseteq Tasks /\ Updates \cap Bills = {}
  BY WorkflowAssumption DEF Tasks
<1>2. wf'[b] = wf[b] /\ \A t \in Tasks \ {d} : act'[t] = a[t]
  BY RunTaskEffect DEF WellTyped
<1>3. act'[b] = act[b]
  BY <1>1, <1>2
<1>4. \A v \in Updates : RunningOn(v, b) => upd'[v].in = upd[v].in /\ act'[v] = act[v]
  BY <1>1, <1>2
<1> QED
  BY <1>2, <1>3, <1>4, OtherCounts

\* A task of b that leaves its handlers, its seen set and its total alone.
LEMMA OwnTask ==
  ASSUME WellTyped, WellTyped', NEW b \in Bills, BillInv(b),
         NEW w \in Executions, NEW busy \in BOOLEAN,
         NEW a \in [Tasks -> Activities], RunTask(b, w, busy, a),
         UNCHANGED <<bills, lineItems, billEvents, open>>,
         w.phase \in {"await", "drain", "closing"}, wf[b].phase \notin {"completed", "failed"},
         wf[b].phase \in {"await", "drain", "closing"} => w.phase = wf[b].phase,
         w.phase = "closing" => wf[b].phase = "closing" /\ w.reason = wf[b].reason /\ a[b] = act[b],
         w.phase # "closing" => a[b].st = "idle",
         w.seen = wf[b].seen, w.total = wf[b].total,
         ~busy => \A u \in Updates : ~RunningOn(u, b),
         \A v \in Updates : RunningOn(v, b)' <=> RunningOn(v, b),
         \A v \in Updates : RunningOn(v, b) => upd'[v].in = upd[v].in /\ a[v] = act[v]
  PROVE  BillInv(b)'
<1>1. Updates \subseteq Tasks /\ Bills \subseteq Tasks /\ Updates \cap Bills = {}
  BY WorkflowAssumption DEF Tasks
<1>2. \A t \in Tasks \ {b} : act'[t] = a[t]
  BY RunTaskEffect DEF WellTyped
<1>3. \A v \in Updates : RunningOn(v, b) => act'[v] = act[v]
  BY <1>1, <1>2
<1>4. AppendsInv(b)'
  <2>1. ASSUME NEW v \in Updates, RunningOn(v, b)', act'[v].st = "committed"
        PROVE  LineItem(upd'[v].in) \in lineItems'
    BY <1>3, <2>1 DEF BillInv, AppendsInv
  <2>2. ASSUME NEW x \in open', x.in \in AppendInputs, x.in.bill = b
        PROVE  \/ LineItem(x.in) \in lineItems'
               \/ \E v \in Updates : RunningOn(v, b)' /\ x.in = AppendInput(upd'[v].in)
    BY <2>2 DEF BillInv, AppendsInv
  <2> QED
    BY <2>1, <2>2 DEF AppendsInv, RunningOn, AppendInput, LineItem
<1>5. wf[b].phase \in EndPhases => w.phase = "closing" /\ w.reason = wf[b].reason
  BY DEF EndPhases
<1>6. \A u \in Updates : RunningOn(u, b)' =>
        w.phase \in {"await", "drain"} /\ upd'[u].in.id \notin w.seen
  BY DEF BillInv, HandlersInv
<1>7. \A u, v \in Updates :
        RunningOn(u, b)' /\ RunningOn(v, b)' /\ upd'[u].in.id = upd'[v].in.id => u = v
  BY DEF BillInv, HandlersInv
<1>8. \A li \in ItemsOf(b) :
        \/ li.id \in w.seen
        \/ \E u \in Updates : RunningOn(u, b)' /\ LineItem(upd'[u].in) = li
  BY DEF BillInv, CountInv
<1>9. \A c \in Charges : w.total[c] = IF c.id \in w.seen THEN ItemsTotal(b)[c] ELSE 0
  BY DEF BillInv, CountInv
<1>10. CloseInv(b) /\ (~busy => \A u \in Updates : ~RunningOn(u, b)')
  BY DEF BillInv
<1>11. w.phase = "closing" => wf[b].phase = "closing" /\ a[b] = act[b]
  OBVIOUS
<1> QED
  BY <1>4, <1>5, <1>6, <1>7, <1>8, <1>9, <1>10, <1>11, TaskCounts

LEMMA AnsweredCounts ==
  ASSUME WellTyped, WellTyped', NEW b \in Bills, BillInv(b), NEW u \in Updates,
         NEW r \in Requests, AddLineItemAnswered(u, r)
  PROVE  BillInv(b)'
<1> DEFINE d == r.bill
           w == Select(wf[d])
           busy == Handlers(d) # {}
<1>1. /\ upd[u].st = "idle" /\ Accepts(d)
      /\ RunTask(d, w, busy, act)
      /\ UNCHANGED <<bills, lineItems, billEvents, starts, open, hazard>>
  BY DEF AddLineItemAnswered, dbVars
<1>2. upd'[u].st = "done" /\ \A v \in Updates \ {u} : upd'[v] = upd[v]
  <2>1. PICK code \in Codes : Answer(u, r, code)
    BY DEF AddLineItemAnswered, Validate, Codes
  <2> QED
    BY <2>1, AnswerType DEF WellTyped
<1>3. ~RunningOn(u, b) /\ ~RunningOn(u, b)'
  BY <1>1, <1>2 DEF RunningOn
<1>4. d \in Bills
  BY RequestTypes
<1>5. /\ wf[d] \in Executions /\ w \in Executions /\ w.phase = wf[d].phase
      /\ w.phase \in {"await", "drain", "closing"}
      /\ wf[d].phase # "closing" => act[d].st = "idle"
      /\ act \in [Tasks -> Activities] /\ busy \in BOOLEAN
  BY <1>1, <1>4, AcceptingTask DEF WellTyped, TypeOK
<1>6. w.seen = wf[d].seen /\ w.total = wf[d].total /\ (w.phase = "closing" => w.reason = wf[d].reason)
  BY <1>5, SelectFields, SelectReason
<1>7. ~busy => \A v \in Updates : ~RunningOn(v, d)
  BY DEF Handlers, RunningOn
<1> HIDE DEF w, busy, d
<1>8. \A v \in Updates : RunningOn(v, b)' <=> RunningOn(v, b)
  BY <1>2, <1>3 DEF RunningOn
<1>9. \A v \in Updates : RunningOn(v, b) => upd'[v].in = upd[v].in
  BY <1>2, <1>3
<1>10. CASE d # b
  BY <1>1, <1>4, <1>5, <1>8, <1>9, <1>10, OtherTask
<1>11. CASE d = b
  BY <1>1, <1>5, <1>6, <1>7, <1>8, <1>9, <1>11, OwnTask
<1> QED
  BY <1>10, <1>11

LEMMA SelectorCounts ==
  ASSUME WellTyped, WellTyped', NEW b \in Bills, BillInv(b), NEW d \in Bills, SelectorTask(d)
  PROVE  BillInv(b)'
<1> DEFINE w == Select(wf[d])
           busy == Handlers(d) # {}
<1>1. /\ wf[d].phase = "await"
      /\ RunTask(d, w, busy, act)
      /\ UNCHANGED <<bills, lineItems, billEvents, starts, upd, open, hazard>>
  BY DEF SelectorTask, dbVars
<1>2. Accepts(d)
  BY <1>1 DEF Accepts
<1>3. /\ wf[d] \in Executions /\ w \in Executions /\ w.phase = wf[d].phase
      /\ act[d].st = "idle" /\ act \in [Tasks -> Activities] /\ busy \in BOOLEAN
  BY <1>1, <1>2, AcceptingTask DEF WellTyped, TypeOK
<1>4. w.seen = wf[d].seen /\ w.total = wf[d].total
  BY <1>3, SelectFields
<1>5. ~busy => \A v \in Updates : ~RunningOn(v, d)
  BY DEF Handlers, RunningOn
<1> HIDE DEF w, busy
<1>6. \A v \in Updates : RunningOn(v, b)' <=> RunningOn(v, b)
  BY <1>1 DEF RunningOn
<1>7. CASE d # b
  BY <1>1, <1>3, <1>6, <1>7, OtherTask
<1>8. CASE d = b
  BY <1>1, <1>3, <1>4, <1>5, <1>6, <1>8, OwnTask
<1> QED
  BY <1>7, <1>8

LEMMA CreateDoneCounts ==
  ASSUME WellTyped, WellTyped', NEW b \in Bills, BillInv(b), NEW d \in Bills,
         CreateDone(d) \/ ResumeTask(d)
  PROVE  BillInv(b)'
<1> DEFINE w == awaitCloseOrThreshold(wf[d])
           a == IF wf[d].phase = "creating" THEN [act EXCEPT ![d] = NoTask] ELSE act
           busy == d \notin Bills
<1>1. /\ wf[d].phase \in {"creating", "resume"}
      /\ RunTask(d, w, busy, a)
      /\ UNCHANGED <<bills, lineItems, billEvents, starts, upd, open, hazard>>
  BY DEF CreateDone, ResumeTask, dbVars
<1>2. wf[d] \in Executions
  BY DEF WellTyped, TypeOK
<1>3. w \in Executions /\ w.phase = "await" /\ w.seen = wf[d].seen /\ w.total = wf[d].total
  BY <1>2, SelectType, AwaitFields
<1>4. wf[d].phase # "creating" => act[d].st = "idle"
  BY <1>1 DEF WellTyped, WellFormed, MainOK
<1>5. /\ a \in [Tasks -> Activities]
      /\ a[d].st = "idle"
      /\ \A t \in Tasks \ {d} : a[t] = act[t]
  BY <1>4, NoTaskType DEF WellTyped, TypeOK, Tasks
<1>6. busy \in BOOLEAN
  OBVIOUS
<1>7. \A v \in Updates : ~RunningOn(v, d)
  BY <1>1, HandlerFacts DEF RunningOn
<1> HIDE DEF w, a, busy
<1>8. \A v \in Updates : RunningOn(v, b)' <=> RunningOn(v, b)
  BY <1>1 DEF RunningOn
<1>9. d # b => a[b] = act[b] /\ \A v \in Updates : a[v] = act[v]
  BY <1>5, WorkflowAssumption DEF Tasks
<1>10. CASE d # b
  BY <1>1, <1>3, <1>5, <1>6, <1>8, <1>9, <1>10, OtherTask
<1>11. CASE d = b
  BY <1>1, <1>3, <1>5, <1>6, <1>7, <1>8, <1>11, OwnTask
<1> QED
  BY <1>10, <1>11

LEMMA StartedCounts ==
  ASSUME WellTyped, WellTyped', NEW b \in Bills, BillInv(b), Undisturbed(b)',
         NEW u \in Updates, NEW r \in Requests, AddLineItemStarted(u, r)
  PROVE  BillInv(b)'
<1> DEFINE d == r.bill
           w == Select(wf[d])
           a == [act EXCEPT ![u] = Schedule(AppendInput(r))]
<1>1. /\ upd[u].st = "idle" /\ Accepts(d) /\ r.id \notin wf[d].seen
      /\ RunTask(d, w, TRUE, a)
      /\ upd' = [upd EXCEPT ![u] = [st |-> "running", in |-> r, code |-> ""]]
      /\ UNCHANGED <<bills, lineItems, billEvents, starts, open>>
  BY DEF AddLineItemStarted, dbVars
<1>2. /\ upd'[u].st = "running" /\ upd'[u].in = r
      /\ \A v \in Updates \ {u} : upd'[v] = upd[v]
  BY <1>1 DEF WellTyped, TypeOK
<1>3. ~RunningOn(u, b) /\ (RunningOn(u, b)' <=> d = b)
  BY <1>1, <1>2 DEF RunningOn
<1>4. d \in Bills
  BY RequestTypes
<1>5. /\ wf[d] \in Executions /\ w \in Executions /\ w.phase = wf[d].phase
      /\ w.phase \in {"await", "drain", "closing"}
      /\ wf[d].phase # "closing" => act[d].st = "idle"
      /\ act \in [Tasks -> Activities]
  BY <1>1, <1>4, AcceptingTask DEF WellTyped, TypeOK
<1>6. w.seen = wf[d].seen /\ w.total = wf[d].total
  BY <1>5, SelectFields
<1>7. u \in Tasks /\ Bills \subseteq Tasks /\ Updates \subseteq Tasks /\ Updates \cap Bills = {}
  BY WorkflowAssumption DEF Tasks
<1>8. /\ a \in [Tasks -> Activities]
      /\ a[u].st = "scheduled"
      /\ \A t \in Tasks \ {u} : a[t] = act[t]
  <2>1. AppendInput(r) \in Inputs
    BY RequestTypes, ChargeTypes DEF Inputs
  <2>2. Schedule(AppendInput(r)) \in Activities /\ Schedule(AppendInput(r)).st = "scheduled"
    BY <2>1, ScheduleType
  <2> QED
    BY <1>5, <1>7, <2>2
<1> HIDE DEF a, w
<1>9. \A v \in Updates \ {u} : (RunningOn(v, b)' <=> RunningOn(v, b)) /\ a[v] = act[v]
  BY <1>2, <1>7, <1>8 DEF RunningOn
<1>10. CASE d # b
  <2>1. /\ \A v \in Updates : RunningOn(v, b)' <=> RunningOn(v, b)
        /\ \A v \in Updates : RunningOn(v, b) => upd'[v].in = upd[v].in /\ a[v] = act[v]
    BY <1>2, <1>3, <1>9, <1>10
  <2>2. a[b] = act[b]
    BY <1>7, <1>8
  <2> QED
    BY <1>1, <1>4, <1>5, <1>8, <1>10, <2>1, <2>2, OtherTask
<1>11. CASE d = b
  <2>1. /\ \A v \in Updates : RunningOn(v, b) => upd[v].in.id # r.id
        /\ wf[b].phase # "closing"
    <3> DEFINE sameKey == {v \in Handlers(b) : upd[v].in.id = r.id}
               h1 == IF sameKey # {} THEN {"sameKey"} ELSE {}
               h2 == IF wf[b].phase = "closing" THEN {"late"} ELSE {}
    <3>1. hazard' = [hazard EXCEPT ![b] = @ \cup h1 \cup h2]
      BY <1>11 DEF AddLineItemStarted
    <3>2. hazard'[b] = hazard[b] \cup h1 \cup h2
      BY <3>1 DEF WellTyped, TypeOK
    <3>3. h1 = {} /\ h2 = {}
      BY <3>2 DEF Undisturbed
    <3>4. sameKey = {} /\ wf[b].phase # "closing"
      BY <3>3
    <3> QED
      BY <3>4 DEF Handlers, RunningOn
  <2>2. \A t \in Tasks \ {b} : act'[t] = a[t]
    <3>1. RunTask(b, w, TRUE, a) /\ TypeOK
      BY <1>1, <1>11 DEF WellTyped
    <3> QED
      BY <1>5, <1>8, <3>1, RunTaskEffect
  <2>3. /\ \A v \in Updates \ {u} : act'[v] = act[v]
        /\ act'[u].st = "scheduled"
    BY <1>7, <1>8, <1>9, <2>2
  <2>4. AppendsInv(b)'
    <3>1. ASSUME NEW v \in Updates, RunningOn(v, b)', act'[v].st = "committed"
          PROVE  LineItem(upd'[v].in) \in lineItems'
      <4>1. v # u /\ RunningOn(v, b) /\ upd'[v] = upd[v] /\ act[v].st = "committed"
        BY <1>2, <1>9, <2>3, <3>1
      <4>2. LineItem(upd[v].in) \in lineItems
        BY <4>1 DEF BillInv, AppendsInv
      <4>3. lineItems' = lineItems
        BY <1>1
      <4> QED
        BY <4>1, <4>2, <4>3
    <3>2. ASSUME NEW x \in open', x.in \in AppendInputs, x.in.bill = b
          PROVE  \/ LineItem(x.in) \in lineItems'
                 \/ \E v \in Updates : RunningOn(v, b)' /\ x.in = AppendInput(upd'[v].in)
      <4>1. \A v \in Updates : RunningOn(v, b) => RunningOn(v, b)' /\ upd'[v] = upd[v]
        BY <1>2, <1>3, <1>9
      <4> QED
        BY <1>1, <3>2, <4>1 DEF BillInv, AppendsInv
    <3> QED
      BY <3>1, <3>2 DEF AppendsInv, RunningOn, AppendInput, LineItem
  <2>5. \A v \in Updates : RunningOn(v, b)' =>
          w.phase \in {"await", "drain"} /\ upd'[v].in.id \notin w.seen
    BY <1>1, <1>2, <1>5, <1>6, <1>9, <1>11, <2>1 DEF BillInv, HandlersInv
  <2>6. \A v1, v2 \in Updates :
          RunningOn(v1, b)' /\ RunningOn(v2, b)' /\ upd'[v1].in.id = upd'[v2].in.id => v1 = v2
    BY <1>2, <1>9, <2>1 DEF BillInv, HandlersInv
  <2>7. \A li \in ItemsOf(b) :
          \/ li.id \in w.seen
          \/ \E v \in Updates : RunningOn(v, b)' /\ LineItem(upd'[v].in) = li
    <3>1. \A v \in Updates : RunningOn(v, b) => RunningOn(v, b)' /\ upd'[v] = upd[v]
      BY <1>2, <1>3, <1>9
    <3> QED
      BY <1>6, <1>11, <3>1 DEF BillInv, CountInv
  <2>8. \A c \in Charges : w.total[c] = IF c.id \in w.seen THEN ItemsTotal(b)[c] ELSE 0
    BY <1>6, <1>11 DEF BillInv, CountInv
  <2>9. CloseInv(b) /\ wf[b].phase \notin EndPhases /\ w.phase # "closing"
        /\ w.phase \in {"await", "drain", "closing"} /\ a[b].st = "idle"
    <3>1. a[b] = act[b]
      BY <1>7, <1>8
    <3> QED
      BY <1>5, <1>11, <2>1, <3>1 DEF BillInv, EndPhases
  <2> QED
    BY <1>1, <1>5, <1>8, <1>11, <2>4, <2>5, <2>6, <2>7, <2>8, <2>9, TaskCounts
<1> QED
  BY <1>10, <1>11

\* A handler ends: what it leaves of its bill is counted, or was never written.
LEMMA HandlerEnds ==
  ASSUME WellTyped, WellTyped', TablesAgree, NEW b \in Bills, BillInv(b), Undisturbed(b)',
         NEW u \in Updates, HandlerDone(u) \/ HandlerFailed(u)
  PROVE  BillInv(b)'
<1> DEFINE r == upd[u].in
           d == r.bill
           w == IF HandlerDone(u) THEN Counted(Select(wf[d]), r) ELSE Select(wf[d])
           busy == Handlers(d) \ {u} # {}
           a == [act EXCEPT ![u] = NoTask]
<1>1. /\ upd[u].st = "running"
      /\ UNCHANGED <<bills, lineItems, billEvents, starts, open>>
  BY DEF HandlerDone, HandlerFailed, dbVars
<1>2. HandlerDone(u) => act[u].st = "committed"
  BY DEF HandlerDone
<1>3. RunTask(d, w, busy, a)
  BY DEF HandlerDone, HandlerFailed
<1>4. r \in Requests /\ d \in Bills /\ Accepts(d)
  BY <1>1, HandlerFacts DEF Accepts
<1>5. upd'[u].st = "done" /\ \A v \in Updates \ {u} : upd'[v] = upd[v]
  <2>1. PICK code \in Codes : Answer(u, r, code)
    BY DEF HandlerDone, HandlerFailed, Codes
  <2> QED
    BY <1>4, <2>1, AnswerType DEF WellTyped
<1>6. ~RunningOn(u, b)' /\ (RunningOn(u, b) <=> d = b)
      /\ \A v \in Updates \ {u} : RunningOn(v, b)' <=> RunningOn(v, b)
  BY <1>1, <1>5 DEF RunningOn
<1>7. /\ wf[d] \in Executions /\ Select(wf[d]) \in Executions
      /\ Select(wf[d]).phase = wf[d].phase
      /\ wf[d].phase \in {"await", "drain", "closing"}
      /\ wf[d].phase # "closing" => act[d].st = "idle"
      /\ act \in [Tasks -> Activities]
  BY <1>4, AcceptingTask DEF WellTyped, TypeOK
<1>8. /\ w \in Executions /\ w.phase = wf[d].phase
      /\ HandlerDone(u) => /\ w.seen = wf[d].seen \cup {r.id}
                           /\ w.total = AddTo(wf[d].total, Charge(r))
      /\ ~HandlerDone(u) => w.seen = wf[d].seen /\ w.total = wf[d].total
  <2>1. r \in RequestRecords
    BY <1>4, RequestTypes
  <2>2. Select(wf[d]).seen = wf[d].seen /\ Select(wf[d]).total = wf[d].total
    BY <1>7, SelectFields
  <2>3. CASE HandlerDone(u)
    <3> DEFINE y == Select(wf[d])
    <3>1. w = Counted(y, r) /\ y \in Executions
      BY <1>7, <2>3
    <3>2. y.phase = wf[d].phase /\ y.seen = wf[d].seen /\ y.total = wf[d].total
      BY <1>7, <2>2
    <3> HIDE DEF y, w
    <3>3. w \in Executions
      BY <2>1, <3>1, CountedType
    <3>4. w.phase = y.phase /\ w.total = AddTo(y.total, Charge(r)) /\ w.seen = y.seen \cup {r.id}
      BY <3>1, CountedFields
    <3> QED
      BY <2>3, <3>2, <3>3, <3>4
  <2>4. CASE ~HandlerDone(u)
    <3>1. w = Select(wf[d])
      BY <2>4
    <3> QED
      BY <1>7, <2>2, <2>4, <3>1
  <2> QED
    BY <2>3, <2>4
<1>9. u \in Tasks /\ Bills \subseteq Tasks /\ Updates \subseteq Tasks /\ Updates \cap Bills = {}
  BY WorkflowAssumption DEF Tasks
<1>10. /\ a \in [Tasks -> Activities] /\ a[u].st = "idle"
       /\ \A t \in Tasks \ {u} : a[t] = act[t]
       /\ \A v \in Updates \ {u} : a[v] = act[v]
       /\ a[b] = act[b]
  BY <1>7, <1>9, NoTaskType
<1>11. busy \in BOOLEAN /\ (~busy => \A v \in Updates \ {u} : ~RunningOn(v, d))
  BY DEF Handlers, RunningOn
<1>12. ASSUME ~HandlerDone(u), d = b
       PROVE  ~MayPersist(r)
  <2> DEFINE h == IF MayPersist(r) THEN {"lostAck"} ELSE {}
  <2>1. hazard' = [hazard EXCEPT ![b] = @ \cup h]
    BY <1>12 DEF HandlerFailed
  <2>2. hazard'[b] = hazard[b] \cup h
    BY <2>1 DEF WellTyped, TypeOK
  <2>3. h = {}
    BY <2>2 DEF Undisturbed
  <2> QED
    BY <2>3
<1> HIDE DEF w, a, busy, d, r
<1>13. CASE d # b
  <2>1. /\ \A v \in Updates : RunningOn(v, b)' <=> RunningOn(v, b)
        /\ \A v \in Updates : RunningOn(v, b) => upd'[v].in = upd[v].in /\ a[v] = act[v]
    BY <1>5, <1>6, <1>10, <1>13
  <2> QED
    BY <1>1, <1>3, <1>4, <1>8, <1>10, <1>11, <1>13, <2>1, OtherTask
<1>14. CASE d = b
  <2>1. RunningOn(u, b) /\ r.bill = b /\ LineItem(r).id = r.id /\ LineItem(r).bill = b
    BY <1>6, <1>14, AppendInputItem DEF d
  <2>2. wf[b].phase \in {"await", "drain"} /\ r.id \notin wf[b].seen
    BY <2>1 DEF BillInv, HandlersInv, r
  <2>3. HandlerDone(u) => LineItem(r) \in lineItems
    BY <1>2, <2>1 DEF BillInv, AppendsInv, r
  <2>4. ~HandlerDone(u) => /\ LineItem(r) \notin lineItems
                           /\ \A x \in open : x.in # AppendInput(r)
    BY <1>12, <1>14, <2>1, AppendInputItem DEF MayPersist
  <2>5. \A t \in Tasks \ {b} : act'[t] = a[t]
    BY <1>3, <1>4, <1>8, <1>10, <1>11, <1>14, RunTaskEffect DEF WellTyped
  <2>6. \A v \in Updates \ {u} : act'[v] = act[v]
    BY <1>9, <1>10, <2>5
  <2>7. AppendsInv(b)'
    <3>1. ASSUME NEW v \in Updates, RunningOn(v, b)', act'[v].st = "committed"
          PROVE  LineItem(upd'[v].in) \in lineItems'
      <4>1. v # u /\ RunningOn(v, b) /\ upd'[v] = upd[v] /\ act[v].st = "committed"
        BY <1>5, <1>6, <2>6, <3>1
      <4> QED
        BY <1>1, <4>1 DEF BillInv, AppendsInv
    <3>2. ASSUME NEW x \in open', x.in \in AppendInputs, x.in.bill = b
          PROVE  \/ LineItem(x.in) \in lineItems'
                 \/ \E v \in Updates : RunningOn(v, b)' /\ x.in = AppendInput(upd'[v].in)
      <4>1. CASE LineItem(x.in) \in lineItems
        BY <1>1, <4>1
      <4>2. ASSUME NEW v \in Updates, RunningOn(v, b), x.in = AppendInput(upd[v].in), v # u
            PROVE  RunningOn(v, b)' /\ x.in = AppendInput(upd'[v].in)
        BY <1>5, <1>6, <4>2
      <4>3. CASE x.in = AppendInput(upd[u].in)
        BY <1>1, <2>3, <2>4, <4>3, AppendInputItem DEF r
      <4> QED
        BY <1>1, <3>2, <4>1, <4>2, <4>3 DEF BillInv, AppendsInv
    <3> QED
      BY <3>1, <3>2 DEF AppendsInv, RunningOn, AppendInput, LineItem
  <2>8. \A v \in Updates : RunningOn(v, b)' =>
          w.phase \in {"await", "drain"} /\ upd'[v].in.id \notin w.seen
    <3>1. \A v \in Updates : RunningOn(v, b)' => v # u /\ RunningOn(v, b) /\ upd'[v] = upd[v]
      BY <1>5, <1>6
    <3>2. \A v \in Updates : RunningOn(v, b) /\ v # u => upd[v].in.id # r.id
      BY <2>1 DEF BillInv, HandlersInv, r
    <3>3. \A v \in Updates : RunningOn(v, b) => upd[v].in.id \notin wf[b].seen
      BY DEF BillInv, HandlersInv
    <3>4. w.seen \subseteq wf[b].seen \cup {r.id} /\ w.phase = wf[b].phase
      BY <1>8, <1>14
    <3> QED
      BY <2>2, <3>1, <3>2, <3>3, <3>4
  <2>9. \A v1, v2 \in Updates :
          RunningOn(v1, b)' /\ RunningOn(v2, b)' /\ upd'[v1].in.id = upd'[v2].in.id => v1 = v2
    BY <1>5, <1>6 DEF BillInv, HandlersInv
  <2>10. ASSUME NEW li \in ItemsOf(b)
         PROVE  \/ li.id \in w.seen
                \/ \E v \in Updates : RunningOn(v, b)' /\ LineItem(upd'[v].in) = li
    <3>1. CASE li.id \in wf[b].seen
      BY <1>8, <1>14, <3>1
    <3>2. ASSUME NEW v \in Updates, RunningOn(v, b), LineItem(upd[v].in) = li, v # u
          PROVE  RunningOn(v, b)' /\ LineItem(upd'[v].in) = li
      BY <1>5, <1>6, <3>2
    <3>3. CASE LineItem(r) = li
      BY <1>8, <1>14, <2>1, <2>4, <3>3 DEF ItemsOf
    <3> QED
      BY <3>1, <3>2, <3>3 DEF BillInv, CountInv, r
  <2>11. ASSUME NEW c \in Charges
         PROVE  w.total[c] = IF c.id \in w.seen THEN ItemsTotal(b)[c] ELSE 0
    <3>1. wf[b].total[c] = IF c.id \in wf[b].seen THEN ItemsTotal(b)[c] ELSE 0
      BY DEF BillInv, CountInv
    <3>2. CASE ~HandlerDone(u)
      BY <1>8, <1>14, <3>1, <3>2
    <3>3. CASE HandlerDone(u) /\ c.id # r.id
      <4>1. c # Charge(r)
        BY <3>3 DEF Charge
      <4>2. wf[b].total \in Total
        BY <1>7, <1>14, ExecutionFields
      <4>3. w.total[c] = wf[b].total[c]
        BY <1>8, <1>14, <3>3, <4>1, <4>2 DEF AddTo, Total
      <4> QED
        BY <1>8, <1>14, <3>1, <3>3, <4>3
    <3>4. CASE HandlerDone(u) /\ c.id = r.id
      <4>1. wf[b].total[c] = 0 /\ c.id \in w.seen
        BY <1>8, <1>14, <2>2, <3>1, <3>4
      <4>2. wf[b].total \in Total /\ w.total = AddTo(wf[b].total, Charge(r))
        BY <1>7, <1>8, <1>14, <3>4, ExecutionFields
      <4>3. LineItem(r) \in lineItems /\ Charge(LineItem(r)) = Charge(r)
        BY <2>3, <3>4 DEF LineItem, Charge
      <4>4. CASE c = Charge(r)
        <5>1. ItemsTotal(b)[c] = 1
          BY <2>1, <4>3, <4>4, ItemsTotalMeans
        <5>2. w.total[c] = wf[b].total[c] + 1
          BY <4>2, <4>4 DEF AddTo, Total
        <5> QED
          BY <4>1, <5>1, <5>2
      <4>5. CASE c # Charge(r)
        <5>1. ASSUME NEW li \in lineItems, li.bill = b PROVE Charge(li) # c
          <6>1. li.id = r.id => li = LineItem(r)
            BY <2>1, <4>3 DEF TablesAgree, OpenTotalIsItems
          <6> QED
            BY <3>4, <4>3, <4>5, <6>1 DEF Charge
        <5>2. ItemsTotal(b)[c] = 0
          BY <5>1, ItemsTotalMeans
        <5>3. w.total[c] = wf[b].total[c]
          BY <4>2, <4>5 DEF AddTo, Total
        <5> QED
          BY <4>1, <5>2, <5>3
      <4> QED
        BY <4>4, <4>5
    <3> QED
      BY <3>2, <3>3, <3>4
  <2>12. CloseInv(b) /\ wf[b].phase \notin EndPhases /\ w.phase # "closing"
         /\ w.phase \in {"await", "drain", "closing"} /\ a[b].st = "idle"
    BY <1>7, <1>8, <1>10, <1>14, <2>2 DEF BillInv, EndPhases
  <2>13. ~busy => \A v \in Updates : ~RunningOn(v, b)'
    BY <1>6, <1>11, <1>14
  <2> QED
    BY <1>1, <1>3, <1>8, <1>10, <1>11, <1>14, <2>7, <2>8, <2>9, <2>10, <2>11, <2>12, <2>13,
       TaskCounts
<1> QED
  BY <1>13, <1>14

-----------------------------------------------------------------------------
(* What a bill is closed with *)

Invariant == WellTyped /\ TablesAgree /\ CountsAgree

LEMMA CountsInit == Init => CountsAgree
<1> SUFFICES ASSUME Init, NEW b \in Bills PROVE BillInv(b)
  BY DEF CountsAgree, BillInv
<1>1. \A u \in Updates : ~RunningOn(u, b)
  BY DEF Init, RunningOn
<1>2. lineItems = {} /\ open = {} /\ bills[b].status = "NONE"
  BY DEF Init, DBInit, NoRow
<1>3. wf[b].seen = {} /\ wf[b].total = ZeroTotal
  BY DEF Init, initialBill
<1>4. act[b].st = "idle"
  BY NoTaskType DEF Init, Tasks
<1>5. HandlersInv(b) /\ AppendsInv(b)
  BY <1>1, <1>2 DEF HandlersInv, AppendsInv
<1>6. CountInv(b)
  BY <1>2, <1>3 DEF CountInv, ItemsOf, ZeroTotal
<1>7. CloseInv(b)
  BY <1>2, <1>4 DEF CloseInv
<1> QED
  BY <1>5, <1>6, <1>7 DEF BillInv

LEMMA CountsStep ==
  Invariant /\ [Next]_vars /\ WellTyped' => CountsAgree'
<1> SUFFICES ASSUME Invariant, [Next]_vars, WellTyped', NEW b \in Bills, Undisturbed(b)'
             PROVE  BillInv(b)'
  BY DEF CountsAgree, BillInv
<1>1. WellTyped /\ TablesAgree /\ BillInv(b)
  BY StaysUndisturbed DEF Invariant, CountsAgree, BillInv
<1>2. CASE UNCHANGED vars
  <2>1. UNCHANGED <<bills, lineItems, billEvents, open, wf, act, upd>>
    BY <1>2 DEF vars
  <2>2. \A u \in Updates : RunningOn(u, b)' <=> RunningOn(u, b)
    BY <2>1 DEF RunningOn
  <2> QED
    BY <1>1, <2>1, <2>2, OtherCounts
<1>3. ASSUME NEW d \in Bills, NEW c \in Currencies, NEW p \in Periods[d],
             CreateBill(d, c, p)
      PROVE  BillInv(b)'
  BY <1>1, <1>3, CreateBillCounts
<1>4. ASSUME NEW d \in Bills, CloseBill(d) \/ PeriodPasses(d) \/ WorkflowTask(d)
      PROVE  BillInv(b)'
  BY <1>1, <1>4, MainCounts, CreateDoneCounts, SelectorCounts, EndCounts DEF WorkflowTask
<1>5. ASSUME NEW u \in Updates, NEW r \in Requests, AddLineItemRefused(u, r)
      PROVE  BillInv(b)'
  <2>1. PICK code \in Codes : Answer(u, r, code)
    BY <1>5 DEF AddLineItemRefused, Codes
  <2>2. upd'[u].st = "done" /\ \A v \in Updates \ {u} : upd'[v] = upd[v]
    BY <1>1, <2>1, AnswerType DEF WellTyped
  <2>3. upd[u].st = "idle" /\ UNCHANGED <<bills, lineItems, billEvents, open, wf, act>>
    BY <1>5 DEF AddLineItemRefused, dbVars
  <2>4. \A v \in Updates : RunningOn(v, b)' <=> RunningOn(v, b)
    BY <2>2, <2>3 DEF RunningOn
  <2>5. \A v \in Updates : RunningOn(v, b) => upd'[v].in = upd[v].in
    BY <2>2, <2>3 DEF RunningOn
  <2> QED
    BY <1>1, <2>3, <2>4, <2>5, OtherCounts
<1>6. ASSUME NEW u \in Updates, NEW r \in Requests,
             AddLineItemAnswered(u, r) \/ AddLineItemStarted(u, r)
      PROVE  BillInv(b)'
  BY <1>1, <1>6, AnsweredCounts, StartedCounts
<1>7. ASSUME NEW u \in Updates, HandlerTask(u)
      PROVE  BillInv(b)'
  BY <1>1, <1>7, HandlerEnds DEF HandlerTask
<1>8. ASSUME NEW t \in Tasks, StartAttempt(t) \/ LoseAttempt(t) \/ ExpireActivity(t)
      PROVE  BillInv(b)'
  BY <1>1, <1>8, AttemptCounts
<1>9. ASSUME NEW t \in Tasks, NEW x \in open, x.task = t, CommitTx(x) \/ AbortTx(x)
      PROVE  BillInv(b)'
  BY <1>1, <1>9, AttemptCounts, CommitCounts
<1> QED
  BY <1>2, <1>3, <1>4, <1>5, <1>6, <1>7, <1>8, <1>9 DEF Next, EndAttempt

LEMMA InvariantHolds == Spec => []Invariant
<1>1. Init => Invariant
  BY WellTypedInit, TablesInit, CountsInit DEF Invariant
<1>2. Invariant /\ [Next]_vars => Invariant'
  BY WellTypedStep, TablesStep, CountsStep DEF Invariant
<1> QED
  BY <1>1, <1>2, PTL DEF Spec

\* An undisturbed bill is closed with the sum of its line items: the drain of
\* BillingWorkflow and the seen set make the total that CloseBillActivity
\* writes over the row agree with the table.
THEOREM ClosedTotalTheorem == Spec => []ClosedTotalExact
<1>1. Invariant => ClosedTotalExact
  BY DEF Invariant, CountsAgree, CloseInv, Closes, ClosedTotalExact
<1> QED
  BY <1>1, InvariantHolds, PTL

\* One step of ClosedIsFrozen.
FrozenStep ==
  \A b \in Bills :
    bills[b].status = "CLOSED" /\ hazard'[b] = {} /\ starts'[b] <= 1
      => bills'[b] = bills[b] /\ ItemsOf(b)' = ItemsOf(b)

LEMMA RowFrozen ==
  ASSUME NEW row \in Rows, row.status = "CLOSED"
  PROVE  [row EXCEPT !.status = "CLOSED", !.total = row.total, !.reason = row.reason] = row
BY DEF Rows

LEMMA FrozenHolds == Invariant /\ [Next]_vars => FrozenStep
<1> SUFFICES ASSUME Invariant, [Next]_vars, NEW b \in Bills, bills[b].status = "CLOSED",
                    hazard'[b] = {}, starts'[b] <= 1
             PROVE  bills'[b] = bills[b] /\ ItemsOf(b)' = ItemsOf(b)
  BY DEF FrozenStep
<1>1. WellTyped /\ TablesAgree /\ BillInv(b) /\ DBTypeOK
  BY StaysUndisturbed DEF Undisturbed, Invariant, CountsAgree, BillInv, WellTyped, TypeOK
<1>2. wf[b].phase \in EndPhases /\ Closes(b, bills[b])
  BY <1>1 DEF BillInv, CloseInv
<1>3. CASE UNCHANGED dbVars
  BY <1>3 DEF dbVars, ItemsOf
<1>4. ASSUME NEW x \in open, CommitTx(x)
      PROVE  bills'[b] = bills[b] /\ ItemsOf(b)' = ItemsOf(b)
  <2>1. x.in \in Inputs /\ Execute(x.in)
    BY <1>1, <1>4 DEF WellTyped, TypeOK, Attempts, CommitTx
  <2>2. x.in.kind \in {"create", "append", "close"}
    BY <2>1, KindsDiffer DEF Inputs
  <2>3. CASE x.in.kind = "append" /\ x.in.bill = b /\ ~HasItem(x.in.id)
    <3>1. x.in \in AppendInputs
      BY <2>1, <2>3, InputTypes
    <3>2. LineItem(x.in) \notin lineItems
      BY <2>3 DEF HasItem, LineItem
    <3>3. \E u \in Updates : RunningOn(u, b)
      BY <1>1, <2>3, <3>1, <3>2 DEF BillInv, AppendsInv
    <3>4. wf[b].phase \in {"await", "drain"}
      BY <1>1, <3>3 DEF BillInv, HandlersInv
    <3> QED
      BY <1>2, <3>4 DEF EndPhases
  <2>4. CASE x.in.kind = "append" /\ HasItem(x.in.id)
    BY <1>1, <2>1, <2>4, ExecuteEffect DEF dbVars, ItemsOf
  <2>5. CASE x.in.kind = "append" /\ ~HasItem(x.in.id) /\ x.in.bill # b
    <3>1. bills'[b] = bills[b] /\ lineItems' = lineItems \cup {LineItem(x.in)}
      BY <1>1, <2>1, <2>5, ExecuteEffect
    <3>2. LineItem(x.in).bill # b
      BY <2>5 DEF LineItem
    <3> QED
      BY <3>1, <3>2 DEF ItemsOf
  <2>6. CASE x.in.kind = "create"
    <3>1. bills'[b] = bills[b] /\ lineItems' = lineItems
      BY <1>1, <2>1, <2>6, ExecuteEffect
    <3> QED
      BY <3>1 DEF ItemsOf
  <2>7. CASE x.in.kind = "close" /\ x.in.bill # b
    <3>1. bills'[b] = bills[b] /\ lineItems' = lineItems
      BY <1>1, <2>1, <2>7, ExecuteEffect
    <3> QED
      BY <3>1 DEF ItemsOf
  <2>8. CASE x.in.kind = "close" /\ x.in.bill = b
    <3>1. x.in \in CloseInputs
      BY <2>1, <2>8, InputTypes
    <3>2. Closes(b, x.in)
      BY <1>1, <2>8, <3>1 DEF BillInv, CloseInv
    <3>3. x.in.total = bills[b].total /\ x.in.reason = bills[b].reason
      BY <1>2, <3>2 DEF Closes
    <3>4. /\ lineItems' = lineItems
          /\ bills'[b] = [bills[b] EXCEPT !.status = "CLOSED", !.total = x.in.total,
                                         !.reason = x.in.reason]
      BY <1>1, <2>1, <2>8, ExecuteEffect
    <3>5. bills[b] \in Rows
      BY <1>1 DEF DBTypeOK
    <3>6. bills'[b] = bills[b]
      BY <3>3, <3>4, <3>5, RowFrozen
    <3> QED
      BY <3>4, <3>6 DEF ItemsOf
  <2> QED
    BY <2>2, <2>3, <2>4, <2>5, <2>6, <2>7, <2>8
<1> QED
  BY <1>3, <1>4, WhoWrites

\* A CLOSED row and the items of its bill never change again while the bill is
\* undisturbed: second attempts of CloseBillActivity write what is there, and
\* no append is left that could still commit.
THEOREM ClosedIsFrozenTheorem == Spec => ClosedIsFrozen
<1>1. Invariant /\ [Next]_vars => [FrozenStep]_vars
  BY FrozenHolds
<1>2. Spec => [][FrozenStep]_vars
  BY <1>1, InvariantHolds, PTL DEF Spec
<1> QED
  BY <1>2 DEF ClosedIsFrozen, FrozenStep

-----------------------------------------------------------------------------
(* What a caller is told *)

LEMMA ItemsGrow ==
  ASSUME WellTyped, TablesAgree, [Next]_vars
  PROVE  lineItems \subseteq lineItems'
<1>1. CASE UNCHANGED dbVars
  BY <1>1 DEF dbVars
<1>2. ASSUME NEW x \in open, CommitTx(x) PROVE lineItems \subseteq lineItems'
  <2>1. x.in \in Inputs /\ Execute(x.in) /\ DBTypeOK /\ x.in.bill \in Bills
    BY <1>2, InputTypes DEF WellTyped, TypeOK, Attempts, CommitTx
  <2> QED
    BY <2>1, ExecuteEffect
<1> QED
  BY <1>1, <1>2, WhoWrites

\* An acknowledgement, a seen id or a committed append is an old one, or its
\* item is in the table.
LEMMA AckFrame ==
  ASSUME WellTyped, WellTyped', TablesAgree, AcksAgree, [Next]_vars,
         \A u \in Updates : upd'[u].st = "done" /\ upd'[u].code = "OK" =>
           \/ upd[u].st = "done" /\ upd[u].code = "OK" /\ upd'[u].in = upd[u].in
           \/ /\ upd'[u].in.bill \in Bills
              /\ "sharedKey" \notin hazard'[upd'[u].in.bill] =>
                   \E li \in ItemsOf(upd'[u].in.bill) : li.id = upd'[u].in.id,
         \A b \in Bills : \A id \in wf'[b].seen :
           \/ id \in wf[b].seen
           \/ "sharedKey" \notin hazard'[b] => \E li \in ItemsOf(b) : li.id = id,
         \A u \in Updates : upd'[u].st = "running" /\ act'[u].st = "committed" =>
           \/ upd[u].st = "running" /\ act[u].st = "committed" /\ upd'[u].in = upd[u].in
           \/ "sharedKey" \notin hazard'[upd'[u].in.bill] => LineItem(upd'[u].in) \in lineItems'
  PROVE  AcksAgree'
<1>1. lineItems \subseteq lineItems'
  BY ItemsGrow
<1>2. \A b \in Bills : hazard[b] \subseteq hazard'[b]
  BY HazardGrows
<1>3. \A b : ItemsOf(b) \subseteq ItemsOf(b)'
  BY <1>1 DEF ItemsOf
<1>4. \A u \in Updates : upd[u].st # "idle" => upd[u].in.bill \in Bills
  BY HandlerFacts, RequestTypes
<1>5. AckedIsPersisted'
  <2>1. ASSUME NEW u \in Updates, upd'[u].st = "done", upd'[u].code = "OK",
               "sharedKey" \notin hazard'[upd'[u].in.bill]
        PROVE  \E li \in lineItems' : li.bill = upd'[u].in.bill /\ li.id = upd'[u].in.id
    <3>1. CASE upd[u].st = "done" /\ upd[u].code = "OK" /\ upd'[u].in = upd[u].in
      <4>1. "sharedKey" \notin hazard[upd[u].in.bill]
        BY <1>2, <1>4, <2>1, <3>1
      <4>2. \E li \in ItemsOf(upd[u].in.bill) : li.id = upd[u].in.id
        BY <3>1, <4>1 DEF AcksAgree, AckedIsPersisted
      <4> QED
        BY <1>1, <3>1, <4>2 DEF ItemsOf
    <3>2. CASE \E li \in ItemsOf(upd'[u].in.bill) : li.id = upd'[u].in.id
      BY <1>1, <3>2 DEF ItemsOf
    <3> QED
      BY <2>1, <3>1, <3>2
  <2> QED
    BY <2>1 DEF AckedIsPersisted, ItemsOf
<1>6. ASSUME NEW b \in Bills, "sharedKey" \notin hazard'[b], NEW id \in wf'[b].seen
      PROVE  \E li \in ItemsOf(b)' : li.id = id
  <2>1. "sharedKey" \notin hazard[b]
    BY <1>2, <1>6
  <2>2. \E li \in ItemsOf(b) : li.id = id
    BY <1>6, <2>1 DEF AcksAgree
  <2> QED
    BY <1>3, <2>2
<1>7. ASSUME NEW u \in Updates, upd'[u].st = "running", act'[u].st = "committed",
             "sharedKey" \notin hazard'[upd'[u].in.bill]
      PROVE  LineItem(upd'[u].in) \in lineItems'
  <2>1. CASE upd[u].st = "running" /\ act[u].st = "committed" /\ upd'[u].in = upd[u].in
    <3>1. "sharedKey" \notin hazard[upd[u].in.bill]
      BY <1>2, <1>4, <1>7, <2>1
    <3>2. LineItem(upd[u].in) \in lineItems
      BY <2>1, <3>1 DEF AcksAgree
    <3> QED
      BY <1>1, <2>1, <3>2
  <2> QED
    BY <1>7, <2>1
<1> QED
  BY <1>5, <1>6, <1>7 DEF AcksAgree, ItemsOf, LineItem

\* Steps that answer nobody with OK, count nothing and commit nothing.
LEMMA SilentAcks ==
  ASSUME WellTyped, WellTyped', TablesAgree, AcksAgree, [Next]_vars,
         \A u \in Updates : upd'[u] = upd[u] \/ (upd'[u].st = "done" /\ upd'[u].code # "OK"),
         \A b \in Bills : wf'[b].seen \subseteq wf[b].seen,
         \A u \in Updates : act'[u].st = "committed" => act[u].st = "committed"
  PROVE  AcksAgree'
<1>1. \A u \in Updates : upd'[u].st = "done" /\ upd'[u].code = "OK" =>
        upd[u].st = "done" /\ upd[u].code = "OK" /\ upd'[u].in = upd[u].in
  OBVIOUS
<1>2. \A u \in Updates : upd'[u].st = "running" /\ act'[u].st = "committed" =>
        upd[u].st = "running" /\ act[u].st = "committed" /\ upd'[u].in = upd[u].in
  OBVIOUS
<1> QED
  BY <1>1, <1>2, AckFrame

\* The seen sets after a task, and the handlers' activities.
LEMMA TaskSeen ==
  ASSUME WellTyped, NEW b \in Bills, NEW w \in Executions, NEW busy \in BOOLEAN,
         NEW a \in [Tasks -> Activities], RunTask(b, w, busy, a)
  PROVE  /\ wf'[b].seen = w.seen /\ \A c \in Bills \ {b} : wf'[c] = wf[c]
         /\ \A u \in Updates : act'[u] = a[u]
<1>1. Updates \subseteq Tasks /\ Updates \cap Bills = {}
  BY WorkflowAssumption DEF Tasks
<1>2. /\ wf'[b] = Proceed(w, busy) /\ \A c \in Bills \ {b} : wf'[c] = wf[c]
      /\ \A t \in Tasks \ {b} : act'[t] = a[t]
  BY RunTaskEffect DEF WellTyped
<1>3. Proceed(w, busy).seen = w.seen
  BY ProceedFields
<1> QED
  BY <1>1, <1>2, <1>3

LEMMA AnsweredAcks ==
  ASSUME WellTyped, WellTyped', TablesAgree, AcksAgree, [Next]_vars,
         NEW u \in Updates, NEW r \in Requests, AddLineItemAnswered(u, r)
  PROVE  AcksAgree'
<1> DEFINE b == r.bill
           w == Select(wf[b])
           busy == Handlers(b) # {}
<1>1. /\ upd[u].st = "idle" /\ Accepts(b) /\ RunTask(b, w, busy, act)
      /\ hazard' = hazard /\ Answer(u, r, Validate(b, r))
      /\ Validate(b, r) = "OK" => r.id \in wf[b].seen
  BY DEF AddLineItemAnswered
<1>2. b \in Bills
  BY RequestTypes
<1>3. w \in Executions /\ w.seen = wf[b].seen /\ act \in [Tasks -> Activities] /\ busy \in BOOLEAN
  BY <1>1, <1>2, AcceptingTask, SelectFields DEF WellTyped, TypeOK
<1>4. /\ upd'[u].in = r /\ upd'[u].code = Validate(b, r)
      /\ \A v \in Updates \ {u} : upd'[v] = upd[v]
  <2>1. Validate(b, r) \in Codes
    BY DEF Validate, Codes
  <2> QED
    BY <1>1, <2>1, AnswerType DEF WellTyped
<1> HIDE DEF w, busy
<1>5. /\ wf'[b].seen = wf[b].seen /\ \A c \in Bills \ {b} : wf'[c] = wf[c]
      /\ \A v \in Updates : act'[v] = act[v]
  BY <1>1, <1>2, <1>3, TaskSeen
<1>6. ASSUME upd'[u].code = "OK", "sharedKey" \notin hazard'[b]
      PROVE  \E li \in ItemsOf(b) : li.id = r.id
  BY <1>1, <1>2, <1>4, <1>6 DEF AcksAgree
<1>7. \A c \in Bills : wf'[c].seen = wf[c].seen
  BY <1>5
<1>8. upd'[u].st = "done"
  <2>1. Validate(b, r) \in Codes
    BY DEF Validate, Codes
  <2> QED
    BY <1>1, <2>1, AnswerType DEF WellTyped
<1>9. \A v \in Updates : upd'[v].st = "done" /\ upd'[v].code = "OK" =>
         \/ upd[v].st = "done" /\ upd[v].code = "OK" /\ upd'[v].in = upd[v].in
         \/ /\ upd'[v].in.bill \in Bills
            /\ "sharedKey" \notin hazard'[upd'[v].in.bill] =>
                 \E li \in ItemsOf(upd'[v].in.bill) : li.id = upd'[v].in.id
  BY <1>2, <1>4, <1>6
<1>10. \A v \in Updates : upd'[v].st = "running" /\ act'[v].st = "committed" =>
         upd[v].st = "running" /\ act[v].st = "committed" /\ upd'[v].in = upd[v].in
  BY <1>4, <1>5, <1>8
<1> QED
  BY <1>7, <1>9, <1>10, AckFrame

LEMMA StartedAcks ==
  ASSUME WellTyped, WellTyped', TablesAgree, AcksAgree, [Next]_vars,
         NEW u \in Updates, NEW r \in Requests, AddLineItemStarted(u, r)
  PROVE  AcksAgree'
<1> DEFINE b == r.bill
           w == Select(wf[b])
           a == [act EXCEPT ![u] = Schedule(AppendInput(r))]
<1>1. /\ Accepts(b) /\ RunTask(b, w, TRUE, a)
      /\ upd' = [upd EXCEPT ![u] = [st |-> "running", in |-> r, code |-> ""]]
  BY DEF AddLineItemStarted
<1>2. b \in Bills
  BY RequestTypes
<1>3. w \in Executions /\ w.seen = wf[b].seen
  BY <1>1, <1>2, AcceptingTask, SelectFields
<1>4. upd'[u].st = "running" /\ \A v \in Updates \ {u} : upd'[v] = upd[v]
  BY <1>1 DEF WellTyped, TypeOK
<1>5. /\ a \in [Tasks -> Activities]
      /\ a[u].st = "scheduled" /\ \A v \in Updates \ {u} : a[v] = act[v]
  <2>1. AppendInput(r) \in Inputs
    BY RequestTypes, ChargeTypes DEF Inputs
  <2>2. Schedule(AppendInput(r)) \in Activities /\ Schedule(AppendInput(r)).st = "scheduled"
    BY <2>1, ScheduleType
  <2> QED
    BY <2>2 DEF WellTyped, TypeOK, Tasks
<1> HIDE DEF w, a
<1>6. /\ wf'[b].seen = wf[b].seen /\ \A c \in Bills \ {b} : wf'[c] = wf[c]
      /\ \A v \in Updates : act'[v] = a[v]
  BY <1>1, <1>2, <1>3, <1>5, TaskSeen
<1>7. \A c \in Bills : wf'[c].seen = wf[c].seen
  BY <1>6
<1>8. \A v \in Updates : upd'[v].st = "done" /\ upd'[v].code = "OK" =>
        upd[v].st = "done" /\ upd[v].code = "OK" /\ upd'[v].in = upd[v].in
  BY <1>4
<1>9. \A v \in Updates : upd'[v].st = "running" /\ act'[v].st = "committed" =>
        upd[v].st = "running" /\ act[v].st = "committed" /\ upd'[v].in = upd[v].in
  BY <1>4, <1>5, <1>6
<1> QED
  BY <1>7, <1>8, <1>9, AckFrame

LEMMA HandlerDoneAcks ==
  ASSUME WellTyped, WellTyped', TablesAgree, AcksAgree, [Next]_vars,
         NEW u \in Updates, HandlerDone(u)
  PROVE  AcksAgree'
<1> DEFINE r == upd[u].in
           b == r.bill
           y == Select(wf[b])
           w == Counted(y, r)
           busy == Handlers(b) \ {u} # {}
           a == [act EXCEPT ![u] = NoTask]
<1>1. /\ upd[u].st = "running" /\ act[u].st = "committed" /\ RunTask(b, w, busy, a)
      /\ hazard' = hazard /\ lineItems' = lineItems /\ Answer(u, r, "OK")
  BY DEF HandlerDone, dbVars
<1>2. r \in Requests /\ b \in Bills /\ Accepts(b)
  BY <1>1, HandlerFacts DEF Accepts
<1>3. y \in Executions /\ y.seen = wf[b].seen
  BY <1>2, AcceptingTask, SelectFields
<1>4. r \in RequestRecords
  BY <1>2, RequestTypes
<1>5. upd'[u].st = "done" /\ upd'[u].in = r /\ \A v \in Updates \ {u} : upd'[v] = upd[v]
  <2>1. "OK" \in Codes
    BY DEF Codes
  <2> QED
    BY <1>1, <1>2, <2>1, AnswerType DEF WellTyped
<1>6. a \in [Tasks -> Activities] /\ \A v \in Updates \ {u} : a[v] = act[v]
  BY NoTaskType DEF WellTyped, TypeOK, Tasks
<1>7. busy \in BOOLEAN
  OBVIOUS
<1>8. "sharedKey" \notin hazard[b] => \E li \in ItemsOf(b) : li.id = r.id
  <2>1. "sharedKey" \notin hazard[b] => LineItem(r) \in lineItems
    BY <1>1 DEF AcksAgree
  <2> QED
    BY <2>1, AppendInputItem DEF ItemsOf
<1> HIDE DEF y
<1>9. w \in Executions /\ w.seen = wf[b].seen \cup {r.id}
  <2>1. w \in Executions
    BY <1>3, <1>4, CountedType
  <2>2. w.seen = y.seen \cup {r.id}
    BY <1>3, CountedFields
  <2> QED
    BY <1>3, <2>1, <2>2
<1> HIDE DEF w, busy, a
<1>10. /\ wf'[b].seen = wf[b].seen \cup {r.id} /\ \A c \in Bills \ {b} : wf'[c] = wf[c]
       /\ \A v \in Updates : act'[v] = a[v]
  BY <1>1, <1>2, <1>6, <1>7, <1>9, TaskSeen
<1> HIDE DEF b, r
<1>11. \A c \in Bills : \A id \in wf'[c].seen :
         \/ id \in wf[c].seen
         \/ "sharedKey" \notin hazard'[c] => \E li \in ItemsOf(c) : li.id = id
  BY <1>1, <1>8, <1>10
<1>12. \A v \in Updates : upd'[v].st = "done" /\ upd'[v].code = "OK" =>
         \/ upd[v].st = "done" /\ upd[v].code = "OK" /\ upd'[v].in = upd[v].in
         \/ /\ upd'[v].in.bill \in Bills
            /\ "sharedKey" \notin hazard'[upd'[v].in.bill] =>
                 \E li \in ItemsOf(upd'[v].in.bill) : li.id = upd'[v].in.id
  BY <1>1, <1>2, <1>5, <1>8 DEF b
<1>13. \A v \in Updates : upd'[v].st = "running" /\ act'[v].st = "committed" =>
         upd[v].st = "running" /\ act[v].st = "committed" /\ upd'[v].in = upd[v].in
  BY <1>5, <1>6, <1>10
<1> QED
  BY <1>11, <1>12, <1>13, AckFrame

LEMMA HandlerFailedAcks ==
  ASSUME WellTyped, WellTyped', TablesAgree, AcksAgree, [Next]_vars,
         NEW u \in Updates, HandlerFailed(u)
  PROVE  AcksAgree'
<1> DEFINE r == upd[u].in
           b == r.bill
           w == Select(wf[b])
           busy == Handlers(b) \ {u} # {}
           a == [act EXCEPT ![u] = NoTask]
<1>1. /\ upd[u].st = "running" /\ RunTask(b, w, busy, a) /\ Answer(u, r, "InvalidArgument")
  BY DEF HandlerFailed
<1>2. r \in Requests /\ b \in Bills /\ Accepts(b)
  BY <1>1, HandlerFacts DEF Accepts
<1>3. w \in Executions /\ w.seen = wf[b].seen
  BY <1>2, AcceptingTask, SelectFields
<1>4. /\ upd'[u].st = "done" /\ upd'[u].code # "OK"
      /\ \A v \in Updates \ {u} : upd'[v] = upd[v]
  <2>1. "InvalidArgument" \in Codes
    BY DEF Codes
  <2> QED
    BY <1>1, <1>2, <2>1, AnswerType DEF WellTyped
<1>5. /\ a \in [Tasks -> Activities] /\ a[u].st = "idle"
      /\ \A v \in Updates \ {u} : a[v] = act[v]
  BY NoTaskType DEF WellTyped, TypeOK, Tasks
<1>6. busy \in BOOLEAN
  OBVIOUS
<1> HIDE DEF w, busy, a
<1>7. /\ wf'[b].seen = wf[b].seen /\ \A c \in Bills \ {b} : wf'[c] = wf[c]
      /\ \A v \in Updates : act'[v] = a[v]
  BY <1>1, <1>2, <1>3, <1>5, <1>6, TaskSeen
<1>8. \A c \in Bills : wf'[c].seen \subseteq wf[c].seen
  BY <1>7
<1>9. \A v \in Updates : act'[v].st = "committed" => act[v].st = "committed"
  BY <1>5, <1>7
<1>10. \A v \in Updates : upd'[v] = upd[v] \/ (upd'[v].st = "done" /\ upd'[v].code # "OK")
  BY <1>4
<1> QED
  BY <1>8, <1>9, <1>10, SilentAcks

LEMMA MainAcks ==
  ASSUME WellTyped, WellTyped', TablesAgree, AcksAgree, [Next]_vars,
         NEW b \in Bills,
         \/ CloseBill(b) \/ PeriodPasses(b) \/ WorkflowTask(b)
         \/ \E c \in Currencies, p \in Periods[b] : CreateBill(b, c, p)
  PROVE  AcksAgree'
<1>1. wf[b] \in Executions /\ wf \in [Bills -> Executions] /\ act \in [Tasks -> Activities]
  BY DEF WellTyped, TypeOK
<1>2. Updates \subseteq Tasks /\ b \in Tasks /\ Updates \cap Bills = {}
  BY WorkflowAssumption DEF Tasks
<1>3. ASSUME upd' = upd, \A c \in Bills \ {b} : wf'[c] = wf[c],
             wf'[b].seen \subseteq wf[b].seen, \A u \in Updates : act'[u] = act[u]
      PROVE  AcksAgree'
  BY <1>3, SilentAcks
<1>4. CASE \E c \in Currencies, p \in Periods[b] : CreateBill(b, c, p)
  <2>1. PICK c \in Currencies, p \in Periods[b] : CreateBill(b, c, p)
    BY <1>4
  <2>2. initialBill("start", c, p).seen = {}
    BY DEF initialBill
  <2> QED
    BY <1>1, <1>3, <2>1, <2>2 DEF CreateBill
<1>5. CASE CloseBill(b) \/ PeriodPasses(b)
  <2>1. \/ wf' = [wf EXCEPT ![b] = [wf[b] EXCEPT !.signal = TRUE]]
        \/ wf' = [wf EXCEPT ![b] = [wf[b] EXCEPT !.period = "over"]]
    BY <1>5 DEF CloseBill, PeriodPasses
  <2>2. /\ [wf[b] EXCEPT !.signal = TRUE].seen = wf[b].seen
        /\ [wf[b] EXCEPT !.period = "over"].seen = wf[b].seen
    BY <1>1 DEF Executions
  <2>3. wf'[b].seen = wf[b].seen /\ \A c \in Bills \ {b} : wf'[c] = wf[c]
    BY <1>1, <2>1, <2>2
  <2> QED
    BY <1>3, <1>5, <2>3 DEF CloseBill, PeriodPasses
<1>6. CASE FirstTask(b) \/ CreateFailed(b)
  <2>1. PICK ph \in Phases : wf' = [wf EXCEPT ![b].phase = ph]
    BY <1>6 DEF FirstTask, CreateFailed, Phases
  <2>2. wf'[b].seen = wf[b].seen /\ \A c \in Bills \ {b} : wf'[c] = wf[c]
    BY <2>1, SetPhase
  <2>3. \A u \in Updates : act'[u] = act[u]
    BY <1>1, <1>2, <1>6 DEF FirstTask, CreateFailed
  <2> QED
    BY <1>3, <1>6, <2>2, <2>3 DEF FirstTask, CreateFailed
<1>7. CASE CreateDone(b) \/ ResumeTask(b)
  <2> DEFINE w == awaitCloseOrThreshold(wf[b])
             a == IF wf[b].phase = "creating" THEN [act EXCEPT ![b] = NoTask] ELSE act
  <2>1. RunTask(b, w, FALSE, a) /\ upd' = upd
    BY <1>7 DEF CreateDone, ResumeTask
  <2>2. w \in Executions /\ w.seen = wf[b].seen
    BY <1>1, SelectType, AwaitFields
  <2>3. a \in [Tasks -> Activities] /\ \A u \in Updates : a[u] = act[u]
    BY <1>1, <1>2, NoTaskType
  <2> HIDE DEF w, a
  <2>4. /\ wf'[b].seen = w.seen /\ \A c \in Bills \ {b} : wf'[c] = wf[c]
        /\ \A u \in Updates : act'[u] = a[u]
    BY <2>1, <2>2, <2>3, TaskSeen
  <2> QED
    BY <1>3, <2>1, <2>2, <2>3, <2>4
<1>8. CASE SelectorTask(b)
  <2> DEFINE w == Select(wf[b])
             busy == Handlers(b) # {}
  <2>1. RunTask(b, w, busy, act) /\ upd' = upd
    BY <1>8 DEF SelectorTask
  <2>2. w \in Executions /\ w.seen = wf[b].seen /\ busy \in BOOLEAN
    BY <1>1, SelectType, SelectFields
  <2> HIDE DEF w, busy
  <2>3. /\ wf'[b].seen = w.seen /\ \A c \in Bills \ {b} : wf'[c] = wf[c]
        /\ \A u \in Updates : act'[u] = act[u]
    BY <1>1, <2>1, <2>2, TaskSeen
  <2> QED
    BY <1>3, <2>1, <2>2, <2>3
<1>9. CASE CloseDone(b) \/ CloseFailed(b)
  <2>1. PICK ph \in Phases : EndWorkflow(b, ph)
    BY <1>9 DEF CloseDone, CloseFailed, Phases
  <2>2. wf'[b].seen = wf[b].seen /\ \A c \in Bills \ {b} : wf'[c] = wf[c]
    BY <2>1, SetPhase DEF EndWorkflow
  <2>3. \A u \in Updates : act'[u] = act[u] \/ act'[u].st = "idle"
    BY <1>2, <2>1, NoTaskType DEF EndWorkflow
  <2>4. \A u \in Updates : upd'[u] = upd[u] \/ (upd'[u].st = "done" /\ upd'[u].code # "OK")
    <3>1. ASSUME NEW u \in Updates
          PROVE  LET y == [upd[u] EXCEPT !.st = "done", !.code = "Failed"] IN
                 y.st = "done" /\ y.code # "OK"
      BY DEF WellTyped, TypeOK, Calls
    <3> QED
      BY <2>1, <3>1 DEF EndWorkflow
  <2>5. \A c \in Bills : wf'[c].seen \subseteq wf[c].seen
    BY <2>2
  <2>6. \A u \in Updates : act'[u].st = "committed" => act[u].st = "committed"
    BY <2>3
  <2> QED
    BY <2>4, <2>5, <2>6, SilentAcks
<1> QED
  BY <1>4, <1>5, <1>6, <1>7, <1>8, <1>9 DEF WorkflowTask

LEMMA AttemptAcks ==
  ASSUME WellTyped, WellTyped', TablesAgree, AcksAgree, [Next]_vars,
         NEW t \in Tasks,
         StartAttempt(t) \/ LoseAttempt(t) \/ ExpireActivity(t) \/ EndAttempt(t)
  PROVE  AcksAgree'
<1>1. upd' = upd /\ wf' = wf
  BY DEF StartAttempt, LoseAttempt, ExpireActivity, EndAttempt, CommitTx, AbortTx
<1>2. Updates \subseteq Tasks
  BY DEF Tasks
<1>3. ASSUME NEW x \in open, CommitTx(x)
      PROVE  AcksAgree'
  <2>1. ASSUME NEW u \in Updates, upd'[u].st = "running", act'[u].st = "committed",
               act[u].st # "committed", "sharedKey" \notin hazard'[upd'[u].in.bill]
        PROVE  LineItem(upd'[u].in) \in lineItems'
    <3>1. act[u].st # "idle" /\ act[u].in = x.in
      BY <1>2, <1>3, <2>1, CommitActs
    <3>2. x.in = AppendInput(upd[u].in)
      BY <3>1, HandlerFacts
    <3>3. x.in.kind = "append" /\ x.in.bill = upd[u].in.bill /\ LineItem(x.in) = LineItem(upd[u].in)
      BY <3>2, AppendInputItem
    <3>4. "sharedKey" \notin hazard'[x.in.bill]
      BY <1>1, <2>1, <3>3
    <3>5. LineItem(x.in) \in lineItems'
      BY <1>3, <3>3, <3>4, AppendCommitted
    <3> QED
      BY <1>1, <3>3, <3>5
  <2> QED
    BY <1>1, <2>1, AckFrame
<1>4. CASE \/ StartAttempt(t) \/ LoseAttempt(t) \/ ExpireActivity(t)
           \/ \E x \in open : AbortTx(x) /\ x.task = t
  <2>1. \A u \in Updates : act'[u].st = "committed" => act[u].st = "committed"
    BY <1>2, <1>4, AttemptActs
  <2> QED
    BY <1>1, <2>1, SilentAcks
<1> QED
  BY <1>3, <1>4 DEF EndAttempt

LEMMA AcksInit == Init => AcksAgree
<1> SUFFICES ASSUME Init PROVE AcksAgree
  OBVIOUS
<1>1. \A u \in Updates : upd[u].st = "idle"
  BY DEF Init
<1>2. \A b \in Bills : wf[b].seen = {}
  BY DEF Init, initialBill
<1> QED
  BY <1>1, <1>2 DEF AcksAgree, AckedIsPersisted

LEMMA AcksStep ==
  WellTyped /\ WellTyped' /\ TablesAgree /\ AcksAgree /\ [Next]_vars => AcksAgree'
<1> SUFFICES ASSUME WellTyped, WellTyped', TablesAgree, AcksAgree, [Next]_vars
             PROVE  AcksAgree'
  OBVIOUS
<1>1. CASE UNCHANGED vars
  BY <1>1, SilentAcks DEF vars
<1>2. ASSUME NEW b \in Bills,
             \/ CloseBill(b) \/ PeriodPasses(b) \/ WorkflowTask(b)
             \/ \E c \in Currencies, p \in Periods[b] : CreateBill(b, c, p)
      PROVE  AcksAgree'
  BY <1>2, MainAcks
<1>3. ASSUME NEW u \in Updates, NEW r \in Requests, AddLineItemRefused(u, r)
      PROVE  AcksAgree'
  <2>1. PICK code \in Codes : code # "OK" /\ Answer(u, r, code)
    BY <1>3 DEF AddLineItemRefused, Codes
  <2>2. /\ upd'[u].st = "done" /\ upd'[u].code # "OK"
        /\ \A v \in Updates \ {u} : upd'[v] = upd[v]
    BY <2>1, AnswerType DEF WellTyped
  <2>3. \A v \in Updates : upd'[v] = upd[v] \/ (upd'[v].st = "done" /\ upd'[v].code # "OK")
    BY <2>2
  <2>4. wf' = wf /\ act' = act
    BY <1>3 DEF AddLineItemRefused
  <2> QED
    BY <2>3, <2>4, SilentAcks
<1>4. ASSUME NEW u \in Updates, NEW r \in Requests,
             AddLineItemAnswered(u, r) \/ AddLineItemStarted(u, r)
      PROVE  AcksAgree'
  BY <1>4, AnsweredAcks, StartedAcks
<1>5. ASSUME NEW u \in Updates, HandlerTask(u)
      PROVE  AcksAgree'
  BY <1>5, HandlerDoneAcks, HandlerFailedAcks DEF HandlerTask
<1>6. ASSUME NEW t \in Tasks,
             StartAttempt(t) \/ LoseAttempt(t) \/ ExpireActivity(t) \/ EndAttempt(t)
      PROVE  AcksAgree'
  BY <1>6, AttemptAcks
<1> QED
  BY <1>1, <1>2, <1>3, <1>4, <1>5, <1>6 DEF Next

\* An acknowledged AddLineItem is on its bill, whether its own activity wrote
\* it or the seen set answered for an earlier one, through retries, lost
\* results, ContinueAsNew and restarts, unless the key was another's.
THEOREM AckedTheorem == Spec => []AckedIsPersisted
<1>1. AcksAgree => AckedIsPersisted
  BY DEF AcksAgree
<1> QED
  BY <1>1, WellTypedInit, WellTypedStep, TablesInit, TablesStep, AcksInit, AcksStep, PTL
  DEF Spec

\* What the seen sets and the committed attempts stand for holds throughout.
LEMMA AcksHold == Spec => []AcksAgree
BY WellTypedInit, WellTypedStep, TablesInit, TablesStep, AcksInit, AcksStep, PTL DEF Spec
=============================================================================
