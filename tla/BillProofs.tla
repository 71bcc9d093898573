----------------------------- MODULE BillProofs -----------------------------
(***************************************************************************)
(* Type correctness of BillWorkflow and what its tables guarantee, proved  *)
(* for every set of bills, items, calls and requests, every threshold and  *)
(* every number of attempts and restarts.                                  *)
(***************************************************************************)
EXTENDS BillInvariant, TLAPS

-----------------------------------------------------------------------------
(* The operators *)

LEMMA TotalTypes ==
  /\ ZeroTotal \in Total
  /\ \A t \in Total, c \in Charges : AddTo(t, c) \in Total
BY DEF ZeroTotal, Total, AddTo

LEMMA ItemsTotalType == \A b \in Bills : ItemsTotal(b) \in Total
BY DEF ItemsTotal, Total

LEMMA ChargeTypes ==
  /\ \A r \in AppendInputs : Charge(r) \in Charges /\ LineItem(r) \in LineItems
  /\ \A r \in RequestRecords : Charge(r) \in Charges /\ AppendInput(r) \in AppendInputs
  /\ \A li \in LineItems : Charge(li) \in Charges
BY DEF AppendInputs, RequestRecords, LineItems, Charges, Charge, LineItem, AppendInput

LEMMA InputTypes ==
  \A in \in Inputs :
    /\ in.bill \in Bills
    /\ in.kind = "create" => in \in CreateInputs
    /\ in.kind = "append" => in \in AppendInputs
    /\ in.kind = "close" => in \in CloseInputs
BY DEF Inputs, CreateInputs, AppendInputs, CloseInputs

LEMMA RowClosed ==
  ASSUME NEW row \in Rows, NEW t \in Total, NEW reason \in CloseReasons
  PROVE  [row EXCEPT !.status = "CLOSED", !.total = t, !.reason = reason] \in Rows
BY DEF Rows

LEMMA appendEventType ==
  ASSUME billEvents \in [Bills -> Seq(Events)], NEW b \in Bills, NEW e \in Events,
         appendEvent(b, e)
  PROVE  billEvents' \in [Bills -> Seq(Events)]
<1>1. Append(billEvents[b], e) \in Seq(Events)
  OBVIOUS
<1> QED
  BY <1>1 DEF appendEvent

\* Each transaction keeps the tables' types.
LEMMA ExecuteType ==
  ASSUME DBTypeOK, NEW in \in Inputs, Execute(in)
  PROVE  DBTypeOK'
<1> USE DEF DBTypeOK
<1>1. CASE UNCHANGED dbVars
  BY <1>1 DEF dbVars
<1>2. CASE in.kind = "create" /\ CreateBillActivity(in) /\ ~UNCHANGED dbVars
  <2>1. in \in CreateInputs
    BY <1>2, InputTypes
  <2>2. [NoRow EXCEPT !.status = "OPEN", !.currency = in.currency] \in Rows
    BY <2>1, TotalTypes DEF NoRow, Rows, CreateInputs
  <2>3. [kind |-> "OPENED", actor |-> Owner[in.bill], currency |-> in.currency] \in Events
    BY <2>1, DBAssumption DEF Events, Actors, CreateInputs
  <2>4. bills' \in [Bills -> Rows]
    BY <1>2, <2>2 DEF CreateBillActivity
  <2>5. billEvents' \in [Bills -> Seq(Events)]
    BY <1>2, <2>3, InputTypes, appendEventType DEF CreateBillActivity
  <2> QED
    BY <1>2, <2>4, <2>5 DEF CreateBillActivity
<1>3. CASE in.kind = "append" /\ AppendLineItemActivity(in) /\ ~UNCHANGED dbVars
  <2>1. in \in AppendInputs /\ LineItem(in) \in LineItems /\ Charge(in) \in Charges
    BY <1>3, InputTypes, ChargeTypes
  <2>2. AddTo(bills[in.bill].total, Charge(in)) \in Total
    BY <2>1, TotalTypes DEF Rows, AppendInputs
  <2>3. bills' \in [Bills -> Rows]
    <3> DEFINE row == [bills[in.bill] EXCEPT !.total = AddTo(@, Charge(in))]
    <3>1. bills[in.bill] \in Rows
      BY <2>1 DEF AppendInputs
    <3>2. ASSUME NEW t \in Total PROVE [bills[in.bill] EXCEPT !.total = t] \in Rows
      BY <3>1 DEF Rows
    <3>3. row \in Rows
      BY <2>2, <3>2
    <3>4. bills' = [bills EXCEPT ![in.bill] = row]
      BY <1>3 DEF AppendLineItemActivity
    <3> HIDE DEF row
    <3> QED
      BY <3>3, <3>4
  <2>4. [kind |-> "ITEM_ADDED", actor |-> in.actor, item |-> LineItem(in)] \in Events
    BY <2>1 DEF Events, Actors, AppendInputs
  <2>5. billEvents' \in [Bills -> Seq(Events)]
    BY <1>3, <2>4, InputTypes, appendEventType DEF AppendLineItemActivity
  <2> QED
    BY <1>3, <2>1, <2>3, <2>5 DEF AppendLineItemActivity
<1>4. CASE in.kind = "close" /\ CloseBillActivity(in)
  <2>1. in \in CloseInputs
    BY <1>4, InputTypes
  <2>2. bills' \in [Bills -> Rows]
    <3>1. [bills[in.bill] EXCEPT !.status = "CLOSED", !.total = in.total,
                                 !.reason = in.reason] \in Rows
      BY <2>1, RowClosed DEF CloseInputs
    <3> QED
      BY <1>4, <3>1 DEF CloseBillActivity
  <2>3. [kind |-> "CLOSED", actor |-> in.actor, total |-> in.total,
         reason |-> in.reason] \in Events
    BY <2>1 DEF Events, CloseInputs
  <2>4. billEvents' \in [Bills -> Seq(Events)]
    BY <1>4, <2>3, InputTypes, appendEventType DEF CloseBillActivity
  <2> QED
    BY <1>4, <2>2, <2>4 DEF CloseBillActivity
<1> QED
  BY <1>1, <1>2, <1>3, <1>4 DEF Execute

-----------------------------------------------------------------------------
(* One workflow task *)

LEMMA ExecutionFields ==
  ASSUME NEW w \in Executions
  PROVE  /\ w.phase \in Phases
         /\ w.currency \in Currencies \cup {""}
         /\ w.total \in Total
         /\ w.itemCount \in Nat
         /\ w.seen \in SUBSET Items
         /\ w.reason \in CloseReasons \cup {""}
         /\ w.run \in {0, 1}
BY DEF Executions

LEMMA SelectType ==
  ASSUME NEW w \in Executions
  PROVE  /\ Select(w) \in Executions
         /\ awaitCloseOrThreshold(w) \in Executions
BY DEF Select, awaitCloseOrThreshold, Executions, Phases, CloseReasons

LEMMA CountedType ==
  ASSUME NEW w \in Executions, NEW r \in RequestRecords
  PROVE  Counted(w, r) \in Executions
<1>1. AddTo(w.total, Charge(r)) \in Total
  BY TotalTypes, ChargeTypes DEF Executions
<1>2. r.id \in Items
  BY DEF RequestRecords
<1>3. ASSUME NEW t \in Total, NEW n \in Nat, NEW s \in SUBSET Items
      PROVE  [w EXCEPT !.total = t, !.itemCount = n, !.seen = s] \in Executions
  BY DEF Executions
<1>4. w.itemCount + 1 \in Nat
  <2>1. w.itemCount \in Nat
    BY ExecutionFields
  <2> QED
    BY <2>1
<1>5. w.seen \cup {r.id} \in SUBSET Items
  BY <1>2, ExecutionFields
<1> QED
  BY <1>1, <1>3, <1>4, <1>5 DEF Counted

\* The four ways the main coroutine goes on.
LEMMA ProceedCases ==
  ASSUME NEW w, NEW busy \in BOOLEAN
  PROVE  \/ Waits(w) /\ Proceed(w, busy) = w
         \/ ~Waits(w) /\ busy /\ Proceed(w, busy) = [w EXCEPT !.phase = "drain"]
         \/ ~Waits(w) /\ ~busy /\ w.reason = "" /\ Proceed(w, busy) = continueAsNew(w)
         \/ ~Waits(w) /\ ~busy /\ w.reason # "" /\ Proceed(w, busy) = finalize(w)
BY DEF Proceed

LEMMA ProceedType ==
  ASSUME NEW w \in Executions, NEW busy \in BOOLEAN
  PROVE  Proceed(w, busy) \in Executions
<1>1. [w EXCEPT !.phase = "drain"] \in Executions
  BY DEF Executions, Phases
<1>2. continueAsNew(w) \in Executions
  <2>1. 1 - w.run \in {0, 1}
    <3>1. w.run \in {0, 1}
      BY ExecutionFields
    <3> QED
      BY <3>1
  <2>2. ASSUME NEW k \in {0, 1}
        PROVE  [w EXCEPT !.phase = "resume", !.signal = FALSE, !.run = k] \in Executions
    BY DEF Executions, Phases
  <2> QED
    BY <2>1, <2>2 DEF continueAsNew
<1>3. finalize(w) \in Executions
  BY DEF finalize, Executions, Phases
<1> QED
  BY <1>1, <1>2, <1>3, ProceedCases

\* What the main coroutine leaves alone, and where it stops next.
LEMMA ProceedFields ==
  ASSUME NEW w \in Executions, NEW busy \in BOOLEAN
  PROVE  LET p == Proceed(w, busy) IN
         /\ p.currency = w.currency
         /\ p.total = w.total
         /\ p.seen = w.seen
         /\ p.reason = w.reason
         /\ p.phase \in {w.phase, "drain", "resume", "closing"}
<1>1. continueAsNew(w).phase = "resume" /\ finalize(w).phase = "closing"
  BY DEF continueAsNew, finalize, Executions
<1>2. LET p == continueAsNew(w) IN
      p.currency = w.currency /\ p.total = w.total /\ p.seen = w.seen /\ p.reason = w.reason
  BY DEF continueAsNew, Executions
<1>3. LET p == finalize(w) IN
      p.currency = w.currency /\ p.total = w.total /\ p.seen = w.seen /\ p.reason = w.reason
  BY DEF finalize, Executions
<1>4. LET p == [w EXCEPT !.phase = "drain"] IN
      /\ p.currency = w.currency /\ p.total = w.total /\ p.seen = w.seen
      /\ p.reason = w.reason /\ p.phase = "drain"
  BY DEF Executions
<1> QED
  BY <1>1, <1>2, <1>3, <1>4, ProceedCases

\* The bill closes for a reason, with no handler in flight; with one in flight
\* the coroutine waits where handlers are waited for.
LEMMA ProceedPhase ==
  ASSUME NEW w \in Executions, NEW busy \in BOOLEAN
  PROVE  LET p == Proceed(w, busy) IN
         /\ p.phase = "closing" /\ w.phase # "closing" => ~busy /\ w.reason # ""
         /\ busy /\ w.phase \in {"await", "drain", "closing"} =>
              p.phase \in {"await", "drain", "closing"}
<1>1. continueAsNew(w).phase = "resume" /\ finalize(w).phase = "closing"
  BY DEF continueAsNew, finalize, Executions
<1>2. [w EXCEPT !.phase = "drain"].phase = "drain"
  BY DEF Executions
<1> QED
  BY <1>1, <1>2, ProceedCases

LEMMA RunTaskType ==
  ASSUME TypeOK, NEW b \in Bills, NEW w \in Executions, NEW busy \in BOOLEAN,
         NEW a \in [Tasks -> Activities], RunTask(b, w, busy, a)
  PROVE  /\ wf' \in [Bills -> Executions]
         /\ act' \in [Tasks -> Activities]
<1> DEFINE p == Proceed(w, busy)
<1>1. p \in Executions
  BY ProceedType
<1>2. ASSUME p.phase = "closing", w.phase # "closing"
      PROVE  Schedule(CloseInput(b, p)) \in Activities /\ CloseInput(b, p) \in CloseInputs
  <2>1. p.reason \in CloseReasons
    <3>a. w.reason # ""
      BY <1>2, ProceedPhase
    <3>b. p.reason = w.reason
      BY ProceedFields
    <3>1. p.reason # ""
      BY <3>a, <3>b
    <3>2. p.reason \in CloseReasons \cup {""}
      BY <1>1, ExecutionFields
    <3> QED
      BY <3>1, <3>2
  <2>2. CloseInput(b, p) \in CloseInputs
    BY <1>1, <2>1, DBAssumption DEF CloseInput, CloseInputs, Actors, Executions
  <2> QED
    BY <2>2, WorkflowAssumption DEF Schedule, Activities, Inputs
<1> QED
  BY <1>1, <1>2 DEF RunTask, TypeOK, Tasks

LEMMA SelectFields ==
  ASSUME NEW w \in Executions
  PROVE  LET p == Select(w) IN
         p.phase = w.phase /\ p.currency = w.currency /\ p.total = w.total /\ p.seen = w.seen
BY DEF Select, Executions

LEMMA AwaitFields ==
  ASSUME NEW w \in Executions
  PROVE  LET p == awaitCloseOrThreshold(w) IN
         p.phase = "await" /\ p.currency = w.currency /\ p.total = w.total /\ p.seen = w.seen
BY DEF awaitCloseOrThreshold, Executions

LEMMA CountedFields ==
  ASSUME NEW w \in Executions, NEW r
  PROVE  LET p == Counted(w, r) IN
         /\ p.phase = w.phase /\ p.currency = w.currency
         /\ p.total = AddTo(w.total, Charge(r)) /\ p.seen = w.seen \cup {r.id}
BY DEF Counted, Executions

\* What a task does to the executions and the pending activities.
LEMMA RunTaskEffect ==
  ASSUME TypeOK, NEW b \in Bills, NEW w \in Executions, NEW busy \in BOOLEAN,
         NEW a \in [Tasks -> Activities], RunTask(b, w, busy, a)
  PROVE  /\ wf'[b] = Proceed(w, busy)
         /\ \A c \in Bills \ {b} : wf'[c] = wf[c]
         /\ \A t \in Tasks \ {b} : act'[t] = a[t]
         /\ \/ act'[b] = a[b] /\ (wf'[b].phase = "closing" => w.phase = "closing")
            \/ /\ wf'[b].phase = "closing" /\ w.phase # "closing"
               /\ act'[b] = Schedule(CloseInput(b, wf'[b]))
               /\ CloseInput(b, wf'[b]) \in CloseInputs
<1> DEFINE p == Proceed(w, busy)
<1>1. wf' = [wf EXCEPT ![b] = p]
  BY DEF RunTask
<1>2. wf'[b] = p /\ \A c \in Bills \ {b} : wf'[c] = wf[c]
  BY <1>1 DEF TypeOK
<1>3. act' = IF p.phase = "closing" /\ w.phase # "closing"
             THEN [a EXCEPT ![b] = Schedule(CloseInput(b, p))] ELSE a
  BY DEF RunTask
<1>4. b \in Tasks
  BY DEF Tasks
<1>5. CASE p.phase = "closing" /\ w.phase # "closing"
  <2>1. act' = [a EXCEPT ![b] = Schedule(CloseInput(b, p))]
    BY <1>3, <1>5
  <2>2. CloseInput(b, p) \in CloseInputs
    <3>1. p \in Executions
      BY ProceedType
    <3>2. w.reason # ""
      BY <1>5, ProceedPhase
    <3>3. p.reason = w.reason
      BY ProceedFields
    <3>4. p.reason \in CloseReasons \cup {""}
      BY <3>1, ExecutionFields
    <3>5. p.reason \in CloseReasons
      BY <3>2, <3>3, <3>4
    <3> QED
      BY <3>1, <3>5, DBAssumption DEF CloseInput, CloseInputs, Actors, Executions
  <2> QED
    BY <1>2, <1>4, <1>5, <2>1, <2>2
<1>6. CASE ~(p.phase = "closing" /\ w.phase # "closing")
  BY <1>2, <1>3, <1>6
<1> QED
  BY <1>5, <1>6

-----------------------------------------------------------------------------
(* Well-formedness *)

\* A task keeps the parts in step if the coroutines other than the main one do.
LEMMA TaskWellFormed ==
  ASSUME TypeOK, WellFormed,
         NEW b \in Bills, NEW w \in Executions, NEW busy \in BOOLEAN,
         NEW a \in [Tasks -> Activities], RunTask(b, w, busy, a),
         starts' = starts, wf[b].phase # "none", w.currency \in Currencies,
         w.phase \in {"await", "drain", "closing"},
         w.phase = "closing" => wf[b].phase = "closing" /\ a[b] = act[b],
         w.phase # "closing" => a[b].st = "idle",
         \A c \in Bills \ {b} : a[c] = act[c],
         \A u \in Updates : upd'[u].st # "idle" => upd'[u].in \in Requests,
         \A u \in Updates : upd'[u].st = "running" =>
           /\ a[u].st # "idle"
           /\ upd'[u].in.bill # b =>
                wf[upd'[u].in.bill].phase \in {"await", "drain", "closing"},
         ~busy => \A u \in Updates : upd'[u].st = "running" => upd'[u].in.bill # b,
         \A u \in Updates : a[u].st # "idle" =>
           upd'[u].st = "running" /\ a[u].in = AppendInput(upd'[u].in),
         \A t \in Tasks : a[t].st # "idle" => a[t].try > 0
  PROVE  WellFormed'
<1> DEFINE p == Proceed(w, busy)
<1>1. /\ wf'[b] = p
      /\ \A c \in Bills \ {b} : wf'[c] = wf[c]
      /\ \A t \in Tasks \ {b} : act'[t] = a[t]
  BY RunTaskEffect
<1>2. \/ act'[b] = a[b] /\ (p.phase = "closing" => w.phase = "closing")
      \/ /\ p.phase = "closing" /\ w.phase # "closing"
         /\ act'[b] = Schedule(CloseInput(b, p))
         /\ CloseInput(b, p) \in CloseInputs
  BY <1>1, RunTaskEffect
<1>3. p.currency = w.currency /\ p.phase \in {w.phase, "drain", "resume", "closing"}
  BY ProceedFields
<1>4. busy => p.phase \in {"await", "drain", "closing"}
  BY ProceedPhase
<1>5. Updates \cap Bills = {} /\ Bills \subseteq Tasks /\ Updates \subseteq Tasks
  BY WorkflowAssumption DEF Tasks
<1>6. \A u \in Updates : act'[u] = a[u]
  BY <1>1, <1>5
<1>7. \A r \in Requests : r.bill \in Bills
  BY WorkflowAssumption DEF RequestRecords
<1>8. HandlersOK'
  BY <1>1, <1>4, <1>6, <1>7 DEF HandlersOK
<1>9. AppendsOK'
  BY <1>6 DEF AppendsOK, AppendInput
<1>10. MainOK'
  <2>1. ASSUME NEW c \in Bills \ {b}
        PROVE  act'[c] = act[c] /\ wf'[c] = wf[c]
    BY <1>1, <1>5
  <2>2. w.phase = "closing" => p = w
    BY DEF Proceed, Waits
  <2>3. act'[b].st # "idle" =>
          act'[b].in.bill = b /\ p.phase = "closing" /\ act'[b].in \in CloseInputs
    <3>1. CASE act'[b] = a[b]
      BY <3>1, <2>2 DEF WellFormed, MainOK
    <3>2. CASE act'[b] = Schedule(CloseInput(b, p)) /\ p.phase = "closing" /\ CloseInput(b, p) \in CloseInputs
      BY <3>2 DEF Schedule, CloseInput
    <3> QED
      BY <1>2, <3>1, <3>2
  <2> QED
    BY <1>1, <2>1, <2>3 DEF WellFormed, MainOK
<1>11. StartedOK'
  <2>1. \A t \in Tasks : act'[t].st # "idle" => act'[t].try > 0
    BY <1>1, <1>2 DEF Schedule
  <2>2. p.phase # "none"
    BY <1>3
  <2> QED
    BY <1>1, <1>3, <2>1, <2>2 DEF WellFormed, StartedOK
<1> QED
  BY <1>8, <1>9, <1>10, <1>11 DEF WellFormed

\* A step of an attempt leaves the input of the activity alone.
LEMMA AttemptWellFormed ==
  ASSUME TypeOK, WellFormed, UNCHANGED <<wf, starts, upd>>,
         NEW t \in Tasks, act[t].st # "idle",
         NEW x, act' = [act EXCEPT ![t] = x],
         x.in = act[t].in, x.try >= act[t].try, x.st # "idle",
         x \in Activities
  PROVE  WellFormed'
<1>1. act'[t] = x /\ \A s \in Tasks \ {t} : act'[s] = act[s]
  BY DEF TypeOK
<1>2. Bills \subseteq Tasks /\ Updates \subseteq Tasks
  BY DEF Tasks
<1>3. HandlersOK'
  BY <1>1, <1>2 DEF WellFormed, HandlersOK
<1>4. AppendsOK'
  BY <1>1, <1>2 DEF WellFormed, AppendsOK, AppendInput
<1>5. MainOK'
  BY <1>1, <1>2 DEF WellFormed, MainOK
<1>6. StartedOK'
  <2>1. act[t].try \in Nat /\ x.try \in Nat
    BY WorkflowAssumption DEF TypeOK, Activities
  <2>2. \A s \in Tasks : act'[s].st # "idle" => act'[s].try > 0
    BY <1>1, <2>1 DEF WellFormed, StartedOK
  <2> QED
    BY <2>2 DEF WellFormed, StartedOK
<1> QED
  BY <1>3, <1>4, <1>5, <1>6 DEF WellFormed

LEMMA RetryOrFailType ==
  ASSUME NEW a \in Activities
  PROVE  /\ RetryOrFail(a) \in Activities
         /\ RetryOrFail(a).in = a.in
         /\ RetryOrFail(a).try >= a.try
         /\ RetryOrFail(a).st # "idle"
<1>1. a.try \in 0 .. MaxAttempts /\ MaxAttempts \in Nat
  BY WorkflowAssumption DEF Activities
<1>2. CASE a.try < MaxAttempts
  <2>1. a.try + 1 \in 0 .. MaxAttempts /\ a.try + 1 >= a.try
    BY <1>1, <1>2
  <2>2. ASSUME NEW n \in 0 .. MaxAttempts
        PROVE  LET y == [a EXCEPT !.st = "scheduled", !.try = n] IN
               y \in Activities /\ y.in = a.in /\ y.try = n /\ y.st = "scheduled"
    BY DEF Activities
  <2>3. RetryOrFail(a) = [a EXCEPT !.st = "scheduled", !.try = a.try + 1]
    BY <1>2 DEF RetryOrFail
  <2> QED
    BY <2>1, <2>2, <2>3
<1>3. CASE ~(a.try < MaxAttempts)
  <2>1. RetryOrFail(a) = [a EXCEPT !.st = "failed"]
    BY <1>3 DEF RetryOrFail
  <2>2. LET y == [a EXCEPT !.st = "failed"] IN
        y \in Activities /\ y.in = a.in /\ y.try = a.try /\ y.st = "failed"
    BY DEF Activities
  <2> QED
    BY <1>1, <2>1, <2>2
<1> QED
  BY <1>2, <1>3

LEMMA SetState ==
  ASSUME NEW a \in Activities, NEW s \in {"started", "committed", "failed"}
  PROVE  LET y == [a EXCEPT !.st = s] IN
         y \in Activities /\ y.in = a.in /\ y.try = a.try /\ y.st = s
BY DEF Activities

\* The transaction of a pending attempt is well typed, for a started workflow.
LEMMA AttemptType ==
  ASSUME TypeOK, WellFormed, NEW t \in Tasks, act[t].st # "idle"
  PROVE  /\ act[t].in \in Inputs
         /\ act[t].in.bill \in Bills
         /\ Attempt(t) \in Attempts
<1>1. act[t].in \in Inputs /\ wf[act[t].in.bill].phase # "none"
  <2>1. CASE t \in Updates
    <3>1. upd[t].st = "running" /\ act[t].in = AppendInput(upd[t].in)
      BY <2>1 DEF WellFormed, AppendsOK
    <3>2. upd[t].in \in Requests /\ wf[upd[t].in.bill].phase # "none"
      BY <2>1, <3>1 DEF WellFormed, HandlersOK
    <3>3. AppendInput(upd[t].in) \in AppendInputs
      BY <3>2, WorkflowAssumption, ChargeTypes
    <3>4. AppendInput(upd[t].in).bill = upd[t].in.bill
      BY DEF AppendInput
    <3> QED
      BY <3>1, <3>2, <3>3, <3>4 DEF Inputs
  <2>2. CASE t \in Bills
    BY <2>2 DEF WellFormed, MainOK, Inputs
  <2> QED
    BY <2>1, <2>2 DEF Tasks
<1>2. act[t].in.bill \in Bills
  BY <1>1, InputTypes
<1>3. starts[act[t].in.bill] \in 1 .. MaxStarts
  BY <1>1, <1>2, WorkflowAssumption DEF TypeOK, WellFormed, StartedOK
<1>4. act[t].try \in 1 .. MaxAttempts
  BY WorkflowAssumption DEF TypeOK, Activities, WellFormed, StartedOK
<1> QED
  BY <1>1, <1>2, <1>3, <1>4 DEF Attempt, Attempts

-----------------------------------------------------------------------------
(* One step of each kind *)

LEMMA NoTaskType == NoTask \in Activities /\ NoTask.st = "idle"
BY WorkflowAssumption DEF NoTask, Activities

LEMMA ScheduleType ==
  ASSUME NEW in \in Inputs
  PROVE  LET y == Schedule(in) IN
         y \in Activities /\ y.st = "scheduled" /\ y.try = 1 /\ y.in = in
BY WorkflowAssumption DEF Schedule, Activities

LEMMA RequestTypes ==
  ASSUME NEW r \in Requests
  PROVE  r \in RequestRecords /\ r.bill \in Bills /\ r.id \in Items
BY WorkflowAssumption DEF RequestRecords

LEMMA PeriodTypes ==
  ASSUME NEW b \in Bills
  PROVE  Periods[b] \subseteq {"none", "pending", "over"}
BY WorkflowAssumption

LEMMA AnswerType ==
  ASSUME TypeOK, NEW u \in Updates, NEW r \in Requests, NEW code \in Codes,
         Answer(u, r, code)
  PROVE  /\ upd' \in [Updates -> Calls]
         /\ upd'[u].st = "done" /\ upd'[u].in = r /\ upd'[u].code = code
         /\ \A v \in Updates \ {u} : upd'[v] = upd[v]
BY DEF Answer, TypeOK, Calls

\* The handlers of a bill, as a Boolean the main coroutine waits for.
LEMMA BusyMeans ==
  ASSUME TypeOK, NEW b \in Bills, NEW u \in Updates
  PROVE  /\ (Handlers(b) # {}) <=> \E v \in Updates : upd[v].st = "running" /\ upd[v].in.bill = b
         /\ (Handlers(b) \ {u} # {}) <=>
              \E v \in Updates \ {u} : upd[v].st = "running" /\ upd[v].in.bill = b
BY DEF Handlers

WellTyped == TypeOK /\ WellFormed

LEMMA CreateBillStep ==
  ASSUME WellTyped, NEW b \in Bills, NEW c \in Currencies,
         NEW p \in Periods[b], CreateBill(b, c, p)
  PROVE  WellTyped'
<1> USE DEF WellTyped
<1>1. wf' = [wf EXCEPT ![b] = initialBill("start", c, p)]
  BY DEF CreateBill
<1>2. LET w == initialBill("start", c, p) IN
      w \in Executions /\ w.phase = "start" /\ w.currency = c
  BY TotalTypes, PeriodTypes DEF initialBill, Executions, Phases
<1>3. starts' = [starts EXCEPT ![b] = @ + 1] /\ starts[b] < MaxStarts
  BY DEF CreateBill
<1>4. starts[b] \in Nat /\ starts[b] + 1 \in 0 .. MaxStarts /\ starts[b] + 1 # 0
  BY <1>3, WorkflowAssumption DEF TypeOK
<1>5. UNCHANGED <<bills, lineItems, billEvents, upd, act, open, hazard>>
  BY DEF CreateBill, dbVars
<1>6. TypeOK'
  BY <1>1, <1>2, <1>3, <1>4, <1>5 DEF TypeOK, DBTypeOK
<1>7. wf'[b].phase = "start" /\ wf'[b].currency = c /\ \A d \in Bills \ {b} : wf'[d] = wf[d]
  BY <1>1, <1>2 DEF TypeOK
<1>8. wf[b].phase \in {"none", "completed", "failed"}
  BY DEF CreateBill, Ended
<1>9. HandlersOK'
  BY <1>5, <1>7, <1>8, RequestTypes DEF WellFormed, HandlersOK
<1>10. AppendsOK'
  BY <1>5 DEF WellFormed, AppendsOK
<1>11. MainOK'
  BY <1>5, <1>7, <1>8 DEF WellFormed, MainOK
<1>12. StartedOK'
  BY <1>3, <1>4, <1>5, <1>7 DEF WellFormed, StartedOK, TypeOK
<1> QED
  BY <1>6, <1>9, <1>10, <1>11, <1>12 DEF WellFormed

\* Steps that only set a field of one execution which no other part relates to.
LEMMA FieldStep ==
  ASSUME WellTyped, NEW b \in Bills, NEW w \in Executions, wf' = [wf EXCEPT ![b] = w],
         w.phase = wf[b].phase, w.currency = wf[b].currency,
         UNCHANGED <<bills, lineItems, billEvents, starts, upd, act, open, hazard>>
  PROVE  WellTyped'
<1> USE DEF WellTyped
<1>1. TypeOK'
  BY DEF TypeOK, DBTypeOK
<1>2. \A c \in Bills : wf'[c].phase = wf[c].phase /\ wf'[c].currency = wf[c].currency
  BY DEF TypeOK
<1>3. HandlersOK'
  BY <1>2, RequestTypes DEF WellFormed, HandlersOK
<1>4. AppendsOK'
  BY DEF WellFormed, AppendsOK
<1>5. MainOK'
  BY <1>2 DEF WellFormed, MainOK
<1>6. StartedOK'
  BY <1>2 DEF WellFormed, StartedOK
<1> QED
  BY <1>1, <1>3, <1>4, <1>5, <1>6 DEF WellFormed

LEMMA CloseBillStep ==
  ASSUME WellTyped, NEW b \in Bills, CloseBill(b) \/ PeriodPasses(b)
  PROVE  WellTyped'
<1>1. CASE CloseBill(b)
  <2> DEFINE w == [wf[b] EXCEPT !.signal = TRUE]
  <2>1. wf[b] \in Executions
    BY DEF WellTyped, TypeOK
  <2>2. w \in Executions /\ w.phase = wf[b].phase /\ w.currency = wf[b].currency
    BY <2>1 DEF Executions
  <2>3. wf' = [wf EXCEPT ![b] = w]
    BY <1>1 DEF CloseBill
  <2>4. UNCHANGED <<bills, lineItems, billEvents, starts, upd, act, open, hazard>>
    BY <1>1 DEF CloseBill, dbVars
  <2> HIDE DEF w
  <2> QED
    BY <2>2, <2>3, <2>4, FieldStep
<1>2. CASE PeriodPasses(b)
  <2> DEFINE w == [wf[b] EXCEPT !.period = "over"]
  <2>1. wf[b] \in Executions
    BY DEF WellTyped, TypeOK
  <2>2. w \in Executions /\ w.phase = wf[b].phase /\ w.currency = wf[b].currency
    BY <2>1 DEF Executions
  <2>3. wf' = [wf EXCEPT ![b] = w]
    BY <1>2 DEF PeriodPasses
  <2>4. UNCHANGED <<bills, lineItems, billEvents, starts, upd, act, open, hazard>>
    BY <1>2 DEF PeriodPasses, dbVars
  <2> HIDE DEF w
  <2> QED
    BY <2>2, <2>3, <2>4, FieldStep
<1> QED
  BY <1>1, <1>2

LEMMA RefusedStep ==
  ASSUME WellTyped, NEW u \in Updates, NEW r \in Requests, AddLineItemRefused(u, r)
  PROVE  WellTyped'
<1> USE DEF WellTyped
<1>1. PICK code \in Codes : Answer(u, r, code)
  BY DEF AddLineItemRefused, Codes
<1>2. /\ upd' \in [Updates -> Calls]
      /\ upd'[u].st = "done" /\ upd'[u].in = r
      /\ \A v \in Updates \ {u} : upd'[v] = upd[v]
  BY <1>1, AnswerType
<1>3. upd[u].st = "idle" /\ UNCHANGED <<bills, lineItems, billEvents, wf, starts, act, open, hazard>>
  BY DEF AddLineItemRefused, dbVars
<1>4. TypeOK'
  BY <1>2, <1>3 DEF TypeOK, DBTypeOK
<1>5. HandlersOK'
  BY <1>2, <1>3 DEF WellFormed, HandlersOK
<1>6. AppendsOK'
  BY <1>2, <1>3 DEF WellFormed, AppendsOK
<1>7. MainOK' /\ StartedOK'
  BY <1>3 DEF WellFormed, MainOK, StartedOK
<1> QED
  BY <1>4, <1>5, <1>6, <1>7 DEF WellFormed

\* Where a task of a workflow that accepts updates starts from.
LEMMA AcceptingTask ==
  ASSUME WellTyped, NEW b \in Bills, Accepts(b)
  PROVE  /\ wf[b] \in Executions
         /\ Select(wf[b]) \in Executions
         /\ Select(wf[b]).phase = wf[b].phase
         /\ Select(wf[b]).phase \in {"await", "drain", "closing"}
         /\ Select(wf[b]).currency \in Currencies
         /\ wf[b].phase # "closing" => act[b].st = "idle"
<1>1. wf[b] \in Executions
  BY DEF WellTyped, TypeOK
<1>2. wf[b].currency \in Currencies
  BY DEF WellTyped, WellFormed, StartedOK, Accepts
<1>3. wf[b].phase # "closing" => act[b].st = "idle"
  BY DEF WellTyped, WellFormed, MainOK, Accepts
<1> QED
  BY <1>1, <1>2, <1>3, SelectType, SelectFields DEF Accepts

\* The handlers of other bills, and of this one, before a task.
LEMMA HandlerFacts ==
  ASSUME WellTyped, NEW u \in Updates
  PROVE  /\ upd[u].st # "idle" => upd[u].in \in Requests
         /\ upd[u].st = "running" =>
              /\ act[u].st # "idle" /\ upd[u].in.bill \in Bills
              /\ wf[upd[u].in.bill].phase \in {"await", "drain", "closing"}
         /\ act[u].st # "idle" =>
              /\ upd[u].st = "running" /\ act[u].in = AppendInput(upd[u].in)
              /\ act[u].try > 0
BY RequestTypes DEF WellTyped, WellFormed, HandlersOK, AppendsOK, StartedOK, Tasks

LEMMA AnsweredStep ==
  ASSUME WellTyped, NEW u \in Updates, NEW r \in Requests, AddLineItemAnswered(u, r)
  PROVE  WellTyped'
<1> DEFINE b == r.bill
           w == Select(wf[b])
           busy == Handlers(b) # {}
<1>1. /\ upd[u].st = "idle" /\ Accepts(b)
      /\ RunTask(b, w, busy, act)
      /\ UNCHANGED <<bills, lineItems, billEvents, starts, open, hazard>>
  BY DEF AddLineItemAnswered, dbVars
<1>2. PICK code \in Codes : Answer(u, r, code)
  BY DEF AddLineItemAnswered, Validate, Codes
<1>3. /\ upd' \in [Updates -> Calls]
      /\ upd'[u].st = "done" /\ upd'[u].in = r
      /\ \A v \in Updates \ {u} : upd'[v] = upd[v]
  BY <1>2, AnswerType DEF WellTyped
<1>4. b \in Bills
  BY RequestTypes
<1>5. /\ w \in Executions /\ w.phase = wf[b].phase
      /\ w.phase \in {"await", "drain", "closing"} /\ w.currency \in Currencies
      /\ wf[b].phase # "closing" => act[b].st = "idle"
  BY <1>1, <1>4, AcceptingTask
<1>6. busy \in BOOLEAN /\ act \in [Tasks -> Activities]
  BY DEF WellTyped, TypeOK
<1>7. busy <=> \E v \in Updates : upd[v].st = "running" /\ upd[v].in.bill = b
  BY <1>4, BusyMeans DEF WellTyped
<1> HIDE DEF w, busy, b
<1>8. TypeOK'
  BY <1>1, <1>3, <1>4, <1>5, <1>6, RunTaskType DEF WellTyped, TypeOK, DBTypeOK
<1>9. WellFormed'
  <2>1. \A v \in Updates : upd'[v].st # "idle" => upd'[v].in \in Requests
    BY <1>3, HandlerFacts
  <2>2. \A v \in Updates : upd'[v].st = "running" =>
          /\ act[v].st # "idle"
          /\ upd'[v].in.bill # b =>
               wf[upd'[v].in.bill].phase \in {"await", "drain", "closing"}
    BY <1>3, HandlerFacts
  <2>3. \A v \in Updates : act[v].st # "idle" =>
          upd'[v].st = "running" /\ act[v].in = AppendInput(upd'[v].in)
    BY <1>1, <1>3, HandlerFacts
  <2>4. \A t \in Tasks : act[t].st # "idle" => act[t].try > 0
    BY DEF WellTyped, WellFormed, StartedOK
  <2>5. wf[b].phase # "none"
    BY <1>1 DEF Accepts
  <2>6. ~busy => \A v \in Updates : upd'[v].st = "running" => upd'[v].in.bill # b
    BY <1>3, <1>7
  <2> QED
    BY <1>1, <1>4, <1>5, <1>6, <2>1, <2>2, <2>3, <2>4, <2>5, <2>6, TaskWellFormed DEF WellTyped
<1> QED
  BY <1>8, <1>9 DEF WellTyped

LEMMA StartedStep ==
  ASSUME WellTyped, NEW u \in Updates, NEW r \in Requests, AddLineItemStarted(u, r)
  PROVE  WellTyped'
<1> DEFINE b == r.bill
           w == Select(wf[b])
           in == AppendInput(r)
           a == [act EXCEPT ![u] = Schedule(in)]
<1>1. /\ upd[u].st = "idle" /\ Accepts(b)
      /\ RunTask(b, w, TRUE, a)
      /\ upd' = [upd EXCEPT ![u] = [st |-> "running", in |-> r, code |-> ""]]
      /\ UNCHANGED <<bills, lineItems, billEvents, starts, open>>
  BY DEF AddLineItemStarted, dbVars
<1>2. hazard' \in [Bills -> SUBSET Hazards]
  <2> DEFINE sameKey == {v \in Handlers(b) : upd[v].in.id = r.id}
             h1 == IF sameKey # {} THEN {"sameKey"} ELSE {}
             h2 == IF wf[b].phase = "closing" THEN {"late"} ELSE {}
  <2>1. hazard' = [hazard EXCEPT ![b] = @ \cup h1 \cup h2]
    BY DEF AddLineItemStarted
  <2>2. h1 \in SUBSET Hazards /\ h2 \in SUBSET Hazards
    BY DEF Hazards
  <2> HIDE DEF h1, h2
  <2> QED
    BY <2>1, <2>2 DEF WellTyped, TypeOK
<1>3. /\ upd' \in [Updates -> Calls]
      /\ upd'[u].st = "running" /\ upd'[u].in = r
      /\ \A v \in Updates \ {u} : upd'[v] = upd[v]
  BY <1>1 DEF WellTyped, TypeOK, Calls, Codes
<1>4. b \in Bills /\ u \in Tasks /\ b # u /\ Bills \subseteq Tasks /\ Updates \subseteq Tasks
      /\ Updates \cap Bills = {}
  BY RequestTypes, WorkflowAssumption DEF Tasks
<1>5. /\ w \in Executions /\ w.phase = wf[b].phase
      /\ w.phase \in {"await", "drain", "closing"} /\ w.currency \in Currencies
      /\ wf[b].phase # "closing" => act[b].st = "idle"
  BY <1>1, <1>4, AcceptingTask
<1>6. in \in Inputs
  BY RequestTypes, ChargeTypes DEF Inputs
<1> HIDE DEF w, b, in
<1>7. /\ a \in [Tasks -> Activities]
      /\ a[u].st = "scheduled" /\ a[u].in = in /\ a[u].try = 1
      /\ \A t \in Tasks \ {u} : a[t] = act[t]
  BY <1>4, <1>6, ScheduleType DEF WellTyped, TypeOK
<1> HIDE DEF a
<1>8. TypeOK'
  BY <1>1, <1>2, <1>3, <1>4, <1>5, <1>7, RunTaskType DEF WellTyped, TypeOK, DBTypeOK
<1>9. WellFormed'
  <2>1. \A v \in Updates : upd'[v].st # "idle" => upd'[v].in \in Requests
    BY <1>3, HandlerFacts
  <2>2. \A v \in Updates : upd'[v].st = "running" =>
          /\ a[v].st # "idle"
          /\ upd'[v].in.bill # b =>
               wf[upd'[v].in.bill].phase \in {"await", "drain", "closing"}
    BY <1>3, <1>4, <1>7, HandlerFacts DEF b
  <2>3. \A v \in Updates : a[v].st # "idle" =>
          upd'[v].st = "running" /\ a[v].in = AppendInput(upd'[v].in)
    BY <1>3, <1>4, <1>7, HandlerFacts DEF in
  <2>4. \A t \in Tasks : a[t].st # "idle" => a[t].try > 0
    BY <1>7 DEF WellTyped, WellFormed, StartedOK
  <2>5. wf[b].phase # "none"
    BY <1>1 DEF Accepts
  <2>6. a[b] = act[b] /\ \A c \in Bills \ {b} : a[c] = act[c]
    BY <1>4, <1>7
  <2>7. /\ w.phase = "closing" => wf[b].phase = "closing" /\ a[b] = act[b]
        /\ w.phase # "closing" => a[b].st = "idle"
    BY <1>5, <2>6
  <2>8. TypeOK /\ WellFormed /\ starts' = starts /\ a \in [Tasks -> Activities]
    BY <1>1, <1>7 DEF WellTyped
  <2>9. b \in Bills /\ w \in Executions /\ w.phase \in {"await", "drain", "closing"}
        /\ w.currency \in Currencies
    BY <1>4, <1>5
  <2> QED
    BY <1>1, <2>1, <2>2, <2>3, <2>4, <2>5, <2>6, <2>7, <2>8, <2>9, TaskWellFormed
<1> QED
  BY <1>8, <1>9 DEF WellTyped

LEMMA HandlerDoneStep ==
  ASSUME WellTyped, NEW u \in Updates, HandlerDone(u)
  PROVE  WellTyped'
<1> DEFINE r == upd[u].in
           b == r.bill
           w == Counted(Select(wf[b]), r)
           busy == Handlers(b) \ {u} # {}
           a == [act EXCEPT ![u] = NoTask]
<1>1. /\ upd[u].st = "running"
      /\ RunTask(b, w, busy, a)
      /\ Answer(u, r, "OK")
      /\ UNCHANGED <<bills, lineItems, billEvents, starts, open>>
  BY DEF HandlerDone, dbVars
<1>2. hazard' \in [Bills -> SUBSET Hazards]
  BY DEF HandlerDone, WellTyped, TypeOK
<1>3. r \in Requests /\ b \in Bills /\ Accepts(b)
  BY <1>1, HandlerFacts DEF Accepts
<1>4. /\ upd' \in [Updates -> Calls]
      /\ upd'[u].st = "done" /\ upd'[u].in = r
      /\ \A v \in Updates \ {u} : upd'[v] = upd[v]
  <2>1. "OK" \in Codes
    BY DEF Codes
  <2> QED
    BY <1>1, <1>3, <2>1, AnswerType DEF WellTyped
<1>5. u \in Tasks /\ Bills \subseteq Tasks /\ Updates \subseteq Tasks /\ Updates \cap Bills = {}
  BY WorkflowAssumption DEF Tasks
<1>6. /\ w \in Executions /\ w.phase = wf[b].phase
      /\ w.phase \in {"await", "drain", "closing"} /\ w.currency \in Currencies
      /\ wf[b].phase # "closing" => act[b].st = "idle"
  <2>1. /\ Select(wf[b]) \in Executions /\ Select(wf[b]).phase = wf[b].phase
        /\ Select(wf[b]).phase \in {"await", "drain", "closing"}
        /\ Select(wf[b]).currency \in Currencies
        /\ wf[b].phase # "closing" => act[b].st = "idle"
    BY <1>3, AcceptingTask
  <2>2. r \in RequestRecords
    BY <1>3, RequestTypes
  <2> QED
    BY <2>1, <2>2, CountedType, CountedFields
<1>7. busy \in BOOLEAN
  OBVIOUS
<1>8. busy <=> \E v \in Updates \ {u} : upd[v].st = "running" /\ upd[v].in.bill = b
  BY <1>3, BusyMeans DEF WellTyped
<1> HIDE DEF w, b, r, busy
<1>9. /\ a \in [Tasks -> Activities]
      /\ a[u].st = "idle"
      /\ \A t \in Tasks \ {u} : a[t] = act[t]
  BY <1>5, NoTaskType DEF WellTyped, TypeOK
<1> HIDE DEF a
<1>10. TypeOK'
  BY <1>1, <1>2, <1>3, <1>4, <1>6, <1>7, <1>9, RunTaskType DEF WellTyped, TypeOK, DBTypeOK
<1>11. WellFormed'
  <2>1. \A v \in Updates : upd'[v].st # "idle" => upd'[v].in \in Requests
    BY <1>3, <1>4, HandlerFacts
  <2>2. \A v \in Updates : upd'[v].st = "running" =>
          /\ a[v].st # "idle"
          /\ upd'[v].in.bill # b =>
               wf[upd'[v].in.bill].phase \in {"await", "drain", "closing"}
    BY <1>4, <1>5, <1>9, HandlerFacts
  <2>3. \A v \in Updates : a[v].st # "idle" =>
          upd'[v].st = "running" /\ a[v].in = AppendInput(upd'[v].in)
    BY <1>4, <1>5, <1>9, HandlerFacts
  <2>4. \A t \in Tasks : a[t].st # "idle" => a[t].try > 0
    BY <1>9 DEF WellTyped, WellFormed, StartedOK
  <2>5. wf[b].phase # "none"
    BY <1>3 DEF Accepts
  <2>6. a[b] = act[b] /\ \A c \in Bills \ {b} : a[c] = act[c]
    BY <1>3, <1>5, <1>9
  <2>7. /\ w.phase = "closing" => wf[b].phase = "closing" /\ a[b] = act[b]
        /\ w.phase # "closing" => a[b].st = "idle"
    BY <1>6, <2>6
  <2>8. ~busy => \A v \in Updates : upd'[v].st = "running" => upd'[v].in.bill # b
    BY <1>4, <1>8
  <2>9. TypeOK /\ WellFormed /\ starts' = starts
    BY <1>1 DEF WellTyped
  <2>10. w.phase \in {"await", "drain", "closing"} /\ w.currency \in Currencies
    BY <1>6
  <2> QED
    BY <1>1, <1>3, <1>6, <1>7, <1>9, <2>1, <2>2, <2>3, <2>4, <2>5, <2>6, <2>7, <2>8, <2>9,
       <2>10, TaskWellFormed
<1> QED
  BY <1>10, <1>11 DEF WellTyped

LEMMA HandlerFailedStep ==
  ASSUME WellTyped, NEW u \in Updates, HandlerFailed(u)
  PROVE  WellTyped'
<1> DEFINE r == upd[u].in
           b == r.bill
           w == Select(wf[b])
           busy == Handlers(b) \ {u} # {}
           a == [act EXCEPT ![u] = NoTask]
<1>1. /\ upd[u].st = "running"
      /\ RunTask(b, w, busy, a)
      /\ Answer(u, r, "InvalidArgument")
      /\ UNCHANGED <<bills, lineItems, billEvents, starts, open>>
  BY DEF HandlerFailed, dbVars
<1>2. hazard' \in [Bills -> SUBSET Hazards]
  <2> DEFINE h == IF MayPersist(r) THEN {"lostAck"} ELSE {}
  <2>1. hazard' = [hazard EXCEPT ![b] = @ \cup h]
    BY DEF HandlerFailed
  <2>2. h \in SUBSET Hazards
    BY DEF Hazards
  <2> HIDE DEF h
  <2> QED
    BY <2>1, <2>2 DEF WellTyped, TypeOK
<1>3. r \in Requests /\ b \in Bills /\ Accepts(b)
  BY <1>1, HandlerFacts DEF Accepts
<1>4. /\ upd' \in [Updates -> Calls]
      /\ upd'[u].st = "done" /\ upd'[u].in = r
      /\ \A v \in Updates \ {u} : upd'[v] = upd[v]
  <2>1. "InvalidArgument" \in Codes
    BY DEF Codes
  <2> QED
    BY <1>1, <1>3, <2>1, AnswerType DEF WellTyped
<1>5. u \in Tasks /\ Bills \subseteq Tasks /\ Updates \subseteq Tasks /\ Updates \cap Bills = {}
  BY WorkflowAssumption DEF Tasks
<1>6. /\ w \in Executions /\ w.phase = wf[b].phase
      /\ w.phase \in {"await", "drain", "closing"} /\ w.currency \in Currencies
      /\ wf[b].phase # "closing" => act[b].st = "idle"
  BY <1>3, AcceptingTask
<1>7. busy \in BOOLEAN
  OBVIOUS
<1>8. busy <=> \E v \in Updates \ {u} : upd[v].st = "running" /\ upd[v].in.bill = b
  BY <1>3, BusyMeans DEF WellTyped
<1> HIDE DEF w, b, r, busy
<1>9. /\ a \in [Tasks -> Activities]
      /\ a[u].st = "idle"
      /\ \A t \in Tasks \ {u} : a[t] = act[t]
  BY <1>5, NoTaskType DEF WellTyped, TypeOK
<1> HIDE DEF a
<1>10. TypeOK'
  BY <1>1, <1>2, <1>3, <1>4, <1>6, <1>7, <1>9, RunTaskType DEF WellTyped, TypeOK, DBTypeOK
<1>11. WellFormed'
  <2>1. \A v \in Updates : upd'[v].st # "idle" => upd'[v].in \in Requests
    BY <1>3, <1>4, HandlerFacts
  <2>2. \A v \in Updates : upd'[v].st = "running" =>
          /\ a[v].st # "idle"
          /\ upd'[v].in.bill # b =>
               wf[upd'[v].in.bill].phase \in {"await", "drain", "closing"}
    BY <1>4, <1>5, <1>9, HandlerFacts
  <2>3. \A v \in Updates : a[v].st # "idle" =>
          upd'[v].st = "running" /\ a[v].in = AppendInput(upd'[v].in)
    BY <1>4, <1>5, <1>9, HandlerFacts
  <2>4. \A t \in Tasks : a[t].st # "idle" => a[t].try > 0
    BY <1>9 DEF WellTyped, WellFormed, StartedOK
  <2>5. wf[b].phase # "none"
    BY <1>3 DEF Accepts
  <2>6. a[b] = act[b] /\ \A c \in Bills \ {b} : a[c] = act[c]
    BY <1>3, <1>5, <1>9
  <2>7. /\ w.phase = "closing" => wf[b].phase = "closing" /\ a[b] = act[b]
        /\ w.phase # "closing" => a[b].st = "idle"
    BY <1>6, <2>6
  <2>8. ~busy => \A v \in Updates : upd'[v].st = "running" => upd'[v].in.bill # b
    BY <1>4, <1>8
  <2>9. TypeOK /\ WellFormed /\ starts' = starts
    BY <1>1 DEF WellTyped
  <2>10. w.phase \in {"await", "drain", "closing"} /\ w.currency \in Currencies
    BY <1>6
  <2> QED
    BY <1>1, <1>3, <1>6, <1>7, <1>9, <2>1, <2>2, <2>3, <2>4, <2>5, <2>6, <2>7, <2>8, <2>9,
       <2>10, TaskWellFormed
<1> QED
  BY <1>10, <1>11 DEF WellTyped

\* The tasks of the main coroutine that leave the calls alone.
LEMMA MainTask ==
  ASSUME WellTyped, NEW b \in Bills, NEW w \in Executions, NEW busy \in BOOLEAN,
         NEW a \in [Tasks -> Activities], RunTask(b, w, busy, a),
         UNCHANGED <<bills, lineItems, billEvents, starts, upd, open, hazard>>,
         wf[b].phase # "none", w.phase = "await", w.currency = wf[b].currency,
         a[b].st = "idle", \A t \in Tasks \ {b} : a[t] = act[t],
         busy <=> \E v \in Updates : upd[v].st = "running" /\ upd[v].in.bill = b
  PROVE  WellTyped'
<1>1. TypeOK'
  BY RunTaskType DEF WellTyped, TypeOK, DBTypeOK
<1>2. WellFormed'
  <2>1. Bills \subseteq Tasks /\ Updates \subseteq Tasks /\ Updates \cap Bills = {}
    BY WorkflowAssumption DEF Tasks
  <2>2. \A v \in Updates : a[v] = act[v]
    BY <2>1
  <2>3. \A c \in Bills \ {b} : a[c] = act[c]
    BY <2>1
  <2>4. \A v \in Updates : upd'[v].st # "idle" => upd'[v].in \in Requests
    BY HandlerFacts
  <2>5. \A v \in Updates : upd'[v].st = "running" =>
          /\ a[v].st # "idle"
          /\ upd'[v].in.bill # b =>
               wf[upd'[v].in.bill].phase \in {"await", "drain", "closing"}
    BY <2>2, HandlerFacts
  <2>6. ~busy => \A v \in Updates : upd'[v].st = "running" => upd'[v].in.bill # b
    OBVIOUS
  <2>7. \A v \in Updates : a[v].st # "idle" =>
          upd'[v].st = "running" /\ a[v].in = AppendInput(upd'[v].in)
    BY <2>2, HandlerFacts
  <2>8. \A t \in Tasks : a[t].st # "idle" => a[t].try > 0
    BY DEF WellTyped, WellFormed, StartedOK
  <2>9. w.currency \in Currencies
    BY DEF WellTyped, WellFormed, StartedOK
  <2>10. TypeOK /\ WellFormed /\ starts' = starts
    BY DEF WellTyped
  <2>11. w.phase \in {"await", "drain", "closing"} /\ w.phase # "closing"
    OBVIOUS
  <2> QED
    BY <2>3, <2>4, <2>5, <2>6, <2>7, <2>8, <2>9, <2>10, <2>11, TaskWellFormed
<1> QED
  BY <1>1, <1>2 DEF WellTyped

LEMMA CreateDoneStep ==
  ASSUME WellTyped, NEW b \in Bills, CreateDone(b) \/ ResumeTask(b)
  PROVE  WellTyped'
<1> DEFINE w == awaitCloseOrThreshold(wf[b])
           a == IF wf[b].phase = "creating" THEN [act EXCEPT ![b] = NoTask] ELSE act
           busy == b \notin Bills
<1>1. /\ wf[b].phase \in {"creating", "resume"}
      /\ RunTask(b, w, busy, a)
      /\ UNCHANGED <<bills, lineItems, billEvents, starts, upd, open, hazard>>
  BY DEF CreateDone, ResumeTask, dbVars
<1>2. wf[b] \in Executions
  BY DEF WellTyped, TypeOK
<1>3. w \in Executions /\ w.phase = "await" /\ w.currency = wf[b].currency
  BY <1>2, SelectType, AwaitFields
<1>4. wf[b].phase # "creating" => act[b].st = "idle"
  BY <1>1 DEF WellTyped, WellFormed, MainOK
<1>5. /\ a \in [Tasks -> Activities]
      /\ a[b].st = "idle"
      /\ \A t \in Tasks \ {b} : a[t] = act[t]
  BY <1>4, NoTaskType DEF WellTyped, TypeOK, Tasks
<1>6. busy \in BOOLEAN /\ ~busy
  OBVIOUS
<1>7. busy <=> \E v \in Updates : upd[v].st = "running" /\ upd[v].in.bill = b
  BY <1>1, HandlerFacts
<1> HIDE DEF w, a, busy
<1> QED
  BY <1>1, <1>3, <1>5, <1>6, <1>7, MainTask

LEMMA SelectorStep ==
  ASSUME WellTyped, NEW b \in Bills, SelectorTask(b)
  PROVE  WellTyped'
<1> DEFINE w == Select(wf[b])
           busy == Handlers(b) # {}
<1>1. /\ wf[b].phase = "await"
      /\ RunTask(b, w, busy, act)
      /\ UNCHANGED <<bills, lineItems, billEvents, starts, upd, open, hazard>>
  BY DEF SelectorTask, dbVars
<1>2. wf[b] \in Executions /\ act \in [Tasks -> Activities]
  BY DEF WellTyped, TypeOK
<1>3. w \in Executions /\ w.phase = "await" /\ w.currency = wf[b].currency
  BY <1>1, <1>2, SelectType, SelectFields
<1>4. act[b].st = "idle"
  BY <1>1 DEF WellTyped, WellFormed, MainOK
<1>5. busy <=> \E v \in Updates : upd[v].st = "running" /\ upd[v].in.bill = b
  BY DEF Handlers
<1>6. busy \in BOOLEAN
  OBVIOUS
<1> HIDE DEF w, busy
<1> QED
  BY <1>1, <1>2, <1>3, <1>4, <1>5, <1>6, MainTask

LEMMA SetPhase ==
  ASSUME WellTyped, NEW b \in Bills, NEW ph \in Phases, wf' = [wf EXCEPT ![b].phase = ph]
  PROVE  /\ wf' \in [Bills -> Executions]
         /\ wf'[b].phase = ph /\ wf'[b].currency = wf[b].currency
         /\ wf'[b].seen = wf[b].seen /\ wf'[b].total = wf[b].total
         /\ \A c \in Bills \ {b} : wf'[c] = wf[c]
<1> DEFINE y == [wf[b] EXCEPT !.phase = ph]
<1>1. wf[b] \in Executions /\ wf \in [Bills -> Executions]
  BY DEF WellTyped, TypeOK
<1>2. /\ y \in Executions /\ y.phase = ph /\ y.currency = wf[b].currency
      /\ y.seen = wf[b].seen /\ y.total = wf[b].total
  BY <1>1 DEF Executions
<1>3. wf' = [wf EXCEPT ![b] = y]
  OBVIOUS
<1> HIDE DEF y
<1> QED
  BY <1>1, <1>2, <1>3

\* The main coroutine moves to another phase in which it runs no handlers.
LEMMA PhaseStep ==
  ASSUME WellTyped, NEW b \in Bills, NEW ph \in {"creating", "failed"}, NEW x \in Activities,
         wf[b].phase \in {"start", "creating"},
         wf' = [wf EXCEPT ![b].phase = ph], act' = [act EXCEPT ![b] = x],
         x.st # "idle" => /\ ph = "creating" /\ x.in \in CreateInputs
                          /\ x.in.bill = b /\ x.try > 0,
         UNCHANGED <<bills, lineItems, billEvents, starts, upd, open, hazard>>
  PROVE  WellTyped'
<1>1. /\ wf' \in [Bills -> Executions]
      /\ wf'[b].phase = ph /\ wf'[b].currency = wf[b].currency
      /\ \A c \in Bills \ {b} : wf'[c] = wf[c]
  <2>1. ph \in Phases
    BY DEF Phases
  <2> QED
    BY <2>1, SetPhase
<1>2. /\ act' \in [Tasks -> Activities]
      /\ act'[b] = x /\ \A t \in Tasks \ {b} : act'[t] = act[t]
  BY DEF WellTyped, TypeOK, Tasks
<1>3. TypeOK'
  BY <1>1, <1>2 DEF WellTyped, TypeOK, DBTypeOK
<1>4. Bills \subseteq Tasks /\ Updates \subseteq Tasks /\ Updates \cap Bills = {}
  BY WorkflowAssumption DEF Tasks
<1>5. \A v \in Updates : act'[v] = act[v] /\ upd'[v] = upd[v]
  BY <1>2, <1>4
<1>6. HandlersOK'
  <2>1. ASSUME NEW v \in Updates, upd[v].st = "running"
        PROVE  wf'[upd[v].in.bill].phase \in {"await", "drain", "closing"}
    BY <1>1, <2>1, HandlerFacts
  <2> QED
    BY <1>5, <2>1, HandlerFacts DEF HandlersOK
<1>7. AppendsOK'
  BY <1>5 DEF WellTyped, WellFormed, AppendsOK
<1>8. MainOK'
  <2>1. ASSUME NEW c \in Bills \ {b}
        PROVE  act'[c] = act[c] /\ wf'[c] = wf[c]
    BY <1>1, <1>2, <1>4
  <2> QED
    BY <1>1, <1>2, <2>1 DEF WellTyped, WellFormed, MainOK
<1>9. StartedOK'
  BY <1>1, <1>2 DEF WellTyped, WellFormed, StartedOK
<1> QED
  BY <1>3, <1>6, <1>7, <1>8, <1>9 DEF WellTyped, WellFormed

LEMMA CreatingStep ==
  ASSUME WellTyped, NEW b \in Bills, FirstTask(b) \/ CreateFailed(b)
  PROVE  WellTyped'
<1>1. CASE FirstTask(b)
  <2> DEFINE in == CreateInput(b)
             x == Schedule(in)
  <2>1. in \in CreateInputs /\ in.bill = b
    BY <1>1 DEF FirstTask, CreateInput, CreateInputs, WellTyped, WellFormed, StartedOK
  <2>2. in \in Inputs
    BY <2>1 DEF Inputs
  <2>3. /\ wf[b].phase = "start" /\ wf' = [wf EXCEPT ![b].phase = "creating"]
        /\ act' = [act EXCEPT ![b] = x]
        /\ UNCHANGED <<bills, lineItems, billEvents, starts, upd, open, hazard>>
    BY <1>1 DEF FirstTask, dbVars
  <2> HIDE DEF in
  <2>4. x \in Activities /\ x.try = 1 /\ x.in = in
    BY <2>2, ScheduleType
  <2> HIDE DEF x
  <2>5. x.in \in CreateInputs /\ x.in.bill = b /\ x.try > 0
    BY <2>1, <2>4
  <2>6. PICK ph \in {"creating", "failed"} :
          ph = "creating" /\ wf' = [wf EXCEPT ![b].phase = ph]
    BY <2>3
  <2> QED
    BY <2>3, <2>4, <2>5, <2>6, PhaseStep
<1>2. CASE CreateFailed(b)
  <2>1. /\ wf[b].phase = "creating" /\ wf' = [wf EXCEPT ![b].phase = "failed"]
        /\ act' = [act EXCEPT ![b] = NoTask]
        /\ UNCHANGED <<bills, lineItems, billEvents, starts, upd, open, hazard>>
    BY <1>2 DEF CreateFailed, dbVars
  <2> QED
    BY <2>1, NoTaskType, PhaseStep
<1> QED
  BY <1>1, <1>2

LEMMA EndWorkflowStep ==
  ASSUME WellTyped, NEW b \in Bills, CloseDone(b) \/ CloseFailed(b)
  PROVE  WellTyped'
<1>1. PICK ph \in {"completed", "failed"} : EndWorkflow(b, ph) /\ wf[b].phase = "closing"
  BY DEF CloseDone, CloseFailed
<1>2. UNCHANGED <<bills, lineItems, billEvents, starts, open, hazard>>
  BY <1>1 DEF EndWorkflow, dbVars
<1>3. /\ wf' \in [Bills -> Executions]
      /\ wf'[b].phase = ph /\ wf'[b].currency = wf[b].currency
      /\ \A c \in Bills \ {b} : wf'[c] = wf[c]
  <2>1. ph \in Phases
    BY DEF Phases
  <2> QED
    BY <1>1, <2>1, SetPhase DEF EndWorkflow
<1>4. ASSUME NEW v \in Updates
      PROVE  /\ upd'[v] \in Calls /\ upd'[v].in = upd[v].in
             /\ v \in Handlers(b) => upd'[v].st = "done"
             /\ v \notin Handlers(b) => upd'[v] = upd[v]
  <2>1. upd[v] \in Calls
    BY DEF WellTyped, TypeOK
  <2>2. upd'[v] = IF v \in Handlers(b) THEN [upd[v] EXCEPT !.st = "done", !.code = "Failed"]
                  ELSE upd[v]
    BY <1>1 DEF EndWorkflow
  <2>3. LET y == [upd[v] EXCEPT !.st = "done", !.code = "Failed"] IN
        y \in Calls /\ y.in = upd[v].in /\ y.st = "done"
    BY <2>1 DEF Calls, Codes
  <2> QED
    BY <2>1, <2>2, <2>3
<1>5. upd' \in [Updates -> Calls]
  BY <1>1, <1>4 DEF EndWorkflow
<1>6. /\ act' \in [Tasks -> Activities]
      /\ \A t \in Tasks : t = b \/ t \in Handlers(b) => act'[t] = NoTask
      /\ \A t \in Tasks : t # b /\ t \notin Handlers(b) => act'[t] = act[t]
  BY <1>1, NoTaskType DEF EndWorkflow, WellTyped, TypeOK
<1>7. TypeOK'
  BY <1>2, <1>3, <1>5, <1>6 DEF WellTyped, TypeOK, DBTypeOK
<1>8. /\ Bills \subseteq Tasks /\ Updates \subseteq Tasks /\ Updates \cap Bills = {}
      /\ Handlers(b) \subseteq Updates
  BY WorkflowAssumption DEF Tasks, Handlers
<1>9. HandlersOK'
  <2>1. ASSUME NEW v \in Updates, upd'[v].st = "running"
        PROVE  /\ wf'[upd'[v].in.bill].phase \in {"await", "drain", "closing"}
               /\ act'[v].st # "idle"
    <3>1. v \notin Handlers(b) /\ upd'[v] = upd[v] /\ upd[v].st = "running"
      BY <1>4, <2>1
    <3>2. upd[v].in.bill # b
      BY <3>1 DEF Handlers
    <3>3. act'[v] = act[v]
      BY <1>6, <1>8, <3>1
    <3> QED
      BY <1>3, <3>1, <3>2, <3>3, HandlerFacts
  <2>2. ASSUME NEW v \in Updates, upd'[v].st # "idle"
        PROVE  upd'[v].in \in Requests
    BY <1>4, <2>2, HandlerFacts DEF Handlers
  <2> QED
    BY <2>1, <2>2 DEF HandlersOK
<1>10. AppendsOK'
  <2>1. ASSUME NEW v \in Updates, act'[v].st # "idle"
        PROVE  upd'[v].st = "running" /\ act'[v].in = AppendInput(upd'[v].in)
    <3>1. v \notin Handlers(b) /\ act'[v] = act[v]
      BY <1>6, <1>8, <2>1, NoTaskType
    <3> QED
      BY <1>4, <2>1, <3>1, HandlerFacts
  <2> QED
    BY <2>1 DEF AppendsOK
<1>11. MainOK'
  <2>1. act'[b].st = "idle"
    BY <1>6, <1>8, NoTaskType
  <2>2. ASSUME NEW c \in Bills \ {b}
        PROVE  act'[c] = act[c] /\ wf'[c] = wf[c]
    BY <1>3, <1>6, <1>8
  <2> QED
    BY <2>1, <2>2 DEF WellTyped, WellFormed, MainOK
<1>12. StartedOK'
  <2>1. \A t \in Tasks : act'[t].st # "idle" => act'[t].try > 0
    BY <1>6, NoTaskType DEF WellTyped, WellFormed, StartedOK
  <2> QED
    BY <1>1, <1>2, <1>3, <2>1 DEF WellTyped, WellFormed, StartedOK
<1> QED
  BY <1>7, <1>9, <1>10, <1>11, <1>12 DEF WellTyped, WellFormed

\* A step of an attempt: the pending activity is left alone or moved on.
LEMMA AttemptStep ==
  ASSUME WellTyped, NEW t \in Tasks, NEW x \in Activities,
         \/ act' = act
         \/ /\ act[t].st # "idle" /\ act' = [act EXCEPT ![t] = x]
            /\ x.in = act[t].in /\ x.try >= act[t].try /\ x.st # "idle",
         DBTypeOK', open' \subseteq Attempts, hazard' \in [Bills -> SUBSET Hazards],
         UNCHANGED <<wf, starts, upd>>
  PROVE  WellTyped'
<1>1. CASE act' = act
  <2>1. TypeOK'
    BY <1>1 DEF WellTyped, TypeOK
  <2>2. WellFormed'
    BY <1>1 DEF WellTyped, WellFormed, HandlersOK, AppendsOK, MainOK, StartedOK
  <2> QED
    BY <2>1, <2>2 DEF WellTyped
<1>2. CASE /\ act[t].st # "idle" /\ act' = [act EXCEPT ![t] = x]
           /\ x.in = act[t].in /\ x.try >= act[t].try /\ x.st # "idle"
  <2>1. TypeOK'
    BY <1>2 DEF WellTyped, TypeOK
  <2>2. WellFormed'
    BY <1>2, AttemptWellFormed DEF WellTyped
  <2> QED
    BY <2>1, <2>2 DEF WellTyped
<1> QED
  BY <1>1, <1>2

LEMMA ActivityFacts ==
  ASSUME WellTyped, NEW t \in Tasks
  PROVE  act[t] \in Activities /\ act[t].try \in Nat
BY WorkflowAssumption DEF WellTyped, TypeOK, Activities

LEMMA StartAttemptStep ==
  ASSUME WellTyped, NEW t \in Tasks, StartAttempt(t)
  PROVE  WellTyped'
<1> DEFINE x == [act[t] EXCEPT !.st = "started"]
<1>1. /\ act[t].st # "idle" /\ act' = [act EXCEPT ![t] = x]
      /\ open' = open \cup {Attempt(t)}
      /\ UNCHANGED <<bills, lineItems, billEvents, wf, starts, upd, hazard>>
  BY DEF StartAttempt, dbVars
<1>2. act[t] \in Activities /\ act[t].try \in Nat
  BY ActivityFacts
<1>3. x \in Activities /\ x.in = act[t].in /\ x.try = act[t].try /\ x.st # "idle"
  BY <1>2, SetState
<1> HIDE DEF x
<1>4. x.try >= act[t].try
  BY <1>2, <1>3
<1>5. Attempt(t) \in Attempts
  BY <1>1, AttemptType DEF WellTyped
<1>6. DBTypeOK' /\ open' \subseteq Attempts /\ hazard' \in [Bills -> SUBSET Hazards]
  BY <1>1, <1>5 DEF WellTyped, TypeOK, DBTypeOK
<1> QED
  BY <1>1, <1>3, <1>4, <1>6, AttemptStep

LEMMA LoseAttemptStep ==
  ASSUME WellTyped, NEW t \in Tasks, LoseAttempt(t) \/ ExpireActivity(t)
  PROVE  WellTyped'
<1>1. /\ act[t].st # "idle"
      /\ UNCHANGED <<bills, lineItems, billEvents, wf, starts, upd, open, hazard>>
  BY DEF LoseAttempt, ExpireActivity, dbVars
<1>2. DBTypeOK' /\ open' \subseteq Attempts /\ hazard' \in [Bills -> SUBSET Hazards]
  BY <1>1 DEF WellTyped, TypeOK, DBTypeOK
<1>3. act[t] \in Activities /\ act[t].try \in Nat
  BY ActivityFacts
<1>4. PICK x \in Activities : /\ act' = [act EXCEPT ![t] = x] /\ x.in = act[t].in
                              /\ x.try >= act[t].try /\ x.st # "idle"
  <2>1. CASE LoseAttempt(t)
    BY <1>3, <2>1, RetryOrFailType DEF LoseAttempt
  <2>2. CASE ExpireActivity(t)
    <3> DEFINE x == [act[t] EXCEPT !.st = "failed"]
    <3>1. act' = [act EXCEPT ![t] = x]
      BY <2>2 DEF ExpireActivity
    <3>2. x \in Activities /\ x.in = act[t].in /\ x.try = act[t].try /\ x.st # "idle"
      BY <1>3, SetState
    <3> HIDE DEF x
    <3>3. x.try >= act[t].try
      BY <1>3, <3>2
    <3> QED
      BY <3>1, <3>2, <3>3
  <2> QED
    BY <2>1, <2>2
<1> QED
  BY <1>1, <1>2, <1>4, AttemptStep

LEMMA CommitTxStep ==
  ASSUME WellTyped, NEW x \in open, CommitTx(x)
  PROVE  WellTyped'
<1> DEFINE t == x.task
           h == IF SharesKey(x.in) THEN {"sharedKey"} ELSE {}
           y == [act[t] EXCEPT !.st = "committed"]
<1>1. x \in Attempts
  BY DEF WellTyped, TypeOK
<1>2. t \in Tasks /\ x.in \in Inputs
  BY <1>1 DEF Attempts
<1>3. /\ Execute(x.in) /\ open' = open \ {x}
      /\ act' = (IF IsCurrent(x) THEN [act EXCEPT ![t] = y] ELSE act)
      /\ hazard' = [hazard EXCEPT ![x.in.bill] = @ \cup h]
      /\ UNCHANGED <<wf, starts, upd>>
  BY DEF CommitTx
<1>4. DBTypeOK'
  BY <1>2, <1>3, ExecuteType DEF WellTyped, TypeOK
<1>5. h \in SUBSET Hazards
  BY DEF Hazards
<1> HIDE DEF h
<1>6. open' \subseteq Attempts /\ hazard' \in [Bills -> SUBSET Hazards]
  BY <1>3, <1>5 DEF WellTyped, TypeOK
<1>7. act[t] \in Activities /\ act[t].try \in Nat
  BY <1>2, ActivityFacts
<1>8. y \in Activities /\ y.in = act[t].in /\ y.try = act[t].try /\ y.st # "idle"
  BY <1>7, SetState
<1>9. IsCurrent(x) => act[t].st # "idle"
  BY DEF IsCurrent
<1> HIDE DEF y, t
<1>10. y.try >= act[t].try
  BY <1>7, <1>8
<1> QED
  BY <1>2, <1>3, <1>4, <1>6, <1>8, <1>9, <1>10, AttemptStep

LEMMA AbortTxStep ==
  ASSUME WellTyped, NEW x \in open, AbortTx(x)
  PROVE  WellTyped'
<1> DEFINE t == x.task
           y == RetryOrFail(act[t])
<1>1. x \in Attempts
  BY DEF WellTyped, TypeOK
<1>2. t \in Tasks
  BY <1>1 DEF Attempts
<1>3. /\ open' = open \ {x}
      /\ act' = (IF IsCurrent(x) THEN [act EXCEPT ![t] = y] ELSE act)
      /\ UNCHANGED <<bills, lineItems, billEvents, wf, starts, upd, hazard>>
  BY DEF AbortTx, dbVars
<1>4. DBTypeOK' /\ open' \subseteq Attempts /\ hazard' \in [Bills -> SUBSET Hazards]
  BY <1>3 DEF WellTyped, TypeOK, DBTypeOK
<1>5. act[t] \in Activities
  BY <1>2, ActivityFacts
<1>6. y \in Activities /\ y.in = act[t].in /\ y.try >= act[t].try /\ y.st # "idle"
  BY <1>5, RetryOrFailType
<1>7. IsCurrent(x) => act[t].st # "idle"
  BY DEF IsCurrent
<1> HIDE DEF y, t
<1> QED
  BY <1>2, <1>3, <1>4, <1>6, <1>7, AttemptStep

-----------------------------------------------------------------------------
(* The theorems *)

LEMMA WellTypedInit == Init => WellTyped
<1> SUFFICES ASSUME Init PROVE WellTyped
  OBVIOUS
<1>1. initialBill("none", "", "none") \in Executions
  BY TotalTypes DEF initialBill, Executions, Phases
<1>2. NoRow \in Rows
  BY TotalTypes DEF NoRow, Rows
<1>3. [st |-> "idle", in |-> NoInput, code |-> ""] \in Calls
  BY DEF Calls, Codes
<1>4. DBTypeOK
  <2>1. bills \in [Bills -> Rows]
    BY <1>2 DEF Init, DBInit
  <2>2. <<>> \in Seq(Events)
    OBVIOUS
  <2>3. billEvents \in [Bills -> Seq(Events)]
    BY <2>2 DEF Init, DBInit
  <2> QED
    BY <2>1, <2>3 DEF Init, DBInit, DBTypeOK
<1>5. TypeOK
  <2>1. wf \in [Bills -> Executions]
    BY <1>1 DEF Init
  <2>2. starts \in [Bills -> 0 .. MaxStarts]
    <3>1. 0 \in 0 .. MaxStarts
      BY WorkflowAssumption
    <3> QED
      BY <3>1 DEF Init
  <2>3. upd \in [Updates -> Calls]
    BY <1>3 DEF Init
  <2>4. act \in [Tasks -> Activities]
    BY NoTaskType DEF Init
  <2>5. open \subseteq Attempts /\ hazard \in [Bills -> SUBSET Hazards]
    BY DEF Init
  <2> QED
    BY <1>4, <2>1, <2>2, <2>3, <2>4, <2>5 DEF TypeOK
<1>6. \A b \in Bills : wf[b].phase = "none" /\ starts[b] = 0
  BY DEF Init, initialBill
<1>7. \A t \in Tasks : act[t].st = "idle"
  BY NoTaskType DEF Init
<1>8. \A u \in Updates : upd[u].st = "idle"
  BY DEF Init
<1>9. WellFormed
  BY <1>6, <1>7, <1>8 DEF WellFormed, HandlersOK, AppendsOK, MainOK, StartedOK, Tasks
<1> QED
  BY <1>5, <1>9 DEF WellTyped

LEMMA WellTypedStep == WellTyped /\ [Next]_vars => WellTyped'
<1> SUFFICES ASSUME WellTyped, [Next]_vars PROVE WellTyped'
  OBVIOUS
<1>1. CASE UNCHANGED vars
  BY <1>1 DEF vars, WellTyped, TypeOK, DBTypeOK, WellFormed, HandlersOK, AppendsOK, MainOK,
              StartedOK
<1>2. ASSUME NEW b \in Bills, NEW c \in Currencies, NEW p \in Periods[b],
             CreateBill(b, c, p)
      PROVE  WellTyped'
  BY <1>2, CreateBillStep
<1>3. ASSUME NEW b \in Bills, CloseBill(b) \/ PeriodPasses(b)
      PROVE  WellTyped'
  BY <1>3, CloseBillStep
<1>4. ASSUME NEW b \in Bills, WorkflowTask(b)
      PROVE  WellTyped'
  BY <1>4, CreatingStep, CreateDoneStep, SelectorStep, EndWorkflowStep DEF WorkflowTask
<1>5. ASSUME NEW u \in Updates, NEW r \in Requests,
             \/ AddLineItemRefused(u, r) \/ AddLineItemAnswered(u, r)
             \/ AddLineItemStarted(u, r)
      PROVE  WellTyped'
  BY <1>5, RefusedStep, AnsweredStep, StartedStep
<1>6. ASSUME NEW u \in Updates, HandlerTask(u)
      PROVE  WellTyped'
  BY <1>6, HandlerDoneStep, HandlerFailedStep DEF HandlerTask
<1>7. ASSUME NEW t \in Tasks, StartAttempt(t) \/ LoseAttempt(t) \/ ExpireActivity(t)
      PROVE  WellTyped'
  BY <1>7, StartAttemptStep, LoseAttemptStep
<1>8. ASSUME NEW t \in Tasks, EndAttempt(t)
      PROVE  WellTyped'
  BY <1>8, CommitTxStep, AbortTxStep DEF EndAttempt
<1> QED
  BY <1>1, <1>2, <1>3, <1>4, <1>5, <1>6, <1>7, <1>8 DEF Next

\* Every state of the service is well typed: in particular no activity has
\* more attempts than the retry policy of shortActivityOpts allows, and no
\* transaction is open for a workflow that was never started.
THEOREM TypeCorrect == Spec => []TypeOK
<1>1. WellTyped => TypeOK
  BY DEF WellTyped
<1> QED
  BY <1>1, WellTypedInit, WellTypedStep, PTL DEF Spec

-----------------------------------------------------------------------------
(* The tables agree *)

\* Only a commit changes the tables.
LEMMA WhoWrites ==
  ASSUME [Next]_vars
  PROVE  UNCHANGED dbVars \/ \E x \in open : CommitTx(x)
BY DEF Next, vars, dbVars, CreateBill, CloseBill, WorkflowTask, PeriodPasses, FirstTask,
       CreateDone, CreateFailed, ResumeTask, SelectorTask, CloseDone, CloseFailed,
       EndWorkflow, AddLineItemRefused, AddLineItemAnswered, AddLineItemStarted,
       HandlerTask, HandlerDone, HandlerFailed, StartAttempt, LoseAttempt,
       ExpireActivity, EndAttempt, AbortTx

\* A new line item adds its charge to the sum of its bill's items, and no other.
LEMMA NewItem ==
  ASSUME DBTypeOK, NEW li \in LineItems, ~HasItem(li.id), lineItems' = lineItems \cup {li}
  PROVE  /\ ItemsTotal(li.bill)' = AddTo(ItemsTotal(li.bill), Charge(li))
         /\ \A b \in Bills \ {li.bill} : ItemsTotal(b)' = ItemsTotal(b)
         /\ ItemsTotal(li.bill)[Charge(li)] = 0
<1>1. Charge(li) \in Charges
  BY ChargeTypes
<1>2. ~ \E lj \in lineItems : Charge(lj) = Charge(li)
  BY DEF HasItem, Charge
<1>3. ItemsTotal(li.bill)[Charge(li)] = 0
  BY <1>1, <1>2 DEF ItemsTotal
<1>4. ASSUME NEW c \in Charges
      PROVE  ItemsTotal(li.bill)'[c] = AddTo(ItemsTotal(li.bill), Charge(li))[c]
  <2> DEFINE T == ItemsTotal(li.bill)
  <2>1. CASE c = Charge(li)
    <3>1. ItemsTotal(li.bill)'[c] = 1
      BY <2>1 DEF ItemsTotal
    <3>2. AddTo(T, Charge(li))[c] = T[c] + 1
      BY <2>1 DEF AddTo, ItemsTotal
    <3> QED
      BY <1>3, <2>1, <3>1, <3>2
  <2>2. CASE c # Charge(li)
    <3>1. AddTo(T, Charge(li))[c] = T[c]
      BY <2>2 DEF AddTo, ItemsTotal
    <3>2. ItemsTotal(li.bill)'[c] = T[c]
      BY <2>2 DEF ItemsTotal
    <3> QED
      BY <3>1, <3>2
  <2> QED
    BY <2>1, <2>2
<1>5. ItemsTotal(li.bill)' = AddTo(ItemsTotal(li.bill), Charge(li))
  BY <1>4 DEF ItemsTotal, AddTo
<1>6. ASSUME NEW b \in Bills \ {li.bill}
      PROVE  ItemsTotal(b)' = ItemsTotal(b)
  BY DEF ItemsTotal
<1> QED
  BY <1>3, <1>5, <1>6

\* Each transaction keeps the tables in agreement.
LEMMA ExecuteTables ==
  ASSUME DBTypeOK, TablesAgree, NEW in \in Inputs, Execute(in)
  PROVE  TablesAgree'
<1>1. CASE UNCHANGED dbVars
  BY <1>1 DEF dbVars, TablesAgree, OpenTotalIsItems, ItemsTotal, RowExists
<1>2. CASE in.kind = "create" /\ CreateBillActivity(in) /\ ~UNCHANGED dbVars
  <2> DEFINE row == [NoRow EXCEPT !.status = "OPEN", !.currency = in.currency]
             b == in.bill
  <2>1. /\ ~RowExists(b) /\ bills' = [bills EXCEPT ![b] = row] /\ lineItems' = lineItems
    BY <1>2 DEF CreateBillActivity
  <2>2. row.status = "OPEN" /\ row.total = ZeroTotal
    BY DEF NoRow
  <2>3. b \in Bills
    BY InputTypes
  <2> HIDE DEF row, b
  <2>4. bills'[b] = row /\ \A c \in Bills \ {b} : bills'[c] = bills[c]
    BY <2>1, <2>3 DEF DBTypeOK
  <2>5. ItemsTotal(b) = ZeroTotal
    BY <2>1 DEF TablesAgree, ItemsTotal, ZeroTotal
  <2>6. \A c \in Bills : ItemsTotal(c)' = ItemsTotal(c)
    BY <2>1 DEF ItemsTotal
  <2>7. OpenTotalIsItems'
    BY <2>1, <2>2, <2>4, <2>5, <2>6 DEF TablesAgree, OpenTotalIsItems
  <2>8. \A li \in lineItems : RowExists(li.bill)'
    BY <2>1, <2>2, <2>4 DEF TablesAgree, RowExists, DBTypeOK, LineItems
  <2> QED
    BY <2>1, <2>7, <2>8 DEF TablesAgree
<1>3. CASE in.kind = "append" /\ AppendLineItemActivity(in) /\ ~UNCHANGED dbVars
  <2> DEFINE li == LineItem(in)
             b == in.bill
             row == [bills[b] EXCEPT !.total = AddTo(@, Charge(in))]
  <2>1. /\ ~HasItem(in.id) /\ lineItems' = lineItems \cup {li}
        /\ bills' = [bills EXCEPT ![b] = row]
    BY <1>3 DEF AppendLineItemActivity
  <2>2. RowExists(b)
    BY <1>3, <2>1 DEF Execute, SchemaAccepts
  <2>3. in \in AppendInputs /\ b \in Bills
    BY <1>3, InputTypes
  <2>4. li \in LineItems /\ li.id = in.id /\ li.bill = b /\ Charge(in) = Charge(li)
    BY <2>3, ChargeTypes DEF LineItem, Charge
  <2>5. bills[b] \in Rows
    BY <2>3 DEF DBTypeOK
  <2>6. row.status = bills[b].status /\ row.total = AddTo(bills[b].total, Charge(li))
    BY <2>4, <2>5 DEF Rows
  <2> HIDE DEF row, b, li
  <2>7. bills'[b] = row /\ \A c \in Bills \ {b} : bills'[c] = bills[c]
    BY <2>1, <2>3 DEF DBTypeOK
  <2>8. /\ ItemsTotal(b)' = AddTo(ItemsTotal(b), Charge(li))
        /\ \A c \in Bills \ {b} : ItemsTotal(c)' = ItemsTotal(c)
    BY <2>1, <2>4, NewItem
  <2>9. \A lj, lk \in lineItems' : lj.id = lk.id => lj = lk
    BY <2>1, <2>4 DEF HasItem, TablesAgree, OpenTotalIsItems
  <2>10. ASSUME NEW c \in Bills, bills'[c].status = "OPEN"
         PROVE  bills'[c].total = ItemsTotal(c)'
    <3>1. CASE c = b
      BY <2>6, <2>7, <2>8, <2>10, <3>1 DEF TablesAgree, OpenTotalIsItems
    <3>2. CASE c # b
      BY <2>7, <2>8, <2>10, <3>2 DEF TablesAgree, OpenTotalIsItems
    <3> QED
      BY <3>1, <3>2
  <2>11. \A lj \in lineItems' : RowExists(lj.bill)'
    <3>1. \A c \in Bills : RowExists(c) => RowExists(c)'
      BY <2>6, <2>7 DEF RowExists
    <3>2. \A lj \in lineItems : lj.bill \in Bills
      BY DEF DBTypeOK, LineItems
    <3> QED
      BY <2>1, <2>2, <2>3, <2>4, <3>1, <3>2 DEF TablesAgree
  <2> QED
    BY <2>9, <2>10, <2>11 DEF TablesAgree, OpenTotalIsItems
<1>4. CASE in.kind = "close" /\ CloseBillActivity(in)
  <2> DEFINE b == in.bill
             row == [bills[b] EXCEPT !.status = "CLOSED", !.total = in.total,
                                     !.reason = in.reason]
  <2>1. bills' = [bills EXCEPT ![b] = row] /\ lineItems' = lineItems
    BY <1>4 DEF CloseBillActivity
  <2>2. b \in Bills
    BY InputTypes
  <2>3. bills[b] \in Rows
    BY <2>2 DEF DBTypeOK
  <2>4. row.status = "CLOSED"
    BY <2>3 DEF Rows
  <2> HIDE DEF row, b
  <2>5. bills'[b] = row /\ \A c \in Bills \ {b} : bills'[c] = bills[c]
    BY <2>1, <2>2 DEF DBTypeOK
  <2>6. \A c \in Bills : ItemsTotal(c)' = ItemsTotal(c)
    BY <2>1 DEF ItemsTotal
  <2>7. OpenTotalIsItems'
    BY <2>1, <2>4, <2>5, <2>6 DEF TablesAgree, OpenTotalIsItems
  <2>8. \A li \in lineItems : RowExists(li.bill)'
    BY <2>4, <2>5 DEF TablesAgree, RowExists, DBTypeOK, LineItems
  <2> QED
    BY <2>1, <2>7, <2>8 DEF TablesAgree
<1> QED
  BY <1>1, <1>2, <1>3, <1>4 DEF Execute

LEMMA TablesInit == Init => TablesAgree
<1> SUFFICES ASSUME Init PROVE TablesAgree
  OBVIOUS
<1>1. lineItems = {}
  BY DEF Init, DBInit
<1>2. \A b \in Bills : bills[b].status = "NONE"
  BY DEF Init, DBInit, NoRow
<1> QED
  BY <1>1, <1>2 DEF TablesAgree, OpenTotalIsItems

LEMMA TablesStep == WellTyped /\ TablesAgree /\ [Next]_vars => TablesAgree'
<1> SUFFICES ASSUME WellTyped, TablesAgree, [Next]_vars PROVE TablesAgree'
  OBVIOUS
<1>1. CASE UNCHANGED dbVars
  BY <1>1 DEF dbVars, TablesAgree, OpenTotalIsItems, ItemsTotal, RowExists
<1>2. ASSUME NEW x \in open, CommitTx(x) PROVE TablesAgree'
  <2>1. x.in \in Inputs
    BY DEF WellTyped, TypeOK, Attempts
  <2> QED
    BY <1>2, <2>1, ExecuteTables DEF CommitTx, WellTyped, TypeOK
<1> QED
  BY <1>1, <1>2, WhoWrites

\* The total of every OPEN row is the sum of the bill's line items, whatever
\* attempts of AppendLineItemActivity are retried, lost or committed late, and
\* whatever workflows are restarted.
THEOREM OpenTotalTheorem == Spec => []OpenTotalIsItems
<1>1. TablesAgree => OpenTotalIsItems
  BY DEF TablesAgree
<1> QED
  BY <1>1, WellTypedInit, WellTypedStep, TablesInit, TablesStep, PTL DEF Spec
=============================================================================
