-------------------------- MODULE BillLedgerProofs --------------------------
(***************************************************************************)
(* What the service owes to a bill's history, proved for every value of    *)
(* the constants: what ContinueAsNew hands over, where line items come      *)
(* from, what the audit log says (and that it replays to the row), the      *)
(* currency of a bill and who closed it; then that BillWorkflow implements  *)
(* BillLedger.  The invariant is that of BillInvariant.                     *)
(***************************************************************************)
EXTENDS BillCountProofs, BillRefinement


-----------------------------------------------------------------------------
(* What a step may do to a call, a transaction, an activity, an execution *)

\* A call is answered at once, accepted by the validator, or answered by its
\* handler or by the end of its workflow; nothing else happens to it.
CallMoves(v) ==
  \/ upd'[v] = upd[v]
  \/ upd[v].st = "idle" /\ upd'[v].st = "done" /\ upd'[v].in \in Requests
  \/ /\ upd[v].st = "idle" /\ upd'[v].st = "running" /\ upd'[v].code = ""
     /\ upd'[v].in \in Requests /\ ~EndpointRejects(upd'[v].in)
     /\ Validate(upd'[v].in.bill, upd'[v].in) = "OK"
     /\ starts' = starts
  \/ /\ upd[v].st = "running" /\ upd'[v].st = "done" /\ upd'[v].in = upd[v].in
     /\ upd'[v].code \in {"OK", "InvalidArgument", "Failed"}

\* Every step moves every call that way.
LEMMA CallStep ==
  ASSUME WellTyped, [Next]_vars, NEW v \in Updates
  PROVE  CallMoves(v)
<1>0. upd \in [Updates -> Calls]
  BY DEF WellTyped, TypeOK
<1>1. CASE upd' = upd
  BY <1>1 DEF CallMoves
<1>2. ASSUME NEW u \in Updates, NEW r \in Requests, NEW code \in Codes,
             upd[u].st = "idle", Answer(u, r, code)
      PROVE  CallMoves(v)
  BY <1>2, AnswerType DEF WellTyped, CallMoves
<1>3. ASSUME NEW u \in Updates, NEW r \in Requests, AddLineItemRefused(u, r) PROVE CallMoves(v)
  BY <1>2, <1>3 DEF AddLineItemRefused, Codes
<1>4. ASSUME NEW u \in Updates, NEW r \in Requests, AddLineItemAnswered(u, r) PROVE CallMoves(v)
  <2>1. PICK code \in Codes : Answer(u, r, code)
    BY <1>4 DEF AddLineItemAnswered, Validate, Codes
  <2> QED
    BY <1>2, <1>4, <2>1 DEF AddLineItemAnswered
<1>5. ASSUME NEW u \in Updates, NEW r \in Requests, AddLineItemStarted(u, r) PROVE CallMoves(v)
  <2>1. /\ upd' = [upd EXCEPT ![u] = [st |-> "running", in |-> r, code |-> ""]]
        /\ upd[u].st = "idle" /\ ~EndpointRejects(r) /\ Validate(r.bill, r) = "OK"
        /\ starts' = starts
    BY <1>5 DEF AddLineItemStarted
  <2>2. /\ upd'[u].st = "running" /\ upd'[u].in = r /\ upd'[u].code = ""
        /\ \A w \in Updates \ {u} : upd'[w] = upd[w]
    BY <1>0, <2>1 DEF Calls, Codes
  <2> QED
    BY <2>1, <2>2 DEF CallMoves
<1>6. ASSUME NEW u \in Updates, HandlerTask(u) PROVE CallMoves(v)
  <2>1. PICK code \in {"OK", "InvalidArgument"} : Answer(u, upd[u].in, code)
    BY <1>6 DEF HandlerTask, HandlerDone, HandlerFailed
  <2>2. upd[u].st = "running" /\ upd[u].in \in Requests
    BY <1>6, HandlerFacts DEF HandlerTask, HandlerDone, HandlerFailed
  <2> QED
    BY <2>1, <2>2, AnswerType DEF Codes, WellTyped, CallMoves
<1>7. ASSUME NEW b \in Bills, NEW ph, EndWorkflow(b, ph) PROVE CallMoves(v)
  <2>1. upd'[v] = IF v \in Handlers(b) THEN [upd[v] EXCEPT !.st = "done", !.code = "Failed"]
                  ELSE upd[v]
    BY <1>7 DEF EndWorkflow
  <2>2. LET y == [upd[v] EXCEPT !.st = "done", !.code = "Failed"] IN
        y.in = upd[v].in /\ y.st = "done" /\ y.code = "Failed"
    BY <1>0 DEF Calls
  <2>3. v \in Handlers(b) => upd[v].st = "running"
    BY DEF Handlers
  <2> QED
    BY <2>1, <2>2, <2>3 DEF CallMoves
<1>8. ASSUME NEW b \in Bills, WorkflowTask(b) PROVE CallMoves(v)
  BY <1>1, <1>7, <1>8 DEF WorkflowTask, FirstTask, CreateDone, CreateFailed, ResumeTask,
     SelectorTask, CloseDone, CloseFailed
<1>9. ASSUME NEW b \in Bills,
             \/ CloseBill(b) \/ PeriodPasses(b)
             \/ \E c \in Currencies, p \in Periods[b] : CreateBill(b, c, p)
      PROVE  CallMoves(v)
  BY <1>1, <1>9 DEF CloseBill, PeriodPasses, CreateBill
<1>10. ASSUME NEW t \in Tasks,
             StartAttempt(t) \/ LoseAttempt(t) \/ ExpireActivity(t) \/ EndAttempt(t)
      PROVE  CallMoves(v)
  BY <1>1, <1>10 DEF StartAttempt, LoseAttempt, ExpireActivity, EndAttempt, CommitTx, AbortTx
<1>11. CASE UNCHANGED vars
  BY <1>1, <1>11 DEF vars
<1> QED
  BY <1>3, <1>4, <1>5, <1>6, <1>8, <1>9, <1>10, <1>11 DEF Next

\* Only StartAttempt opens a transaction, with the input of a pending activity.
LEMMA OpenStep ==
  ASSUME WellTyped, [Next]_vars, NEW x \in open', x \notin open
  PROVE  \E t \in Tasks : act[t].st # "idle" /\ x.in = act[t].in
<1>1. ASSUME NEW t \in Tasks, StartAttempt(t) PROVE act[t].st # "idle" /\ x.in = act[t].in
  BY <1>1 DEF StartAttempt, Attempt
<1>2. ASSUME NEW t \in Tasks, LoseAttempt(t) \/ ExpireActivity(t) \/ EndAttempt(t) PROVE FALSE
  BY <1>2 DEF LoseAttempt, ExpireActivity, EndAttempt, CommitTx, AbortTx
<1>3. CASE open' # open
  BY <1>1, <1>2, <1>3 DEF Next, vars, CreateBill, CloseBill, WorkflowTask, PeriodPasses, FirstTask,
       CreateDone, CreateFailed, ResumeTask, SelectorTask, CloseDone, CloseFailed,
       EndWorkflow, AddLineItemRefused, AddLineItemAnswered, AddLineItemStarted,
       HandlerTask, HandlerDone, HandlerFailed
<1> QED
  BY <1>3

\* Whose activity it can be.
LEMMA OpenOrigin ==
  ASSUME WellTyped, [Next]_vars, NEW x \in open', x \notin open
  PROVE  \/ \E u \in Updates : upd[u].st = "running" /\ x.in = AppendInput(upd[u].in)
         \/ \E b \in Bills : act[b].st # "idle" /\ x.in = act[b].in /\ x.in.bill = b
<1>1. PICK t \in Tasks : act[t].st # "idle" /\ x.in = act[t].in
  BY OpenStep
<1> QED
  BY <1>1 DEF Tasks, WellTyped, WellFormed, AppendsOK, MainOK


\* A pending activity of the main coroutine keeps its input; a new one creates
\* the bill in the workflow's currency, or closes it as the workflow decided.
MainMoves(b) ==
  act'[b].st # "idle" =>
    \/ act[b].st # "idle" /\ act'[b].in = act[b].in
    \/ act[b].st = "idle" /\ act'[b].in = CreateInput(b) /\ starts'[b] = starts[b]
    \/ /\ act'[b].in = CloseInput(b, wf'[b]) /\ wf'[b].phase = "closing"
       /\ wf[b].phase \notin EndPhases

\* What one workflow does to itself: its currency and, once it closes, its
\* reason stay; it counts an item, with its charge and its key, or none.
ExecutionMoves(b) ==
  /\ wf'[b].currency = wf[b].currency
  /\ wf[b].phase \in EndPhases => wf'[b].phase \in EndPhases /\ wf'[b].reason = wf[b].reason
  /\ \/ /\ wf'[b].seen = wf[b].seen /\ wf'[b].itemCount = wf[b].itemCount
        /\ wf'[b].total = wf[b].total
     \/ \E r \in RequestRecords :
          /\ wf'[b].seen = wf[b].seen \cup {r.id} /\ wf'[b].itemCount = wf[b].itemCount + 1
          /\ wf'[b].total = AddTo(wf[b].total, Charge(r))

\* A workflow that runs a task, and one that CreateBill starts.
WorkflowMoves(b) ==
  \/ starts'[b] = starts[b] /\ ExecutionMoves(b)
  \/ /\ starts'[b] = starts[b] + 1 /\ wf[b].phase \in {"none", "completed", "failed"}
     /\ act'[b] = act[b] /\ UNCHANGED <<bills, lineItems, billEvents, upd, open>>

\* What Proceed does to the count.
LEMMA ProceedCount ==
  ASSUME NEW w \in Executions, NEW busy \in BOOLEAN
  PROVE  Proceed(w, busy).itemCount = w.itemCount
<1>1. continueAsNew(w).itemCount = w.itemCount
  BY DEF continueAsNew, Executions
<1>2. finalize(w).itemCount = w.itemCount
  BY DEF finalize, Executions
<1>3. [w EXCEPT !.phase = "drain"].itemCount = w.itemCount
  BY DEF Executions
<1> QED
  BY <1>1, <1>2, <1>3, ProceedCases

\* The main coroutine's task, whatever the handlers left it with.
LEMMA TaskMoves ==
  ASSUME WellTyped, NEW b \in Bills, NEW w \in Executions, NEW busy \in BOOLEAN,
         NEW a \in [Tasks -> Activities], RunTask(b, w, busy, a), starts' = starts,
         w.phase \in {"await", "drain", "closing"}, w.currency = wf[b].currency,
         w.phase = "closing" => wf[b].phase = "closing" /\ w.reason = wf[b].reason /\ a[b] = act[b],
         w.phase # "closing" => wf[b].phase \notin EndPhases /\ a[b].st = "idle",
         \A c \in Bills \ {b} : a[c] = act[c],
         \/ w.seen = wf[b].seen /\ w.itemCount = wf[b].itemCount /\ w.total = wf[b].total
         \/ \E r \in RequestRecords :
              /\ w.seen = wf[b].seen \cup {r.id} /\ w.itemCount = wf[b].itemCount + 1
              /\ w.total = AddTo(wf[b].total, Charge(r))
  PROVE  \A c \in Bills : MainMoves(c) /\ WorkflowMoves(c)
<1> DEFINE p == Proceed(w, busy)
<1>1. /\ p.currency = w.currency /\ p.total = w.total /\ p.seen = w.seen
      /\ p.reason = w.reason /\ p.itemCount = w.itemCount
  BY ProceedFields, ProceedCount
<1>2. /\ wf'[b] = p
      /\ \A c \in Bills \ {b} : wf'[c] = wf[c]
      /\ \A t \in Tasks \ {b} : act'[t] = a[t]
      /\ \/ act'[b] = a[b] /\ (wf'[b].phase = "closing" => w.phase = "closing")
         \/ /\ wf'[b].phase = "closing" /\ w.phase # "closing"
            /\ act'[b] = Schedule(CloseInput(b, wf'[b]))
  BY RunTaskEffect DEF WellTyped
<1>3. w.phase = "closing" => p = w
  BY DEF Proceed, Waits
<1>4. Bills \subseteq Tasks
  BY DEF Tasks
<1> HIDE DEF p
<1>5. ASSUME NEW c \in Bills, c # b PROVE MainMoves(c) /\ WorkflowMoves(c)
  <2>1. wf'[c] = wf[c] /\ act'[c] = act[c]
    BY <1>2, <1>4, <1>5
  <2> QED
    BY <2>1 DEF MainMoves, WorkflowMoves, ExecutionMoves
<1>6. MainMoves(b)
  <2>1. act'[b] = Schedule(CloseInput(b, wf'[b])) => act'[b].in = CloseInput(b, wf'[b])
    BY DEF Schedule
  <2> QED
    BY <1>2, <2>1 DEF MainMoves
<1>7. WorkflowMoves(b)
  BY <1>1, <1>2, <1>3 DEF WorkflowMoves, ExecutionMoves, EndPhases
<1> QED
  BY <1>5, <1>6, <1>7

\* A step that leaves the executions alone and the inputs of activities.
LEMMA StillMoves ==
  ASSUME UNCHANGED <<wf, starts>>,
         \A c \in Bills : act'[c].st # "idle" => act[c].st # "idle" /\ act'[c].in = act[c].in
  PROVE  \A c \in Bills : MainMoves(c) /\ WorkflowMoves(c)
BY DEF MainMoves, WorkflowMoves, ExecutionMoves

\* A step of one execution outside of RunTask.
LEMMA FieldMoves ==
  ASSUME WellTyped, NEW b \in Bills, NEW w, wf' = [wf EXCEPT ![b] = w], starts' = starts,
         w.currency = wf[b].currency, w.seen = wf[b].seen, w.total = wf[b].total,
         w.itemCount = wf[b].itemCount,
         wf[b].phase \in EndPhases => w.phase \in EndPhases /\ w.reason = wf[b].reason,
         \A c \in Bills : act'[c].st # "idle" =>
           \/ act[c].st # "idle" /\ act'[c].in = act[c].in
           \/ act[c].st = "idle" /\ act'[c].in = CreateInput(c)
  PROVE  \A c \in Bills : MainMoves(c) /\ WorkflowMoves(c)
<1>1. wf'[b] = w /\ \A c \in Bills \ {b} : wf'[c] = wf[c]
  BY DEF WellTyped, TypeOK
<1>2. \A c \in Bills : MainMoves(c)
  BY DEF MainMoves
<1>3. \A c \in Bills : ExecutionMoves(c)
  BY <1>1 DEF ExecutionMoves
<1> QED
  BY <1>2, <1>3 DEF WorkflowMoves

\* The count that the operators on an execution leave or raise.
LEMMA SelectMoves ==
  ASSUME NEW w \in Executions
  PROVE  /\ Select(w).itemCount = w.itemCount
         /\ awaitCloseOrThreshold(w).itemCount = w.itemCount
         /\ \A r : Counted(w, r).itemCount = w.itemCount + 1 /\ Counted(w, r).reason = w.reason
BY DEF Select, awaitCloseOrThreshold, Counted, Executions

\* A task in which no item is counted.
LEMMA SelectTaskMoves ==
  ASSUME WellTyped, NEW b \in Bills, Accepts(b), NEW busy \in BOOLEAN,
         NEW a \in [Tasks -> Activities], \A c \in Bills : a[c] = act[c],
         RunTask(b, Select(wf[b]), busy, a), starts' = starts
  PROVE  \A c \in Bills : MainMoves(c) /\ WorkflowMoves(c)
<1> DEFINE w == Select(wf[b])
<1>1. /\ wf[b] \in Executions /\ w \in Executions /\ w.phase = wf[b].phase
      /\ w.phase \in {"await", "drain", "closing"}
      /\ wf[b].phase # "closing" => act[b].st = "idle"
  BY AcceptingTask
<1>2. /\ w.currency = wf[b].currency /\ w.total = wf[b].total /\ w.seen = wf[b].seen
      /\ w.itemCount = wf[b].itemCount
  BY <1>1, SelectFields, SelectMoves
<1>3. w.phase = "closing" => w.reason = wf[b].reason
  BY <1>1, SelectReason
<1>4. RunTask(b, w, busy, a)
  OBVIOUS
<1> HIDE DEF w
<1> QED
  BY <1>1, <1>2, <1>3, <1>4, TaskMoves DEF EndPhases

\* The task of a handler whose append succeeded counts one item.
LEMMA HandlerDoneMoves ==
  ASSUME WellTyped, NEW u \in Updates, HandlerDone(u)
  PROVE  \A c \in Bills : MainMoves(c) /\ WorkflowMoves(c)
<1> DEFINE r == upd[u].in
           b == r.bill
           s == Select(wf[b])
           w == Counted(s, r)
           busy == Handlers(b) \ {u} # {}
           a == [act EXCEPT ![u] = NoTask]
<1>1. upd[u].st = "running" /\ RunTask(b, w, busy, a) /\ starts' = starts
  BY DEF HandlerDone
<1>2. r \in Requests /\ b \in Bills /\ Accepts(b)
  BY <1>1, HandlerFacts DEF Accepts
<1>3. r \in RequestRecords
  BY <1>2, RequestTypes
<1>4. /\ wf[b] \in Executions /\ s \in Executions /\ s.phase = wf[b].phase
      /\ s.phase \in {"await", "drain", "closing"}
      /\ wf[b].phase # "closing" => act[b].st = "idle"
  BY <1>2, AcceptingTask
<1>5. /\ s.currency = wf[b].currency /\ s.total = wf[b].total /\ s.seen = wf[b].seen
      /\ s.itemCount = wf[b].itemCount
      /\ s.phase = "closing" => s.reason = wf[b].reason
  BY <1>4, SelectFields, SelectMoves, SelectReason
<1>6. /\ w \in Executions /\ w.phase = s.phase /\ w.currency = s.currency
      /\ w.total = AddTo(s.total, Charge(r)) /\ w.seen = s.seen \cup {r.id}
      /\ w.itemCount = s.itemCount + 1 /\ w.reason = s.reason
  BY <1>3, <1>4, CountedType, CountedFields, SelectMoves
<1>7. a \in [Tasks -> Activities] /\ \A c \in Bills : a[c] = act[c]
  BY NoTaskType, WorkflowAssumption DEF WellTyped, TypeOK, Tasks
<1> HIDE DEF w, s, a, b, r
<1> QED
  BY <1>1, <1>2, <1>3, <1>4, <1>5, <1>6, <1>7, TaskMoves DEF EndPhases

\* The first task of a run that waits for its close.
LEMMA CreateDoneMoves ==
  ASSUME WellTyped, NEW b \in Bills, CreateDone(b) \/ ResumeTask(b)
  PROVE  \A c \in Bills : MainMoves(c) /\ WorkflowMoves(c)
<1> DEFINE w == awaitCloseOrThreshold(wf[b])
           a == IF wf[b].phase = "creating" THEN [act EXCEPT ![b] = NoTask] ELSE act
<1>1. /\ wf[b].phase \in {"creating", "resume"}
      /\ RunTask(b, w, FALSE, a) /\ starts' = starts
  BY DEF CreateDone, ResumeTask
<1>2. wf[b] \in Executions /\ wf[b].phase \notin EndPhases
  BY <1>1 DEF WellTyped, TypeOK, EndPhases
<1>3. /\ w \in Executions /\ w.phase = "await" /\ w.currency = wf[b].currency
      /\ w.total = wf[b].total /\ w.seen = wf[b].seen /\ w.itemCount = wf[b].itemCount
  BY <1>2, SelectType, AwaitFields, SelectMoves
<1>4. /\ a \in [Tasks -> Activities] /\ a[b].st = "idle"
      /\ \A c \in Bills \ {b} : a[c] = act[c]
  BY <1>1, NoTaskType DEF WellTyped, TypeOK, Tasks, WellFormed, MainOK
<1> HIDE DEF w, a
<1> QED
  BY <1>1, <1>2, <1>3, <1>4, TaskMoves

\* Steps that set single fields of an execution.
LEMMA MainTaskMoves ==
  ASSUME WellTyped, NEW b \in Bills,
         CloseBill(b) \/ PeriodPasses(b) \/ FirstTask(b) \/ CreateFailed(b)
  PROVE  \A c \in Bills : MainMoves(c) /\ WorkflowMoves(c)
<1>0. wf[b] \in Executions /\ act \in [Tasks -> Activities] /\ b \in Tasks /\ Bills \subseteq Tasks
  BY DEF WellTyped, TypeOK, Tasks
<1>1. CASE CloseBill(b) \/ PeriodPasses(b)
  <2>1. PICK w : /\ wf' = [wf EXCEPT ![b] = w]
                 /\ w = [wf[b] EXCEPT !.signal = TRUE] \/ w = [wf[b] EXCEPT !.period = "over"]
    BY <1>1 DEF CloseBill, PeriodPasses
  <2>2. /\ w.currency = wf[b].currency /\ w.seen = wf[b].seen /\ w.total = wf[b].total
        /\ w.itemCount = wf[b].itemCount /\ w.phase = wf[b].phase /\ w.reason = wf[b].reason
    BY <1>0, <2>1 DEF Executions
  <2>3. starts' = starts /\ act' = act
    BY <1>1 DEF CloseBill, PeriodPasses
  <2> QED
    BY <2>1, <2>2, <2>3, FieldMoves
<1>2. CASE FirstTask(b) \/ CreateFailed(b)
  <2>1. PICK w : /\ wf' = [wf EXCEPT ![b] = w]
                 /\ \/ w = [wf[b] EXCEPT !.phase = "creating"]
                    \/ w = [wf[b] EXCEPT !.phase = "failed"]
    BY <1>2 DEF FirstTask, CreateFailed
  <2>2. /\ w.currency = wf[b].currency /\ w.seen = wf[b].seen /\ w.total = wf[b].total
        /\ w.itemCount = wf[b].itemCount
    BY <1>0, <2>1 DEF Executions
  <2>3. starts' = starts /\ wf[b].phase \notin EndPhases
    BY <1>2 DEF FirstTask, CreateFailed, EndPhases
  <2>4. /\ \A c \in Bills \ {b} : act'[c] = act[c]
        /\ \/ act[b].st = "idle" /\ act'[b] = Schedule(CreateInput(b))
           \/ act'[b] = NoTask
    <3>1. CASE FirstTask(b)
      BY <1>0, <3>1 DEF FirstTask, WellTyped, WellFormed, MainOK
    <3>2. CASE CreateFailed(b)
      BY <1>0, <3>2 DEF CreateFailed
    <3> QED
      BY <1>2, <3>1, <3>2
  <2>5. Schedule(CreateInput(b)).in = CreateInput(b)
    BY DEF Schedule
  <2> QED
    BY <2>1, <2>2, <2>3, <2>4, <2>5, NoTaskType, FieldMoves
<1> QED
  BY <1>1, <1>2

\* The end of a workflow leaves its counts.
LEMMA EndMoves ==
  ASSUME WellTyped, NEW b \in Bills, CloseDone(b) \/ CloseFailed(b)
  PROVE  \A c \in Bills : MainMoves(c) /\ WorkflowMoves(c)
<1>1. PICK ph \in {"completed", "failed"} : EndWorkflow(b, ph)
  BY DEF CloseDone, CloseFailed
<1> DEFINE w == [wf[b] EXCEPT !.phase = ph]
<1>2. wf' = [wf EXCEPT ![b] = w] /\ starts' = starts
  BY <1>1 DEF EndWorkflow
<1>3. /\ w.currency = wf[b].currency /\ w.seen = wf[b].seen /\ w.total = wf[b].total
      /\ w.itemCount = wf[b].itemCount /\ w.phase = ph /\ w.reason = wf[b].reason
  BY DEF WellTyped, TypeOK, Executions
<1>4. \A c \in Bills : act'[c] = NoTask \/ act'[c] = act[c]
  BY <1>1 DEF EndWorkflow, Tasks
<1> HIDE DEF w
<1> QED
  BY <1>2, <1>3, <1>4, NoTaskType, FieldMoves DEF EndPhases

\* Every step.
LEMMA MovesStep ==
  ASSUME WellTyped, [Next]_vars
  PROVE  \A b \in Bills : MainMoves(b) /\ WorkflowMoves(b)
<1> USE DEF WellTyped
<1>0. act \in [Tasks -> Activities] /\ Bills \subseteq Tasks /\ Updates \cap Bills = {}
  BY WorkflowAssumption DEF TypeOK, Tasks
<1>1. ASSUME NEW b \in Bills, NEW c \in Currencies, NEW p \in Periods[b],
             CreateBill(b, c, p)
      PROVE  \A d \in Bills : MainMoves(d) /\ WorkflowMoves(d)
  <2>1. /\ act' = act /\ UNCHANGED <<bills, lineItems, billEvents, upd, open>>
        /\ wf[b].phase \in {"none", "completed", "failed"}
    BY <1>1 DEF CreateBill, Ended, dbVars
  <2>2. starts'[b] = starts[b] + 1
        /\ \A d \in Bills \ {b} : starts'[d] = starts[d] /\ wf'[d] = wf[d]
    BY <1>1 DEF CreateBill, TypeOK
  <2> QED
    BY <2>1, <2>2 DEF MainMoves, WorkflowMoves, ExecutionMoves
<1>2. ASSUME NEW b \in Bills, WorkflowTask(b)
      PROVE  \A d \in Bills : MainMoves(d) /\ WorkflowMoves(d)
  <2>1. CASE SelectorTask(b)
    BY <1>0, <2>1, SelectTaskMoves DEF SelectorTask, Accepts
  <2> QED
    BY <1>2, <2>1, MainTaskMoves, CreateDoneMoves, EndMoves DEF WorkflowTask
<1>3. ASSUME NEW u \in Updates, NEW r \in Requests, AddLineItemRefused(u, r)
      PROVE  \A d \in Bills : MainMoves(d) /\ WorkflowMoves(d)
  BY <1>3, StillMoves DEF AddLineItemRefused
<1>4. ASSUME NEW u \in Updates, NEW r \in Requests, AddLineItemAnswered(u, r)
      PROVE  \A d \in Bills : MainMoves(d) /\ WorkflowMoves(d)
  BY <1>0, <1>4, RequestTypes, SelectTaskMoves DEF AddLineItemAnswered
<1>5. ASSUME NEW u \in Updates, NEW r \in Requests, AddLineItemStarted(u, r)
      PROVE  \A d \in Bills : MainMoves(d) /\ WorkflowMoves(d)
  <2> DEFINE a == [act EXCEPT ![u] = Schedule(AppendInput(r))]
  <2>1. AppendInput(r) \in Inputs
    BY RequestTypes, ChargeTypes DEF Inputs
  <2>2. a \in [Tasks -> Activities] /\ \A c \in Bills : a[c] = act[c]
    BY <1>0, <2>1, ScheduleType
  <2>3. /\ RunTask(r.bill, Select(wf[r.bill]), TRUE, a) /\ starts' = starts
        /\ Accepts(r.bill)
    BY <1>5 DEF AddLineItemStarted
  <2> HIDE DEF a
  <2> QED
    BY <2>2, <2>3, RequestTypes, SelectTaskMoves
<1>6. ASSUME NEW u \in Updates, HandlerFailed(u)
      PROVE  \A d \in Bills : MainMoves(d) /\ WorkflowMoves(d)
  <2> DEFINE a == [act EXCEPT ![u] = NoTask]
             b == upd[u].in.bill
  <2>2. a \in [Tasks -> Activities] /\ \A c \in Bills : a[c] = act[c]
    BY <1>0, NoTaskType
  <2>3. /\ RunTask(b, Select(wf[b]), Handlers(b) \ {u} # {}, a) /\ starts' = starts
        /\ upd[u].st = "running"
    BY <1>6 DEF HandlerFailed
  <2>4. Accepts(b) /\ b \in Bills
    BY <2>3, HandlerFacts DEF Accepts
  <2> HIDE DEF a, b
  <2> QED
    BY <2>2, <2>3, <2>4, SelectTaskMoves
<1>7. ASSUME NEW t \in Tasks,
             StartAttempt(t) \/ LoseAttempt(t) \/ ExpireActivity(t) \/ EndAttempt(t)
      PROVE  \A d \in Bills : MainMoves(d) /\ WorkflowMoves(d)
  <2>1. UNCHANGED <<wf, starts>>
    BY <1>7 DEF StartAttempt, LoseAttempt, ExpireActivity, EndAttempt, CommitTx, AbortTx
  <2>2. \A s \in Tasks : act'[s].st # "idle" => act[s].st # "idle" /\ act'[s].in = act[s].in
    BY <1>7, CommitActs, AttemptActs DEF EndAttempt
  <2> QED
    BY <1>0, <2>1, <2>2, StillMoves
<1>8. CASE UNCHANGED vars
  BY <1>8, StillMoves DEF vars
<1> QED
  BY <1>1, <1>2, <1>3, <1>4, <1>5, <1>6, <1>7, <1>8, MainTaskMoves, HandlerDoneMoves
     DEF Next, HandlerTask

-----------------------------------------------------------------------------
(* ContinueAsNew *)

\* A total that counts one more charge is another total.
LEMMA AddToDiffers ==
  ASSUME NEW t \in Total, NEW c \in Charges
  PROVE  AddTo(t, c) # t
<1>1. AddTo(t, c)[c] = t[c] + 1 /\ t[c] \in Nat
  BY DEF AddTo, Total
<1>2. t[c] + 1 # t[c]
  BY <1>1
<1> QED
  BY <1>1, <1>2

\* One step of HandOverKeepsItems.
HandOverStep ==
  \A b \in Bills : starts'[b] = starts[b] =>
    /\ wf[b].seen \subseteq wf'[b].seen
    /\ wf'[b].itemCount - wf[b].itemCount = IF wf'[b].total = wf[b].total THEN 0 ELSE 1

\* Every step keeps the seen set, the count and the total together.
LEMMA HandOverHolds == WellTyped /\ [Next]_vars => HandOverStep
<1> SUFFICES ASSUME WellTyped, [Next]_vars, NEW b \in Bills, starts'[b] = starts[b]
             PROVE  /\ wf[b].seen \subseteq wf'[b].seen
                    /\ wf'[b].itemCount - wf[b].itemCount
                         = IF wf'[b].total = wf[b].total THEN 0 ELSE 1
  BY DEF HandOverStep
<1>1. starts[b] \in Nat
  BY DEF WellTyped, TypeOK
<1>2. starts[b] # starts[b] + 1
  BY <1>1
<1>3. ExecutionMoves(b)
  BY <1>2, MovesStep DEF WorkflowMoves
<1>4. wf[b].total \in Total /\ wf[b].itemCount \in Nat
  BY DEF WellTyped, TypeOK, Executions
<1>5. CASE /\ wf'[b].seen = wf[b].seen /\ wf'[b].itemCount = wf[b].itemCount
           /\ wf'[b].total = wf[b].total
  BY <1>4, <1>5
<1>6. ASSUME NEW r \in RequestRecords,
             /\ wf'[b].seen = wf[b].seen \cup {r.id} /\ wf'[b].itemCount = wf[b].itemCount + 1
             /\ wf'[b].total = AddTo(wf[b].total, Charge(r))
      PROVE  /\ wf[b].seen \subseteq wf'[b].seen
             /\ wf'[b].itemCount - wf[b].itemCount
                  = IF wf'[b].total = wf[b].total THEN 0 ELSE 1
  <2>1. wf'[b].total # wf[b].total
    BY <1>4, <1>6, AddToDiffers, ChargeTypes
  <2> QED
    BY <1>4, <1>6, <2>1
<1> QED
  BY <1>3, <1>5, <1>6 DEF ExecutionMoves

\* Within one workflow, over any number of ContinueAsNew, the seen set only
\* grows, and the count of items grows with the total and never without it.
THEOREM HandOverTheorem == Spec => HandOverKeepsItems
<1>1. WellTyped /\ [Next]_vars =>
        [\A b \in Bills : starts'[b] = starts[b] =>
           /\ wf[b].seen \subseteq wf'[b].seen
           /\ wf'[b].itemCount - wf[b].itemCount
                = IF wf'[b].total = wf[b].total THEN 0 ELSE 1]_vars
  BY HandOverHolds DEF HandOverStep
<1> QED
  BY <1>1, WellTypedInit, WellTypedStep, PTL DEF Spec, HandOverKeepsItems

-----------------------------------------------------------------------------
(* Origins *)

\* A call that was let pass keeps its request and is never rejected later.
LEMMA AskedStays ==
  ASSUME WellTyped, [Next]_vars, NEW u \in Updates, upd[u].st # "idle", Asked(u)
  PROVE  upd'[u].st # "idle" /\ upd'[u].in = upd[u].in /\ Asked(u)'
BY CallStep DEF CallMoves, Asked

\* Initially nothing was asked for and nothing is there.
LEMMA OriginsInit == Init => OriginsAgree
<1> SUFFICES ASSUME Init PROVE OriginsAgree
  OBVIOUS
<1>1. \A u \in Updates : upd[u].st = "idle"
  BY DEF Init
<1>2. open = {} /\ lineItems = {}
  BY DEF Init, DBInit
<1> QED
  BY <1>1, <1>2 DEF OriginsAgree

\* Every step keeps the origin of handlers, open appends and items.
LEMMA OriginsStep ==
  ASSUME WellTyped, TablesAgree, OriginsAgree, [Next]_vars
  PROVE  OriginsAgree'
<1>1. ASSUME NEW u \in Updates, upd'[u].st = "running" PROVE Asked(u)'
  <2>1. CASE upd'[u] = upd[u]
    BY <1>1, <2>1 DEF OriginsAgree, Asked
  <2>2. CASE upd'[u] # upd[u]
    <3>1. /\ upd'[u].code = "" /\ upd'[u].in \in Requests
          /\ Validate(upd'[u].in.bill, upd'[u].in) = "OK"
      BY <1>1, <2>2, CallStep DEF CallMoves
    <3>2. upd'[u].in.amount \in Nat
      BY <3>1, RequestTypes, DBAssumption DEF RequestRecords
    <3>3. upd'[u].in.caller = Owner[upd'[u].in.bill] /\ upd'[u].in.amount # 0
      BY <3>1 DEF Validate
    <3>4. upd'[u].in.amount > 0
      BY <3>2, <3>3
    <3> QED
      BY <3>1, <3>3, <3>4 DEF Asked
  <2> QED
    BY <2>1, <2>2
<1>2. ASSUME NEW x \in open', x.in \in AppendInputs
      PROVE  \E u \in Updates :
               upd'[u].st # "idle" /\ Asked(u)' /\ x.in = AppendInput(upd'[u].in)
  <2>1. \E u \in Updates : upd[u].st # "idle" /\ Asked(u) /\ x.in = AppendInput(upd[u].in)
    <3>1. CASE x \in open
      BY <1>2, <3>1 DEF OriginsAgree
    <3>2. CASE x \notin open
      <4>1. ASSUME NEW b \in Bills, act[b].st # "idle", x.in = act[b].in PROVE FALSE
        BY <1>2, <4>1, KindsDiffer DEF WellTyped, WellFormed, MainOK
      <4> QED
        BY <3>2, <4>1, OpenOrigin DEF OriginsAgree
    <3> QED
      BY <3>1, <3>2
  <2> QED
    BY <2>1, AskedStays
<1>3. ASSUME NEW li \in lineItems'
      PROVE  \E u \in Updates : upd'[u].st # "idle" /\ Asked(u)' /\ li = LineItem(upd'[u].in)
  <2>1. CASE li \in lineItems
    BY <2>1, AskedStays DEF OriginsAgree
  <2>2. CASE li \notin lineItems
    <3>1. PICK x \in open : CommitTx(x)
      BY <2>2, WhoWrites DEF dbVars
    <3>2. x.in \in Inputs /\ Execute(x.in) /\ DBTypeOK
      BY <3>1 DEF WellTyped, TypeOK, Attempts, CommitTx
    <3>3. x.in.bill \in Bills
      BY <3>2, InputTypes
    <3>4. x.in.kind = "append" /\ li = LineItem(x.in)
      <4>1. x.in.kind = "append"
        BY <2>2, <3>2, <3>3, ExecuteEffect
      <4>2. UNCHANGED dbVars \/ lineItems' = lineItems \cup {LineItem(x.in)}
        BY <3>2, <3>3, <4>1, ExecuteEffect
      <4> QED
        BY <2>2, <4>1, <4>2 DEF dbVars
    <3>5. x.in \in AppendInputs
      BY <3>2, <3>4, InputTypes
    <3>6. PICK u \in Updates : upd[u].st # "idle" /\ Asked(u) /\ x.in = AppendInput(upd[u].in)
      BY <3>5 DEF OriginsAgree
    <3>7. li = LineItem(upd[u].in)
      BY <3>4, <3>6, AppendInputItem
    <3> QED
      BY <3>6, <3>7, AskedStays
  <2> QED
    BY <2>1, <2>2
<1> QED
  BY <1>1, <1>2, <1>3 DEF OriginsAgree

\* The origins agree in every reachable state.
LEMMA OriginsHold == Spec => []OriginsAgree
BY WellTypedInit, WellTypedStep, TablesInit, TablesStep, OriginsInit, OriginsStep, PTL DEF Spec

\* Every line item goes back to an AddLineItem of the bill's owner, with a
\* positive amount, that neither the endpoint nor the validator rejected,
\* whichever attempt wrote it and however late.
THEOREM RequestedTheorem == Spec => []ItemsWereRequested
<1>1. WellTyped /\ OriginsAgree => ItemsWereRequested
  <2> SUFFICES ASSUME WellTyped, OriginsAgree, NEW li \in lineItems
               PROVE  \E u \in Updates :
                        /\ upd[u].in # NoInput
                        /\ LineItem(upd[u].in) = li
                        /\ upd[u].in.caller = Owner[li.bill] /\ upd[u].in.amount > 0
                        /\ upd[u].code \notin {"NotFound", "FailedPrecondition"}
    BY DEF ItemsWereRequested
  <2>1. PICK u \in Updates : upd[u].st # "idle" /\ Asked(u) /\ li = LineItem(upd[u].in)
    BY DEF OriginsAgree
  <2>2. upd[u].in # NoInput
    <3>1. upd[u].in \in RequestRecords
      BY <2>1, RequestTypes DEF Asked
    <3>2. ASSUME NEW r \in RequestRecords PROVE r # NoInput
      BY DEF RequestRecords, NoInput
    <3> QED
      BY <3>1, <3>2
  <2>3. li.bill = upd[u].in.bill
    BY <2>1, AppendInputItem
  <2> QED
    BY <2>1, <2>2, <2>3 DEF Asked
<1>2. Spec => []WellTyped
  BY WellTypedInit, WellTypedStep, PTL DEF Spec
<1> QED
  BY <1>1, <1>2, OriginsHold, PTL

-----------------------------------------------------------------------------
(* The log *)

\* What a sequence looks like after Append.
LEMMA Appended ==
  ASSUME NEW S, NEW s \in Seq(S), NEW e \in S, NEW t, t = Append(s, e)
  PROVE  /\ Len(s) \in Nat /\ Len(t) = Len(s) + 1 /\ t # <<>>
         /\ DOMAIN s = 1 .. Len(s) /\ DOMAIN t = 1 .. Len(s) + 1
         /\ \A i \in 1 .. Len(s) : t[i] = s[i]
         /\ t[Len(s) + 1] = e
         /\ s = <<>> <=> Len(s) = 0
OBVIOUS

\* What a transaction with input in does to the row, the items and the log of b.
NothingFor(b) ==
  bills'[b] = bills[b] /\ billEvents'[b] = billEvents[b] /\ ItemsOf(b)' = ItemsOf(b)

OpenedRow(currency) == [NoRow EXCEPT !.status = "OPEN", !.currency = currency]

Opens(b, in) ==
  /\ in \in CreateInputs /\ in.bill = b /\ ~RowExists(b)
  /\ bills'[b] = OpenedRow(in.currency) /\ ItemsOf(b)' = ItemsOf(b)
  /\ billEvents'[b] = Append(billEvents[b], [kind |-> "OPENED", actor |-> Owner[b],
                                             currency |-> in.currency])

Inserts(b, in) ==
  /\ in \in AppendInputs /\ in.bill = b /\ ~HasItem(in.id) /\ RowExists(b)
  /\ bills'[b] = [bills[b] EXCEPT !.total = AddTo(@, Charge(in))]
  /\ ItemsOf(b)' = ItemsOf(b) \cup {LineItem(in)}
  /\ billEvents'[b] = Append(billEvents[b], [kind |-> "ITEM_ADDED", actor |-> in.actor,
                                             item |-> LineItem(in)])

ClosesRow(b, in) ==
  /\ in \in CloseInputs /\ in.bill = b /\ RowExists(b)
  /\ bills'[b] = [bills[b] EXCEPT !.status = "CLOSED", !.total = in.total,
                                  !.reason = in.reason]
  /\ ItemsOf(b)' = ItemsOf(b)
  /\ billEvents'[b] = Append(billEvents[b], [kind |-> "CLOSED", actor |-> in.actor,
                                             total |-> in.total, reason |-> in.reason])

\* A transaction does one of these to a bill.
LEMMA ExecuteLog ==
  ASSUME DBTypeOK, NEW in \in Inputs, Execute(in), NEW b \in Bills
  PROVE  NothingFor(b) \/ Opens(b, in) \/ Inserts(b, in) \/ ClosesRow(b, in)
<1>0. in.bill \in Bills /\ bills \in [Bills -> Rows] /\ billEvents \in [Bills -> Seq(Events)]
  BY InputTypes DEF DBTypeOK
<1>1. CASE UNCHANGED dbVars
  BY <1>1 DEF dbVars, NothingFor, ItemsOf
<1>2. CASE in.kind = "create" /\ CreateBillActivity(in) /\ ~UNCHANGED dbVars
  <2>1. /\ bills' = [bills EXCEPT ![in.bill] = OpenedRow(in.currency)]
        /\ billEvents' = [billEvents EXCEPT ![in.bill] =
             Append(@, [kind |-> "OPENED", actor |-> Owner[in.bill],
                        currency |-> in.currency])]
        /\ lineItems' = lineItems /\ ~RowExists(in.bill) /\ in \in CreateInputs
    BY <1>2, InputTypes DEF CreateBillActivity, appendEvent, OpenedRow
  <2>2. ItemsOf(b)' = ItemsOf(b)
    BY <2>1 DEF ItemsOf
  <2>3. CASE b = in.bill
    BY <1>0, <2>1, <2>2, <2>3 DEF Opens
  <2>4. CASE b # in.bill
    BY <1>0, <2>1, <2>2, <2>4 DEF NothingFor
  <2> QED
    BY <2>3, <2>4
<1>3. CASE in.kind = "append" /\ AppendLineItemActivity(in) /\ ~UNCHANGED dbVars
  <2>1. /\ bills' = [bills EXCEPT ![in.bill] =
             [bills[in.bill] EXCEPT !.total = AddTo(@, Charge(in))]]
        /\ billEvents' = [billEvents EXCEPT ![in.bill] =
             Append(@, [kind |-> "ITEM_ADDED", actor |-> in.actor,
                        item |-> LineItem(in)])]
        /\ lineItems' = lineItems \cup {LineItem(in)} /\ ~HasItem(in.id) /\ in \in AppendInputs
    BY <1>3, InputTypes DEF AppendLineItemActivity, appendEvent
  <2>2. RowExists(in.bill)
    BY <1>3, <2>1 DEF Execute, SchemaAccepts
  <2>3. CASE b = in.bill
    <3>1. ItemsOf(b)' = ItemsOf(b) \cup {LineItem(in)}
      BY <2>1, <2>3, AppendInputItem DEF ItemsOf
    <3>2. bills'[b] = [bills[b] EXCEPT !.total = AddTo(@, Charge(in))]
      BY <1>0, <2>1, <2>3
    <3>3. billEvents'[b] = Append(billEvents[b], [kind |-> "ITEM_ADDED", actor |-> in.actor,
                                                  item |-> LineItem(in)])
      BY <1>0, <2>1, <2>3
    <3> QED
      BY <2>1, <2>2, <2>3, <3>1, <3>2, <3>3 DEF Inserts
  <2>4. CASE b # in.bill
    <3>1. ItemsOf(b)' = ItemsOf(b)
      BY <2>1, <2>4, AppendInputItem DEF ItemsOf
    <3> QED
      BY <1>0, <2>1, <2>4, <3>1 DEF NothingFor
  <2> QED
    BY <2>3, <2>4
<1>4. CASE in.kind = "close" /\ CloseBillActivity(in)
  <2>1. /\ bills' = [bills EXCEPT ![in.bill] =
             [bills[in.bill] EXCEPT !.status = "CLOSED", !.total = in.total,
                                    !.reason = in.reason]]
        /\ billEvents' = [billEvents EXCEPT ![in.bill] =
             Append(@, [kind |-> "CLOSED", actor |-> in.actor,
                        total |-> in.total, reason |-> in.reason])]
        /\ lineItems' = lineItems /\ in \in CloseInputs
    BY <1>4, InputTypes DEF CloseBillActivity, appendEvent
  <2>2. RowExists(in.bill)
    BY <1>4 DEF Execute, SchemaAccepts
  <2>3. ItemsOf(b)' = ItemsOf(b)
    BY <2>1 DEF ItemsOf
  <2>4. CASE b = in.bill
    <3>1. bills'[b] = [bills[b] EXCEPT !.status = "CLOSED", !.total = in.total,
                                       !.reason = in.reason]
      BY <1>0, <2>1, <2>4
    <3>2. billEvents'[b] = Append(billEvents[b], [kind |-> "CLOSED", actor |-> in.actor,
                                             total |-> in.total, reason |-> in.reason])
      BY <1>0, <2>1, <2>4
    <3> QED
      BY <2>1, <2>2, <2>3, <2>4, <3>1, <3>2 DEF ClosesRow
  <2>5. CASE b # in.bill
    BY <1>0, <2>1, <2>3, <2>5 DEF NothingFor
  <2> QED
    BY <2>4, <2>5
<1> QED
  BY <1>1, <1>2, <1>3, <1>4 DEF Execute

\* The tables of a bill in any step.
LEMMA TablesMove ==
  ASSUME WellTyped, [Next]_vars, NEW b \in Bills
  PROVE  \/ NothingFor(b)
         \/ \E x \in open : /\ CommitTx(x) /\ x.in \in Inputs
                            /\ Opens(b, x.in) \/ Inserts(b, x.in) \/ ClosesRow(b, x.in)
<1>1. CASE UNCHANGED dbVars
  BY <1>1 DEF dbVars, NothingFor, ItemsOf
<1>2. ASSUME NEW x \in open, CommitTx(x)
      PROVE  /\ x.in \in Inputs
             /\ NothingFor(b) \/ Opens(b, x.in) \/ Inserts(b, x.in) \/ ClosesRow(b, x.in)
  <2>1. x.in \in Inputs /\ Execute(x.in) /\ DBTypeOK
    BY <1>2 DEF WellTyped, TypeOK, Attempts, CommitTx
  <2> QED
    BY <2>1, ExecuteLog
<1> QED
  BY <1>1, <1>2, WhoWrites

\* AuditMirrorsItems for one bill.
Mirrors(b) ==
  LET log == billEvents[b] IN
  /\ RowExists(b) <=> log # <<>>
  /\ \A i \in DOMAIN log : (log[i].kind = "OPENED") <=> (i = 1)
  /\ {e.item : e \in {f \in EventsOf(b) : f.kind = "ITEM_ADDED"}} = ItemsOf(b)
  /\ \A i, j \in DOMAIN log : log[i].kind = "ITEM_ADDED" /\ log[j] = log[i] => i = j
  /\ \A i \in DOMAIN log : log[i].kind = "ITEM_ADDED" => log[i].actor = Owner[b]

\* A log that mirrors the tables does so after the event of one more change.
LEMMA MirrorsAppend ==
  ASSUME DBTypeOK, NEW b \in Bills, Mirrors(b), NEW e \in Events,
         billEvents'[b] = Append(billEvents[b], e), RowExists(b)',
         e.kind = "OPENED" <=> ~RowExists(b),
         e.kind = "ITEM_ADDED" =>
           /\ ItemsOf(b)' = ItemsOf(b) \cup {e.item} /\ e.item \notin ItemsOf(b)
           /\ e.actor = Owner[b],
         e.kind # "ITEM_ADDED" => ItemsOf(b)' = ItemsOf(b)
  PROVE  Mirrors(b)'
<1> DEFINE log == billEvents[b]
           new == billEvents'[b]
           n == Len(log)
<1>1. log \in Seq(Events)
  BY DEF DBTypeOK
<1>2. /\ n \in Nat /\ Len(new) = n + 1 /\ new # <<>>
      /\ DOMAIN log = 1 .. n /\ DOMAIN new = 1 .. n + 1
      /\ \A i \in 1 .. n : new[i] = log[i]
      /\ new[n + 1] = e
      /\ log = <<>> <=> n = 0
  BY <1>1, Appended
<1>3. /\ RowExists(b) <=> log # <<>>
      /\ \A i \in DOMAIN log : (log[i].kind = "OPENED") <=> (i = 1)
      /\ \A i, j \in DOMAIN log : log[i].kind = "ITEM_ADDED" /\ log[j] = log[i] => i = j
      /\ \A i \in DOMAIN log : log[i].kind = "ITEM_ADDED" => log[i].actor = Owner[b]
  BY DEF Mirrors
<1>4. {f.item : f \in {g \in EventsOf(b) : g.kind = "ITEM_ADDED"}} = ItemsOf(b)
  BY DEF Mirrors
<1>5. EventsOf(b) = {log[i] : i \in DOMAIN log} /\ EventsOf(b)' = {new[i] : i \in DOMAIN new}
  BY DEF EventsOf
<1> HIDE DEF log, new
<1>6. EventsOf(b)' = EventsOf(b) \cup {e}
  <2>1. \A i \in DOMAIN new : i \in DOMAIN log \/ i = n + 1
    BY <1>2
  <2>2. n + 1 \in DOMAIN new /\ \A i \in DOMAIN log : i \in DOMAIN new /\ new[i] = log[i]
    BY <1>2
  <2> QED
    BY <1>2, <1>5, <2>1, <2>2
<1> HIDE DEF n
<1>7. \A i \in DOMAIN new : (new[i].kind = "OPENED") <=> (i = 1)
  BY <1>2, <1>3
<1>8. {f.item : f \in {g \in EventsOf(b)' : g.kind = "ITEM_ADDED"}} = ItemsOf(b)'
  <2>1. CASE e.kind = "ITEM_ADDED"
    <3>1. {g \in EventsOf(b)' : g.kind = "ITEM_ADDED"}
            = {g \in EventsOf(b) : g.kind = "ITEM_ADDED"} \cup {e}
      BY <1>6, <2>1
    <3> QED
      BY <1>4, <2>1, <3>1
  <2>2. CASE e.kind # "ITEM_ADDED"
    <3>1. {g \in EventsOf(b)' : g.kind = "ITEM_ADDED"}
            = {g \in EventsOf(b) : g.kind = "ITEM_ADDED"}
      BY <1>6, <2>2
    <3> QED
      BY <1>4, <2>2, <3>1
  <2> QED
    BY <2>1, <2>2
<1>9. ASSUME e.kind = "ITEM_ADDED", NEW i \in DOMAIN log PROVE log[i] # e
  <2>1. log[i] \in EventsOf(b)
    BY <1>5
  <2>2. log[i] = e => e.item \in ItemsOf(b)
    BY <1>4, <1>9, <2>1
  <2> QED
    BY <1>9, <2>2
<1>10. ASSUME NEW i \in DOMAIN new, NEW j \in DOMAIN new,
              new[i].kind = "ITEM_ADDED", new[j] = new[i]
       PROVE  i = j
  <2>1. CASE i \in DOMAIN log /\ j \in DOMAIN log
    BY <1>2, <1>3, <1>10, <2>1
  <2>2. CASE i \in DOMAIN log /\ j \notin DOMAIN log
    <3>1. j = n + 1
      BY <1>2, <2>2
    <3> QED
      BY <1>2, <1>9, <1>10, <2>2, <3>1
  <2>3. CASE i \notin DOMAIN log /\ j \in DOMAIN log
    <3>1. i = n + 1
      BY <1>2, <2>3
    <3> QED
      BY <1>2, <1>9, <1>10, <2>3, <3>1
  <2>4. CASE i \notin DOMAIN log /\ j \notin DOMAIN log
    BY <1>2, <2>4
  <2> QED
    BY <2>1, <2>2, <2>3, <2>4
<1>11. \A i \in DOMAIN new : new[i].kind = "ITEM_ADDED" => new[i].actor = Owner[b]
  BY <1>2, <1>3
<1> QED
  BY <1>2, <1>7, <1>8, <1>10, <1>11 DEF Mirrors, new

\* Rows after a transaction.
LEMMA RowFields ==
  ASSUME NEW row \in Rows, NEW cur \in Currencies, NEW t \in Total, NEW reason
  PROVE  /\ OpenedRow(cur).status = "OPEN" /\ OpenedRow(cur).currency = cur
         /\ OpenedRow(cur).total = ZeroTotal
         /\ LET y == [row EXCEPT !.total = t] IN
            y.status = row.status /\ y.currency = row.currency /\ y.total = t
         /\ LET y == [row EXCEPT !.status = "CLOSED", !.total = t, !.reason = reason] IN
            y.status = "CLOSED" /\ y.currency = row.currency /\ y.total = t
BY DEF Rows, OpenedRow, NoRow

\* Every step keeps the log in line with the tables.
LEMMA AuditStep ==
  ASSUME WellTyped, TablesAgree, OriginsAgree, AuditMirrorsItems, [Next]_vars
  PROVE  AuditMirrorsItems'
<1> SUFFICES ASSUME NEW b \in Bills PROVE Mirrors(b)'
  BY DEF AuditMirrorsItems, Mirrors
<1>0. Mirrors(b) /\ DBTypeOK /\ bills[b] \in Rows
  BY DEF AuditMirrorsItems, Mirrors, WellTyped, TypeOK, DBTypeOK
<1>1. CASE NothingFor(b)
  BY <1>0, <1>1 DEF NothingFor, Mirrors, RowExists, EventsOf
<1>2. ASSUME NEW x \in open, Opens(b, x.in) PROVE Mirrors(b)'
  <2> DEFINE e == [kind |-> "OPENED", actor |-> Owner[b], currency |-> x.in.currency]
  <2>1. x.in.currency \in Currencies
    BY <1>2 DEF Opens, CreateInputs
  <2>2. e \in Events /\ e.kind = "OPENED"
    BY <2>1, DBAssumption DEF Events, Actors
  <2>3. RowExists(b)'
    BY <1>2, <2>1, TotalTypes, <1>0, RowFields DEF Opens, RowExists
  <2> HIDE DEF e
  <2>4. /\ billEvents'[b] = Append(billEvents[b], e) /\ ~RowExists(b)
        /\ ItemsOf(b)' = ItemsOf(b)
    BY <1>2 DEF Opens, e
  <2> QED
    BY <1>0, <2>2, <2>3, <2>4, MirrorsAppend
<1>3. ASSUME NEW x \in open, Inserts(b, x.in) PROVE Mirrors(b)'
  <2> DEFINE e == [kind |-> "ITEM_ADDED", actor |-> x.in.actor, item |-> LineItem(x.in)]
  <2>1. x.in \in AppendInputs /\ x.in.bill = b
    BY <1>3 DEF Inserts
  <2>2. x.in.actor = Owner[b]
    <3>1. PICK u \in Updates : Asked(u) /\ x.in = AppendInput(upd[u].in)
      BY <2>1 DEF OriginsAgree
    <3>2. x.in.actor = upd[u].in.caller /\ upd[u].in.bill = b
      BY <2>1, <3>1 DEF AppendInput
    <3> QED
      BY <3>1, <3>2 DEF Asked
  <2>3. LineItem(x.in) \in LineItems /\ Charge(x.in) \in Charges
    BY <2>1, ChargeTypes
  <2>4. /\ e \in Events /\ e.kind = "ITEM_ADDED" /\ e.actor = x.in.actor
        /\ e.item = LineItem(x.in)
    BY <2>1, <2>3 DEF Events, Actors, AppendInputs
  <2>5. RowExists(b)'
    <3>1. AddTo(bills[b].total, Charge(x.in)) \in Total
      BY <1>0, <2>3, TotalTypes DEF Rows
    <3>2. ASSUME NEW t \in Total PROVE [bills[b] EXCEPT !.total = t].status = bills[b].status
      BY <1>0 DEF Rows
    <3> QED
      BY <1>3, <3>1, <3>2 DEF Inserts, RowExists
  <2>6. e.item \notin ItemsOf(b)
    BY <1>3, <2>4, AppendInputItem DEF Inserts, HasItem, ItemsOf
  <2> HIDE DEF e
  <2>7. /\ billEvents'[b] = Append(billEvents[b], e) /\ RowExists(b)
        /\ ItemsOf(b)' = ItemsOf(b) \cup {e.item}
    BY <1>3, <2>4 DEF Inserts, e
  <2> QED
    BY <1>0, <2>2, <2>4, <2>5, <2>6, <2>7, MirrorsAppend
<1>4. ASSUME NEW x \in open, ClosesRow(b, x.in) PROVE Mirrors(b)'
  <2> DEFINE e == [kind |-> "CLOSED", actor |-> x.in.actor, total |-> x.in.total,
                   reason |-> x.in.reason]
  <2>1. e \in Events /\ e.kind = "CLOSED"
    BY <1>4 DEF ClosesRow, Events, CloseInputs
  <2>2. RowExists(b)'
    <3>1. x.in.total \in Total
      BY <1>4 DEF ClosesRow, CloseInputs
    <3>2. ASSUME NEW t \in Total, NEW r
          PROVE  [bills[b] EXCEPT !.status = "CLOSED", !.total = t, !.reason = r].status = "CLOSED"
      BY <1>0 DEF Rows
    <3> QED
      BY <1>4, <3>1, <3>2 DEF ClosesRow, RowExists
  <2> HIDE DEF e
  <2>3. /\ billEvents'[b] = Append(billEvents[b], e) /\ RowExists(b)
        /\ ItemsOf(b)' = ItemsOf(b)
    BY <1>4 DEF ClosesRow, e
  <2> QED
    BY <1>0, <2>1, <2>2, <2>3, MirrorsAppend
<1> QED
  BY <1>1, <1>2, <1>3, <1>4, TablesMove

\* Initially the logs and the tables are empty.
LEMMA AuditInit == Init => AuditMirrorsItems
<1> SUFFICES ASSUME Init, NEW b \in Bills PROVE Mirrors(b)
  BY DEF AuditMirrorsItems, Mirrors
<1>1. bills[b].status = "NONE" /\ billEvents[b] = <<>> /\ ItemsOf(b) = {}
  BY DEF Init, DBInit, NoRow, ItemsOf
<1>2. DOMAIN billEvents[b] = {} /\ EventsOf(b) = {}
  BY <1>1 DEF EventsOf
<1> QED
  BY <1>1, <1>2 DEF Mirrors, RowExists

\* The audit log mirrors the tables: one OPENED event, first, one ITEM_ADDED
\* event for every line item and no other, under the bill's owner, although
\* the transactions that write both may commit late, twice or not at all.
THEOREM AuditTheorem == Spec => []AuditMirrorsItems
BY WellTypedInit, WellTypedStep, TablesInit, TablesStep, OriginsInit, OriginsStep,
   AuditInit, AuditStep, PTL DEF Spec

-----------------------------------------------------------------------------
(* Birth, currency and attribution of a bill *)

\* A workflow that was never started runs nothing.
LEMMA Unborn ==
  ASSUME WellTyped, NEW b \in Bills, wf[b].phase \in {"none", "completed", "failed"}
  PROVE  act[b].st = "idle" /\ \A u \in Updates : ~RunningOn(u, b)
BY HandlerFacts DEF WellTyped, WellFormed, MainOK, RunningOn

\* What the row is after any step.
LEMMA RowMoves ==
  ASSUME WellTyped, [Next]_vars, NEW b \in Bills
  PROVE  \/ NothingFor(b)
         \/ \E x \in open : /\ CommitTx(x) /\ Opens(b, x.in)
                            /\ bills'[b].status = "OPEN" /\ bills'[b].currency = x.in.currency
                            /\ bills'[b].total = ZeroTotal
         \/ \E x \in open : /\ CommitTx(x) /\ Inserts(b, x.in)
                            /\ bills'[b].status = bills[b].status
                            /\ bills'[b].currency = bills[b].currency
                            /\ bills'[b].total = AddTo(bills[b].total, Charge(x.in))
         \/ \E x \in open : /\ CommitTx(x) /\ ClosesRow(b, x.in)
                            /\ bills'[b].status = "CLOSED"
                            /\ bills'[b].currency = bills[b].currency
                            /\ bills'[b].total = x.in.total
<1>0. bills[b] \in Rows
  BY DEF WellTyped, TypeOK, DBTypeOK
<1>1. ASSUME NEW in, Opens(b, in)
      PROVE  /\ bills'[b].status = "OPEN" /\ bills'[b].currency = in.currency
             /\ bills'[b].total = ZeroTotal
  BY <1>1 DEF Opens, OpenedRow, NoRow
<1>2. ASSUME NEW in, Inserts(b, in)
      PROVE  /\ bills'[b].status = bills[b].status
             /\ bills'[b].currency = bills[b].currency
             /\ bills'[b].total = AddTo(bills[b].total, Charge(in))
  <2>1. ASSUME NEW t
        PROVE  LET y == [bills[b] EXCEPT !.total = t] IN
               y.status = bills[b].status /\ y.currency = bills[b].currency /\ y.total = t
    BY <1>0 DEF Rows
  <2> QED
    BY <1>2, <2>1 DEF Inserts
<1>3. ASSUME NEW in, ClosesRow(b, in)
      PROVE  /\ bills'[b].status = "CLOSED" /\ bills'[b].currency = bills[b].currency
             /\ bills'[b].total = in.total
  BY <1>0, <1>3 DEF ClosesRow, Rows
<1> QED
  BY <1>1, <1>2, <1>3, TablesMove

\* Nothing happens to a bill before its first workflow is started.
LEMMA BirthStep ==
  ASSUME WellTyped, [Next]_vars, NEW b \in Bills, BirthInv(b)
  PROVE  BirthInv(b)'
<1>1. ASSUME starts'[b] = 0 PROVE ~RowExists(b)' /\ \A x \in open' : x.in.bill # b
  <2>1. starts[b] = 0
    <3>1. starts[b] \in Nat
      BY DEF WellTyped, TypeOK
    <3>2. starts[b] + 1 # 0
      BY <3>1
    <3> QED
      BY <1>1, <3>2, MovesStep DEF WorkflowMoves
  <2>2. wf[b].phase = "none"
    BY <2>1 DEF WellTyped, WellFormed, StartedOK
  <2>3. ~RowExists(b) /\ \A x \in open : x.in.bill # b
    BY <2>1 DEF BirthInv
  <2>4. ~RowExists(b)'
    BY <2>3, RowMoves DEF NothingFor, RowExists, Opens, Inserts, ClosesRow
  <2>5. ASSUME NEW x \in open', x.in.bill = b PROVE FALSE
    <3>1. x \notin open
      BY <2>3, <2>5
    <3>2. \A u \in Updates : upd[u].st = "running" => x.in # AppendInput(upd[u].in)
      BY <2>2, <2>5, Unborn, AppendInputItem DEF RunningOn
    <3> QED
      BY <2>2, <2>5, <3>1, <3>2, OpenOrigin, Unborn
  <2> QED
    BY <2>4, <2>5
<1>2. ~RowExists(b)' => bills'[b] = NoRow
  BY RowMoves DEF NothingFor, RowExists, BirthInv, Opens, Inserts, ClosesRow
<1> QED
  BY <1>1, <1>2 DEF BirthInv

\* A step for a bill with one workflow keeps the bill's currency.
LEMMA CurrencyStep ==
  ASSUME WellTyped, TablesAgree, [Next]_vars, NEW b \in Bills, BirthInv(b), CurrencyInv(b)
  PROVE  CurrencyInv(b)'
<1> SUFFICES ASSUME starts'[b] = 1
             PROVE  /\ RowExists(b)' => bills'[b].currency = wf'[b].currency
                    /\ \A u \in Updates : RunningOn(u, b)' => upd'[u].in.currency = wf'[b].currency
                    /\ act'[b].st # "idle" /\ act'[b].in \in CreateInputs =>
                         act'[b].in.currency = wf'[b].currency
                    /\ \A x \in open' : x.in.bill = b /\ x.in \notin CloseInputs =>
                         x.in.currency = wf'[b].currency
                    /\ \A li \in ItemsOf(b)' : li.currency = wf'[b].currency
  BY DEF CurrencyInv
<1>0. starts[b] \in Nat
  BY DEF WellTyped, TypeOK
<1>1. CASE starts[b] = 0
  <2>1. wf[b].phase = "none" /\ ~RowExists(b) /\ \A x \in open : x.in.bill # b
    BY <1>1 DEF WellTyped, WellFormed, StartedOK, BirthInv
  <2>2. act[b].st = "idle" /\ \A u \in Updates : ~RunningOn(u, b)
    BY <2>1, Unborn
  <2>3. ItemsOf(b) = {}
    BY <2>1 DEF TablesAgree, ItemsOf
  <2>4. act'[b] = act[b] /\ UNCHANGED <<bills, lineItems, billEvents, upd, open>>
    BY <1>1, MovesStep DEF WorkflowMoves
  <2> QED
    BY <2>1, <2>2, <2>3, <2>4 DEF RowExists, RunningOn, ItemsOf
<1>2. CASE starts[b] = 1
  <2>0. starts[b] + 1 # 1
    BY <1>2
  <2>1. wf'[b].currency = wf[b].currency
    BY <2>0, MovesStep DEF WorkflowMoves, ExecutionMoves
  <2>2. /\ RowExists(b) => bills[b].currency = wf[b].currency
        /\ \A u \in Updates : RunningOn(u, b) => upd[u].in.currency = wf[b].currency
        /\ act[b].st # "idle" /\ act[b].in \in CreateInputs =>
             act[b].in.currency = wf[b].currency
        /\ \A x \in open : x.in.bill = b /\ x.in \notin CloseInputs =>
             x.in.currency = wf[b].currency
        /\ \A li \in ItemsOf(b) : li.currency = wf[b].currency
    BY <1>2 DEF CurrencyInv
  <2>3. RowExists(b)' => bills'[b].currency = wf[b].currency
    <3>1. ASSUME NEW x \in open, Opens(b, x.in) PROVE x.in.currency = wf[b].currency
      BY <2>2, <3>1, KindsDiffer DEF Opens
    <3> QED
      BY <2>2, <3>1, RowMoves DEF NothingFor, RowExists, Inserts, ClosesRow
  <2>4. ASSUME NEW u \in Updates, RunningOn(u, b)' PROVE upd'[u].in.currency = wf[b].currency
    <3>1. CASE upd'[u] = upd[u]
      BY <2>2, <2>4, <3>1 DEF RunningOn
    <3>2. CASE upd'[u] # upd[u]
      <4>1. Validate(b, upd'[u].in) = "OK"
        BY <2>4, <3>2, CallStep DEF CallMoves, RunningOn
      <4> QED
        BY <4>1 DEF Validate
    <3> QED
      BY <3>1, <3>2
  <2>5. ASSUME act'[b].st # "idle", act'[b].in \in CreateInputs
        PROVE  act'[b].in.currency = wf[b].currency
    <3>1. act'[b].in # CloseInput(b, wf'[b])
      BY <2>5, KindsDiffer DEF CloseInput
    <3>2. CreateInput(b).currency = wf[b].currency
      BY DEF CreateInput
    <3> QED
      BY <2>2, <2>5, <3>1, <3>2, MovesStep DEF MainMoves
  <2>6. ASSUME NEW x \in open', x.in.bill = b, x.in \notin CloseInputs
        PROVE  x.in.currency = wf[b].currency
    <3>1. ASSUME NEW u \in Updates, upd[u].st = "running", x.in = AppendInput(upd[u].in)
          PROVE  x.in.currency = wf[b].currency
      BY <2>2, <2>6, <3>1 DEF AppendInput, RunningOn
    <3>2. ASSUME act[b].st # "idle", x.in = act[b].in PROVE x.in.currency = wf[b].currency
      BY <2>2, <2>6, <3>2 DEF WellTyped, WellFormed, MainOK
    <3> QED
      BY <2>2, <2>6, <3>1, <3>2, OpenOrigin
  <2>7. ASSUME NEW li \in ItemsOf(b)' PROVE li.currency = wf[b].currency
    <3>1. ASSUME NEW x \in open, Inserts(b, x.in)
          PROVE  LineItem(x.in).currency = wf[b].currency
      <4>1. x.in.bill = b /\ x.in \notin CloseInputs
        BY <3>1, KindsDiffer DEF Inserts
      <4> QED
        BY <2>2, <4>1 DEF LineItem
    <3>2. \/ ItemsOf(b)' = ItemsOf(b)
          \/ \E x \in open : Inserts(b, x.in) /\ ItemsOf(b)' = ItemsOf(b) \cup {LineItem(x.in)}
      BY TablesMove DEF NothingFor, Opens, Inserts, ClosesRow
    <3> QED
      BY <2>2, <2>7, <3>1, <3>2
  <2> QED
    BY <2>1, <2>3, <2>4, <2>5, <2>6, <2>7
<1>3. starts[b] = 0 \/ starts[b] = 1
  BY <1>0, MovesStep DEF WorkflowMoves
<1> QED
  BY <1>1, <1>2, <1>3

\* A close keeps its attribution.
LEMMA AttributedStays ==
  ASSUME WellTyped, [Next]_vars, NEW b \in Bills, NEW c, Attributed(b, c), starts[b] # 0
  PROVE  Attributed(b, c)'
<1>0. starts[b] \in Nat
  BY DEF WellTyped, TypeOK
<1>1. starts'[b] = 1 => starts'[b] = starts[b] /\ ExecutionMoves(b)
  BY <1>0, MovesStep DEF WorkflowMoves
<1> QED
  BY <1>1 DEF Attributed, ExecutionMoves

\* Every step keeps closes attributed, on their way and in the log.
LEMMA AttributionStep ==
  ASSUME Invariant, AuditMirrorsItems, [Next]_vars, NEW b \in Bills,
         BirthInv(b), AttributionInv(b)
  PROVE  AttributionInv(b)'
<1>0. WellTyped /\ FrozenStep /\ Mirrors(b)
  BY FrozenHolds DEF Invariant, AuditMirrorsItems, Mirrors
<1>1. ASSUME act[b].st # "idle" PROVE starts[b] # 0
  BY <1>0, <1>1, Unborn DEF WellTyped, WellFormed, StartedOK
<1>2. ASSUME NEW x \in open, x.in.bill = b PROVE starts[b] # 0
  BY <1>2 DEF BirthInv
<1>3. ASSUME NEW e \in EventsOf(b) PROVE starts[b] # 0
  <2>1. billEvents[b] # <<>>
    BY DEF EventsOf
  <2> QED
    BY <1>0, <2>1 DEF Mirrors, BirthInv
<1>4. ASSUME act'[b].st # "idle", act'[b].in \in CloseInputs PROVE Attributed(b, act[b].in)'
  <2>1. CASE act[b].st # "idle" /\ act'[b].in = act[b].in
    <3>1. PICK c : c = act[b].in
      OBVIOUS
    <3>2. Attributed(b, c)
      BY <1>4, <2>1, <3>1 DEF AttributionInv
    <3>3. Attributed(b, c)'
      BY <1>0, <1>1, <2>1, <3>2, AttributedStays
    <3> QED
      BY <2>1, <3>1, <3>3 DEF Attributed
  <2>2. CASE act'[b].in = CloseInput(b, wf'[b]) /\ wf'[b].phase = "closing"
    BY <2>2 DEF CloseInput, Attributed, EndPhases
  <2>3. act'[b].in # CreateInput(b)
    BY <1>4, KindsDiffer DEF CreateInput
  <2> QED
    BY <1>0, <1>4, <2>1, <2>2, <2>3, MovesStep DEF MainMoves
<1>5. ASSUME NEW x \in open', x.in \in CloseInputs, x.in.bill = b PROVE Attributed(b, x.in)'
  <2>1. CASE x \in open
    BY <1>0, <1>2, <1>5, <2>1, AttributedStays DEF AttributionInv
  <2>2. CASE x \notin open
    <3>1. \A u \in Updates : x.in # AppendInput(upd[u].in)
      BY <1>5, KindsDiffer, AppendInputItem
    <3>2. act[b].st # "idle" /\ x.in = act[b].in
      BY <1>0, <1>5, <2>2, <3>1, OpenOrigin
    <3>3. Attributed(b, x.in)
      BY <1>5, <3>2 DEF AttributionInv
    <3> QED
      BY <1>0, <1>1, <3>2, <3>3, AttributedStays
  <2> QED
    BY <2>1, <2>2
<1>6. ASSUME NEW e \in EventsOf(b), e.kind = "CLOSED"
      PROVE  /\ Attributed(b, e)' /\ bills'[b].status = "CLOSED"
             /\ Undisturbed(b)' => e.total = bills'[b].total
  <2>1. Attributed(b, e) /\ bills[b].status = "CLOSED"
    BY <1>6 DEF AttributionInv
  <2>2. Attributed(b, e)'
    BY <1>0, <1>3, <2>1, AttributedStays
  <2>3. bills'[b].status = "CLOSED"
    BY <1>0, <2>1, RowMoves DEF NothingFor, Opens, RowExists
  <2>4. ASSUME Undisturbed(b)' PROVE e.total = bills'[b].total
    <3>1. bills'[b] = bills[b]
      BY <1>0, <2>1, <2>4 DEF FrozenStep, Undisturbed
    <3>2. Undisturbed(b)
      BY <1>0, <2>4, StaysUndisturbed
    <3> QED
      BY <1>6, <3>1, <3>2 DEF AttributionInv
  <2> QED
    BY <2>2, <2>3, <2>4
<1>7. ASSUME NEW e \in EventsOf(b)', e \notin EventsOf(b), e.kind = "CLOSED"
      PROVE  Attributed(b, e)' /\ bills'[b].status = "CLOSED" /\ e.total = bills'[b].total
  <2>0. billEvents[b] \in Seq(Events) /\ DBTypeOK
    BY <1>0 DEF WellTyped, TypeOK, DBTypeOK
  <2>1. ASSUME NEW f \in Events, billEvents'[b] = Append(billEvents[b], f) PROVE e = f
    <3> DEFINE log == billEvents[b]
               new == billEvents'[b]
    <3>1. /\ Len(log) \in Nat /\ DOMAIN log = 1 .. Len(log) /\ DOMAIN new = 1 .. Len(log) + 1
          /\ \A i \in 1 .. Len(log) : new[i] = log[i]
          /\ new[Len(log) + 1] = f
      BY <2>0, <2>1, Appended
    <3>2. PICK i \in DOMAIN new : e = new[i]
      BY DEF EventsOf
    <3>3. i \notin DOMAIN log
      BY <1>7, <3>1, <3>2 DEF EventsOf
    <3>4. i = Len(log) + 1
      BY <3>1, <3>3
    <3> QED
      BY <3>1, <3>2, <3>4
  <2>2. ~NothingFor(b)
    BY <1>7 DEF NothingFor, EventsOf
  <2>3. ASSUME NEW x \in open, Opens(b, x.in) PROVE FALSE
    <3> DEFINE f == [kind |-> "OPENED", actor |-> Owner[b], currency |-> x.in.currency]
    <3>1. f \in Events /\ f.kind = "OPENED"
      BY <2>3, DBAssumption DEF Opens, CreateInputs, Events, Actors
    <3>2. billEvents'[b] = Append(billEvents[b], f)
      BY <2>3 DEF Opens
    <3> HIDE DEF f
    <3> QED
      BY <1>7, <2>1, <3>1, <3>2
  <2>4. ASSUME NEW x \in open, Inserts(b, x.in) PROVE FALSE
    <3> DEFINE f == [kind |-> "ITEM_ADDED", actor |-> x.in.actor, item |-> LineItem(x.in)]
    <3>1. x.in \in AppendInputs /\ LineItem(x.in) \in LineItems
      BY <2>4, ChargeTypes DEF Inserts
    <3>2. f \in Events /\ f.kind = "ITEM_ADDED"
      BY <3>1 DEF AppendInputs, Events, Actors
    <3>3. billEvents'[b] = Append(billEvents[b], f)
      BY <2>4 DEF Inserts
    <3> HIDE DEF f
    <3> QED
      BY <1>7, <2>1, <3>2, <3>3
  <2>5. ASSUME NEW x \in open, CommitTx(x), ClosesRow(b, x.in),
               bills'[b].status = "CLOSED", bills'[b].total = x.in.total
        PROVE  Attributed(b, e)' /\ bills'[b].status = "CLOSED" /\ e.total = bills'[b].total
    <3> DEFINE f == [kind |-> "CLOSED", actor |-> x.in.actor, total |-> x.in.total,
                     reason |-> x.in.reason]
    <3>1. x.in \in CloseInputs /\ x.in.bill = b
      BY <2>5 DEF ClosesRow
    <3>2. /\ f \in Events /\ f.actor = x.in.actor /\ f.total = x.in.total
          /\ f.reason = x.in.reason
      BY <3>1 DEF CloseInputs, Events
    <3>3. billEvents'[b] = Append(billEvents[b], f)
      BY <2>5 DEF ClosesRow
    <3> HIDE DEF f
    <3>4. e = f
      BY <2>1, <3>2, <3>3
    <3>5. Attributed(b, x.in)'
      BY <1>0, <1>2, <3>1, AttributedStays DEF AttributionInv
    <3>6. Attributed(b, e)'
      BY <3>2, <3>4, <3>5 DEF Attributed
    <3> QED
      BY <2>5, <3>2, <3>4, <3>6
  <2> QED
    BY <1>0, <2>2, <2>3, <2>4, <2>5, RowMoves
<1> QED
  BY <1>4, <1>5, <1>6, <1>7 DEF AttributionInv

\* Every bill's part of the invariant.
LEMMA LogsInit == Init => LogsAgree
<1> SUFFICES ASSUME Init, NEW b \in Bills
             PROVE  BirthInv(b) /\ CurrencyInv(b) /\ AttributionInv(b)
  BY AuditInit DEF LogsAgree
<1>1. /\ bills[b] = NoRow /\ bills[b].status = "NONE" /\ billEvents[b] = <<>>
      /\ starts[b] = 0 /\ open = {} /\ act[b].st = "idle"
  BY NoTaskType DEF Init, DBInit, NoRow, Tasks
<1>2. EventsOf(b) = {}
  BY <1>1 DEF EventsOf
<1> QED
  BY <1>1, <1>2 DEF BirthInv, CurrencyInv, AttributionInv, RowExists

\* The parts about the logs are inductive together.
LEMMA LogsStep ==
  ASSUME Invariant, OriginsAgree, LogsAgree, [Next]_vars
  PROVE  LogsAgree'
<1>1. AuditMirrorsItems'
  BY AuditStep DEF LogsAgree, Invariant
<1>2. ASSUME NEW b \in Bills PROVE BirthInv(b)' /\ CurrencyInv(b)' /\ AttributionInv(b)'
  BY BirthStep, CurrencyStep, AttributionStep DEF LogsAgree, Invariant
<1> QED
  BY <1>1, <1>2 DEF LogsAgree

\* The logs agree in every reachable state.
LEMMA LogsHold == Spec => []LogsAgree
BY InvariantHolds, OriginsHold, LogsInit, LogsStep, PTL DEF Spec

\* The inductive invariant itself: who waits for what, the agreement of the
\* tables, of the counts of undisturbed bills, of the acknowledgements and of
\* the logs, and where everything that is written comes from.
THEOREM InductiveInvariant == Spec => []IInv
<1>1. Invariant /\ AcksAgree /\ OriginsAgree /\ LogsAgree => IInv
  BY DEF Invariant, WellTyped, IInv
<1> QED
  BY <1>1, InvariantHolds, AcksHold, OriginsHold, LogsHold, PTL

\* As long as CreateBill has started one workflow for a bill, all its items
\* are in the currency of its row and of its workflow, because the validator
\* of the update compares the currencies and every attempt keeps its input.
THEOREM CurrencyTheorem == Spec => []OneCurrency
<1>1. IInv => OneCurrency
  <2> SUFFICES ASSUME IInv, NEW b \in Bills, starts[b] <= 1, NEW li \in ItemsOf(b)
               PROVE  li.currency = bills[b].currency /\ li.currency = wf[b].currency
    BY DEF OneCurrency
  <2>1. starts[b] \in Nat
    BY DEF IInv, TypeOK
  <2>2. RowExists(b)
    BY DEF IInv, TablesAgree, ItemsOf
  <2>3. starts[b] # 0
    BY <2>2 DEF IInv, LogsAgree, BirthInv
  <2>4. starts[b] = 1
    BY <2>1, <2>3
  <2> QED
    BY <2>2, <2>4 DEF IInv, LogsAgree, CurrencyInv
<1> QED
  BY <1>1, InductiveInvariant, PTL

\* The log attributes every close to the owner if and only if the owner's
\* signal caused it, gives the reason the workflow closed for, and all closes
\* of an undisturbed bill say the same total, that of the row.
THEOREM AttributionTheorem == Spec => []CloseAttribution
<1>1. IInv => CloseAttribution
  <2> SUFFICES ASSUME IInv, NEW b \in Bills, NEW i \in DOMAIN billEvents[b],
                      billEvents[b][i].kind = "CLOSED"
               PROVE  LET e == billEvents[b][i] IN
                      /\ e.actor = IF e.reason = "SIGNAL" THEN Owner[b] ELSE SystemActor
                      /\ starts[b] = 1 =>
                           /\ wf[b].phase \in {"closing", "completed", "failed"}
                           /\ e.reason = wf[b].reason
                      /\ Undisturbed(b) => e.total = bills[b].total
    BY DEF CloseAttribution
  <2>1. PICK e : e = billEvents[b][i]
    OBVIOUS
  <2>2. e \in EventsOf(b) /\ e.kind = "CLOSED"
    BY <2>1 DEF EventsOf
  <2>3. Attributed(b, e) /\ (Undisturbed(b) => e.total = bills[b].total)
    BY <2>2 DEF IInv, LogsAgree, AttributionInv
  <2> QED
    BY <2>1, <2>3 DEF Attributed, EndPhases
<1> QED
  BY <1>1, InductiveInvariant, PTL

-----------------------------------------------------------------------------
(* Replaying the log.  That a recursive function exists needs an induction   *)
(* over the log; here the induction is over the steps that wrote it.         *)

IsReplay(f, log) ==
  f = [n \in 0 .. Len(log) |-> IF n = 0 THEN NoRow ELSE ReplayEvent(f[n - 1], log[n])]

\* Replay, with its recursive function spelled out.
LEMMA ReplayMeans ==
  ASSUME NEW log
  PROVE  Replay(log) = (CHOOSE f : IsReplay(f, log))[Len(log)]
BY DEF Replay, IsReplay

\* The log has one replay, which ends in the row.
ReplaysTo(log, row) ==
  \E f : /\ IsReplay(f, log) /\ f[Len(log)] = row
         /\ \A g : IsReplay(g, log) => g = f

\* One more event takes a replay one row further.
LEMMA ReplayAppend ==
  ASSUME NEW S, NEW log \in Seq(S), NEW e \in S, NEW row, ReplaysTo(log, row)
  PROVE  ReplaysTo(Append(log, e), ReplayEvent(row, e))
<1>1. PICK f : /\ IsReplay(f, log) /\ f[Len(log)] = row
               /\ \A g : IsReplay(g, log) => g = f
  BY DEF ReplaysTo
<1>2. PICK new : new = Append(log, e)
  OBVIOUS
<1>3. PICK m : m = Len(log)
  OBVIOUS
<1>4. /\ m \in Nat /\ Len(new) = m + 1
      /\ \A i \in 1 .. m : new[i] = log[i]
      /\ new[m + 1] = e
  BY <1>2, <1>3, Appended
<1> DEFINE last == ReplayEvent(row, e)
           h == [n \in 0 .. m + 1 |-> IF n <= m THEN f[n] ELSE last]
<1>5. \A n \in 0 .. m : f[n] = IF n = 0 THEN NoRow ELSE ReplayEvent(f[n - 1], log[n])
  BY <1>1, <1>3 DEF IsReplay
<1>6. f[m] = row
  BY <1>1, <1>3
<1> HIDE DEF last
<1>7. IsReplay(h, new)
  <2>1. ASSUME NEW n \in 0 .. m + 1
        PROVE  h[n] = IF n = 0 THEN NoRow ELSE ReplayEvent(h[n - 1], new[n])
    <3>1. CASE n = 0
      BY <1>4, <1>5, <3>1
    <3>2. CASE n \in 1 .. m
      <4>1. h[n] = f[n] /\ h[n - 1] = f[n - 1] /\ new[n] = log[n] /\ n # 0 /\ n \in 0 .. m
        BY <1>4, <3>2
      <4> QED
        BY <1>5, <4>1
    <3>3. CASE n = m + 1
      <4>1. h[n] = last /\ h[n - 1] = f[m] /\ new[n] = e /\ n # 0
        BY <1>4, <3>3
      <4> QED
        BY <1>6, <4>1 DEF last
    <3> QED
      BY <1>4, <3>1, <3>2, <3>3
  <2> QED
    BY <1>4, <2>1 DEF IsReplay
<1>8. h[m + 1] = last
  BY <1>4
<1>9. ASSUME NEW g, IsReplay(g, new) PROVE g = h
  <2>1. /\ g = [n \in 0 .. m + 1 |-> g[n]]
        /\ \A n \in 0 .. m + 1 : g[n] = IF n = 0 THEN NoRow ELSE ReplayEvent(g[n - 1], new[n])
    BY <1>4, <1>9 DEF IsReplay
  <2> DEFINE k == [n \in 0 .. m |-> g[n]]
  <2>2. IsReplay(k, log)
    <3>1. ASSUME NEW n \in 0 .. m
          PROVE  k[n] = IF n = 0 THEN NoRow ELSE ReplayEvent(k[n - 1], log[n])
      <4>1. CASE n = 0
        BY <1>4, <2>1, <4>1
      <4>2. CASE n \in 1 .. m
        <5>1. k[n] = g[n] /\ k[n - 1] = g[n - 1] /\ new[n] = log[n] /\ n # 0 /\ n \in 0 .. m + 1
          BY <1>4, <4>2
        <5> QED
          BY <2>1, <5>1
      <4> QED
        BY <1>4, <4>1, <4>2
    <3> QED
      BY <1>3, <3>1 DEF IsReplay
  <2>3. k = f
    BY <1>1, <2>2
  <2>4. \A n \in 0 .. m : g[n] = f[n]
    BY <2>3
  <2>5. g[m + 1] = last
    <3>1. PICK n \in 0 .. m + 1 : n = m + 1 /\ n # 0 /\ n - 1 = m /\ m \in 0 .. m
      BY <1>4
    <3>2. g[n] = IF n = 0 THEN NoRow ELSE ReplayEvent(g[n - 1], new[n])
      BY <2>1
    <3>3. g[n] = ReplayEvent(g[m], e)
      BY <1>4, <3>1, <3>2
    <3> QED
      BY <1>6, <2>4, <3>1, <3>3 DEF last
  <2>6. ASSUME NEW n \in 0 .. m + 1 PROVE g[n] = h[n]
    <3>1. CASE n \in 0 .. m
      BY <1>4, <2>4, <3>1
    <3>2. CASE n = m + 1
      BY <1>8, <2>5, <3>2
    <3> QED
      BY <1>4, <3>1, <3>2
  <2> QED
    BY <2>1, <2>6
<1> HIDE DEF h
<1> QED
  BY <1>2, <1>4, <1>7, <1>8, <1>9 DEF ReplaysTo, last

\* A log with one replay is the one Replay finds.
LEMMA ReplayFound ==
  ASSUME NEW log, NEW row, ReplaysTo(log, row)
  PROVE  Replay(log) = row
<1>1. PICK f : /\ IsReplay(f, log) /\ f[Len(log)] = row
               /\ \A g : IsReplay(g, log) => g = f
  BY DEF ReplaysTo
<1>2. (CHOOSE g : IsReplay(g, log)) = f
  BY <1>1
<1> QED
  BY <1>1, <1>2, ReplayMeans

ReplayInv == \A b \in Bills : ReplaysTo(billEvents[b], bills[b])

\* The empty log replays to the absent row.
LEMMA ReplayInit == Init => ReplayInv
<1> SUFFICES ASSUME Init, NEW b \in Bills PROVE ReplaysTo(<<>>, NoRow)
  BY DEF Init, DBInit, ReplayInv
<1> DEFINE f == [n \in 0 .. 0 |-> NoRow]
<1>1. Len(<<>>) = 0 /\ 0 .. 0 = {0}
  OBVIOUS
<1>2. IsReplay(f, <<>>)
  BY <1>1 DEF IsReplay
<1>3. f[0] = NoRow
  OBVIOUS
<1>4. ASSUME NEW g, IsReplay(g, <<>>) PROVE g = f
  BY <1>1, <1>4 DEF IsReplay
<1> HIDE DEF f
<1> QED
  BY <1>1, <1>2, <1>3, <1>4 DEF ReplaysTo

\* Whatever a transaction writes to a row, its event replays.
LEMMA ReplayStep ==
  ASSUME WellTyped, ReplayInv, [Next]_vars
  PROVE  ReplayInv'
<1> SUFFICES ASSUME NEW b \in Bills PROVE ReplaysTo(billEvents'[b], bills'[b])
  BY DEF ReplayInv, ReplaysTo, IsReplay, ReplayEvent, NoRow, ZeroTotal, Charges
<1>0. billEvents[b] \in Seq(Events) /\ bills[b] \in Rows /\ ReplaysTo(billEvents[b], bills[b])
  BY DEF WellTyped, TypeOK, DBTypeOK, ReplayInv
<1>1. CASE NothingFor(b)
  BY <1>0, <1>1 DEF NothingFor
<1>2. ASSUME NEW e \in Events, billEvents'[b] = Append(billEvents[b], e),
             bills'[b] = ReplayEvent(bills[b], e)
      PROVE  ReplaysTo(billEvents'[b], bills'[b])
  BY <1>0, <1>2, ReplayAppend
<1>3. ASSUME NEW x \in open, Opens(b, x.in) PROVE ReplaysTo(billEvents'[b], bills'[b])
  <2> DEFINE e == [kind |-> "OPENED", actor |-> Owner[b], currency |-> x.in.currency]
  <2>1. e \in Events /\ e.kind = "OPENED" /\ e.currency = x.in.currency
    BY <1>3, DBAssumption DEF Opens, CreateInputs, Events, Actors
  <2>2. billEvents'[b] = Append(billEvents[b], e) /\ bills'[b] = OpenedRow(x.in.currency)
    BY <1>3 DEF Opens
  <2> HIDE DEF e
  <2>3. ReplayEvent(bills[b], e) = OpenedRow(x.in.currency)
    BY <2>1 DEF ReplayEvent, OpenedRow
  <2> QED
    BY <1>2, <2>1, <2>2, <2>3
<1>4. ASSUME NEW x \in open, Inserts(b, x.in) PROVE ReplaysTo(billEvents'[b], bills'[b])
  <2> DEFINE e == [kind |-> "ITEM_ADDED", actor |-> x.in.actor, item |-> LineItem(x.in)]
  <2>1. x.in \in AppendInputs /\ LineItem(x.in) \in LineItems
    BY <1>4, ChargeTypes DEF Inserts
  <2>2. e \in Events /\ e.kind = "ITEM_ADDED" /\ e.item = LineItem(x.in)
    BY <2>1 DEF AppendInputs, Events, Actors
  <2>3. /\ billEvents'[b] = Append(billEvents[b], e)
        /\ bills'[b] = [bills[b] EXCEPT !.total = AddTo(@, Charge(x.in))]
    BY <1>4 DEF Inserts
  <2> HIDE DEF e
  <2>4. Charge(LineItem(x.in)) = Charge(x.in)
    BY DEF Charge, LineItem
  <2>5. ReplayEvent(bills[b], e) = [bills[b] EXCEPT !.total = AddTo(@, Charge(x.in))]
    BY <2>2, <2>4 DEF ReplayEvent
  <2> QED
    BY <1>2, <2>2, <2>3, <2>5
<1>5. ASSUME NEW x \in open, ClosesRow(b, x.in) PROVE ReplaysTo(billEvents'[b], bills'[b])
  <2> DEFINE e == [kind |-> "CLOSED", actor |-> x.in.actor, total |-> x.in.total,
                   reason |-> x.in.reason]
  <2>1. /\ e \in Events /\ e.kind = "CLOSED" /\ e.total = x.in.total
        /\ e.reason = x.in.reason
    BY <1>5 DEF ClosesRow, CloseInputs, Events
  <2>2. /\ billEvents'[b] = Append(billEvents[b], e)
        /\ bills'[b] = [bills[b] EXCEPT !.status = "CLOSED", !.total = x.in.total,
                                        !.reason = x.in.reason]
    BY <1>5 DEF ClosesRow
  <2> HIDE DEF e
  <2>3. ReplayEvent(bills[b], e) = [bills[b] EXCEPT !.status = "CLOSED", !.total = x.in.total,
                                                    !.reason = x.in.reason]
    BY <2>1 DEF ReplayEvent
  <2> QED
    BY <1>2, <2>1, <2>2, <2>3
<1> QED
  BY <1>1, <1>3, <1>4, <1>5, TablesMove

\* Replaying a bill's log from nothing gives its row: no state change is
\* missing from the log, in whatever order transactions commit.
THEOREM ReplayTheorem == Spec => []LogReplaysToRow
<1>1. ReplayInv => LogReplaysToRow
  BY ReplayFound DEF ReplayInv, LogReplaysToRow
<1> QED
  BY <1>1, WellTypedInit, WellTypedStep, ReplayInit, ReplayStep, PTL DEF Spec


-----------------------------------------------------------------------------
(* Steps of the ledger, by what they do to the mapped entries and calls *)

\* The entries of the bills in S, or the calls in S, do not change.
Same(S) == \A b \in S : LedgerEntry(b)' = LedgerEntry(b)

SameCalls(S) == \A u \in S : LedgerCall(u)' = LedgerCall(u)

\* Calls and entries of the ledger by their fields.
MappedCall(st, b, c) == [st |-> st, bill |-> b, charge |-> c]

MappedEntry(s, cs, t) == [status |-> s, charges |-> cs, total |-> t]

\* Nothing changes.
LEMMA MapStutter ==
  ASSUME Same(Bills), SameCalls(Updates)
  PROVE  UNCHANGED Ledger!vars
BY DEF Same, SameCalls, Ledger!vars

\* An absent bill becomes an open one.
LEMMA MapOpen ==
  ASSUME NEW b \in Bills, LedgerEntry(b).status = "NONE",
         LedgerEntry(b)' = [LedgerEntry(b) EXCEPT !.status = "OPEN"],
         Same(Bills \ {b}), SameCalls(Updates)
  PROVE  Ledger!Open(b)
BY DEF Same, SameCalls, Ledger!Open

\* An open bill without an undecided call becomes a closed one.
LEMMA MapClose ==
  ASSUME NEW b \in Bills, LedgerEntry(b).status = "OPEN",
         LedgerEntry(b)' = [LedgerEntry(b) EXCEPT !.status = "CLOSED"],
         Same(Bills \ {b}), SameCalls(Updates),
         \A u \in Updates : LedgerCall(u) # [st |-> "idle"] /\ LedgerCall(u).bill = b =>
           LedgerCall(u).st \in {"acked", "refused"}
  PROVE  Ledger!Close(b)
BY DEF Same, SameCalls, Ledger!Close, Ledger!IsOn, Ledger!Idle

\* A new call is accepted, refused, acknowledged or void.
LEMMA MapAsk ==
  ASSUME NEW u \in Updates, NEW b \in Bills, NEW c \in Charges,
         NEW st \in {"asked", "refused", "acked", "void"},
         LedgerCall(u) = [st |-> "idle"], LedgerCall(u)' = MappedCall(st, b, c),
         st = "void" <=> LedgerEntry(b) = Ledger!Forsaken,
         st = "acked" => \E d \in LedgerEntry(b).charges : d.id = c.id,
         Same(Bills), SameCalls(Updates \ {u})
  PROVE  Ledger!Ask(u, b, c)
BY DEF Same, SameCalls, Ledger!Ask, Ledger!Idle, Ledger!OnBill, Ledger!Call, MappedCall

\* A call whose charge is on the bill is acknowledged.
LEMMA MapAcknowledge ==
  ASSUME NEW u \in Updates, LedgerCall(u).st = "added",
         LedgerCall(u)' = [LedgerCall(u) EXCEPT !.st = "acked"],
         Same(Bills), SameCalls(Updates \ {u})
  PROVE  Ledger!Acknowledge(u)
BY DEF Same, SameCalls, Ledger!Acknowledge

\* A call whose charge is not on the bill is refused.
LEMMA MapRefuse ==
  ASSUME NEW u \in Updates, LedgerCall(u).st = "asked",
         LedgerCall(u)' = [LedgerCall(u) EXCEPT !.st = "refused"],
         Same(Bills), SameCalls(Updates \ {u})
  PROVE  Ledger!Refuse(u)
BY DEF Same, SameCalls, Ledger!Refuse

\* Updates of an entry, field by field.
LEMMA EntryFields ==
  ASSUME NEW s, NEW cs, NEW t
  PROVE  /\ \A n : [MappedEntry(s, cs, t) EXCEPT !.status = n] = MappedEntry(n, cs, t)
         /\ \A a : [MappedEntry(s, cs, t) EXCEPT !.charges = a] = MappedEntry(s, a, t)
         /\ \A b : [MappedEntry(s, cs, t) EXCEPT !.total = b] = MappedEntry(s, cs, b)
<1> DEFINE Z(n, a, b) ==
             [i \in {"status", "charges", "total"} |->
                IF i = "status" THEN n ELSE IF i = "charges" THEN a ELSE b]
<1>1. \A n, a, b : MappedEntry(n, a, b) = Z(n, a, b)
  BY DEF MappedEntry
<1>2. ASSUME NEW n PROVE [MappedEntry(s, cs, t) EXCEPT !.status = n] = Z(n, cs, t)
  BY DEF MappedEntry
<1>3. ASSUME NEW a PROVE [MappedEntry(s, cs, t) EXCEPT !.charges = a] = Z(s, a, t)
  BY DEF MappedEntry
<1>4. ASSUME NEW b PROVE [MappedEntry(s, cs, t) EXCEPT !.total = b] = Z(s, cs, b)
  BY DEF MappedEntry
<1> HIDE DEF Z
<1> QED
  BY <1>1, <1>2, <1>3, <1>4

\* The charge of an accepted call gets on an open bill.
LEMMA MapAdd ==
  ASSUME NEW u \in Updates, NEW b \in Bills, NEW c, LedgerCall(u) = MappedCall("asked", b, c),
         NEW cs, NEW t, LedgerEntry(b) = MappedEntry("OPEN", cs, t), \A d \in cs : d.id # c.id,
         LedgerEntry(b)' = MappedEntry("OPEN", cs \cup {c}, [t EXCEPT ![c] = @ + 1]),
         LedgerCall(u)' = MappedCall("added", b, c),
         Same(Bills \ {b}), SameCalls(Updates \ {u})
  PROVE  Ledger!Add(u)
<1>1. /\ LedgerCall(u).st = "asked" /\ LedgerCall(u).bill = b /\ LedgerCall(u).charge = c
      /\ [LedgerCall(u) EXCEPT !.st = "added"] = MappedCall("added", b, c)
  BY DEF MappedCall
<1>2. LedgerEntry(b)' = [LedgerEntry(b) EXCEPT !.charges = @ \cup {c}, !.total[c] = @ + 1]
  <2> DEFINE e == LedgerEntry(b)
             m == e.charges \cup {c}
             n == [e.total EXCEPT ![c] = @ + 1]
  <2>1. [e EXCEPT !.charges = @ \cup {c}, !.total[c] = @ + 1]
          = [e EXCEPT !.charges = m, !.total = n]
    OBVIOUS
  <2>2. m = cs \cup {c} /\ n = [t EXCEPT ![c] = @ + 1]
    BY DEF MappedEntry
  <2> HIDE DEF m, n
  <2>3. [e EXCEPT !.charges = m, !.total = n] = [[e EXCEPT !.charges = m] EXCEPT !.total = n]
    OBVIOUS
  <2>4. [e EXCEPT !.charges = m] = MappedEntry("OPEN", m, t)
    BY EntryFields
  <2>5. [MappedEntry("OPEN", m, t) EXCEPT !.total = n] = MappedEntry("OPEN", m, n)
    BY EntryFields
  <2> QED
    BY <2>1, <2>2, <2>3, <2>4, <2>5
<1>3. LedgerEntry(b).status = "OPEN" /\ LedgerEntry(b).charges = cs
  BY DEF MappedEntry
<1> QED
  BY <1>1, <1>2, <1>3 DEF Same, SameCalls, Ledger!Add, Ledger!OnBill

\* The promise to a bill is given up, and its calls become void.
LEMMA MapForsake ==
  ASSUME NEW b \in Bills, LedgerEntry(b) # Ledger!Forsaken,
         LedgerEntry(b)' = Ledger!Forsaken, Same(Bills \ {b}),
         \A u \in Updates :
           IF LedgerCall(u) # [st |-> "idle"] /\ LedgerCall(u).bill = b
           THEN LedgerCall(u)' = [LedgerCall(u) EXCEPT !.st = "void"]
           ELSE LedgerCall(u)' = LedgerCall(u)
  PROVE  Ledger!Forsake(b)
BY DEF Same, Ledger!Forsake, Ledger!IsOn, Ledger!Idle, Ledger!Forsaken, Ledger!Entry

\* The same because of a new call v.
LEMMA MapForsakeBy ==
  ASSUME NEW b \in Bills, LedgerEntry(b) # Ledger!Forsaken,
         LedgerEntry(b)' = Ledger!Forsaken, Same(Bills \ {b}),
         NEW v \in Updates, NEW c \in Charges,
         LedgerCall(v) = [st |-> "idle"], LedgerCall(v)' = MappedCall("void", b, c),
         \A u \in Updates \ {v} :
           IF LedgerCall(u) # [st |-> "idle"] /\ LedgerCall(u).bill = b
           THEN LedgerCall(u)' = [LedgerCall(u) EXCEPT !.st = "void"]
           ELSE LedgerCall(u)' = LedgerCall(u)
  PROVE  Ledger!Forsake(b)
BY DEF Same, Ledger!Forsake, Ledger!IsOn, Ledger!Idle, Ledger!Forsaken, Ledger!Entry,
       Ledger!Call, MappedCall

-----------------------------------------------------------------------------
(* Entries and calls *)

\* What the entry of a bill says.
LEMMA EntryMeans ==
  ASSUME WellTyped, NEW b \in Bills
  PROVE  /\ Undisturbed(b) =>
              /\ LedgerEntry(b) # Ledger!Forsaken
              /\ LedgerEntry(b).status = bills[b].status
              /\ LedgerEntry(b).charges = {Charge(li) : li \in ItemsOf(b)}
              /\ LedgerEntry(b).total = bills[b].total
         /\ ~Undisturbed(b) => LedgerEntry(b) = Ledger!Forsaken
<1>1. bills[b].status \in {"NONE", "OPEN", "CLOSED"}
  BY DEF WellTyped, TypeOK, DBTypeOK, Rows
<1>2. Ledger!Forsaken = [status |-> "FORSAKEN", charges |-> {}, total |-> ZeroTotal]
  BY DEF Ledger!Forsaken, Ledger!Entry, ZeroTotal
<1>3. ASSUME NEW s, NEW c, NEW t
      PROVE  LET y == [status |-> s, charges |-> c, total |-> t] IN
             y.status = s /\ y.charges = c /\ y.total = t
  OBVIOUS
<1>4. Ledger!Forsaken.status = "FORSAKEN"
  BY <1>2
<1> QED
  BY <1>1, <1>2, <1>3, <1>4 DEF LedgerEntry

\* The entry of a bill that nothing happens to.
LEMMA EntryFrame ==
  ASSUME NEW b \in Bills, NothingFor(b), Undisturbed(b)' <=> Undisturbed(b)
  PROVE  LedgerEntry(b)' = LedgerEntry(b)
BY DEF NothingFor, LedgerEntry, ZeroTotal, Charges, Charge

\* How far a call may have got.
LEMMA CallStates ==
  ASSUME NEW u \in Updates
  PROVE  CallState(u) \in {"void", "added", "asked", "acked", "refused"}
BY DEF CallState

\* What a mapped call says.
LEMMA CallMeans ==
  ASSUME WellTyped, NEW u \in Updates
  PROVE  /\ upd[u].st = "idle" <=> LedgerCall(u) = [st |-> "idle"]
         /\ upd[u].st # "idle" =>
              /\ LedgerCall(u) = MappedCall(CallState(u), upd[u].in.bill, Charge(upd[u].in))
              /\ LedgerCall(u).st = CallState(u)
              /\ LedgerCall(u).bill = upd[u].in.bill
              /\ \A st : [LedgerCall(u) EXCEPT !.st = st]
                           = MappedCall(st, upd[u].in.bill, Charge(upd[u].in))
<1>1. ASSUME NEW s, NEW b, NEW c
      PROVE  /\ MappedCall(s, b, c).st = s /\ MappedCall(s, b, c).bill = b
             /\ \A st : [MappedCall(s, b, c) EXCEPT !.st = st] = MappedCall(st, b, c)
  BY DEF MappedCall
<1>2. [st |-> "idle"].st = "idle"
  OBVIOUS
<1>3. CallState(u) # "idle"
  BY CallStates
<1>4. upd[u].st # "idle" =>
        LedgerCall(u) = MappedCall(CallState(u), upd[u].in.bill, Charge(upd[u].in))
  BY DEF LedgerCall, MappedCall
<1>5. upd[u].st = "idle" => LedgerCall(u) = [st |-> "idle"]
  BY DEF LedgerCall
<1>6. upd[u].st # "idle" => LedgerCall(u) # [st |-> "idle"]
  BY <1>1, <1>2, <1>3, <1>4
<1> QED
  BY <1>1, <1>4, <1>5, <1>6

\* How far a call on an undisturbed bill got.
LEMMA StateMeans ==
  ASSUME WellTyped, NEW u \in Updates, upd[u].st # "idle"
  PROVE  /\ ~Undisturbed(upd[u].in.bill) => CallState(u) = "void"
         /\ Undisturbed(upd[u].in.bill) =>
              /\ upd[u].st = "running" /\ LineItem(upd[u].in) \in lineItems => CallState(u) = "added"
              /\ upd[u].st = "running" /\ LineItem(upd[u].in) \notin lineItems => CallState(u) = "asked"
              /\ upd[u].st = "done" /\ upd[u].code = "OK" => CallState(u) = "acked"
              /\ upd[u].st = "done" /\ upd[u].code # "OK" => CallState(u) = "refused"
BY DEF CallState

\* A call that nothing happens to.
LEMMA CallFrame ==
  ASSUME NEW u \in Updates, upd'[u] = upd[u],
         upd[u].st # "idle" => (Undisturbed(upd[u].in.bill)' <=> Undisturbed(upd[u].in.bill)),
         upd[u].st = "running" /\ Undisturbed(upd[u].in.bill) =>
           (LineItem(upd[u].in) \in lineItems' <=> LineItem(upd[u].in) \in lineItems)
  PROVE  LedgerCall(u)' = LedgerCall(u)
<1>1. CASE upd[u].st = "idle"
  BY <1>1 DEF LedgerCall
<1>2. CASE upd[u].st # "idle"
  BY <1>2 DEF LedgerCall, CallState, Charge, LineItem
<1> QED
  BY <1>1, <1>2

\* The same after a step.
LEMMA EntryAfter ==
  ASSUME NEW b \in Bills
  PROVE  /\ Undisturbed(b)' =>
              LedgerEntry(b)' = [status |-> bills'[b].status,
                                 charges |-> {Charge(li) : li \in ItemsOf(b)'},
                                 total |-> bills'[b].total]
         /\ ~Undisturbed(b)' => LedgerEntry(b)' = Ledger!Forsaken
<1>1. Ledger!Forsaken = [status |-> "FORSAKEN", charges |-> {}, total |-> ZeroTotal]
  BY DEF Ledger!Forsaken, Ledger!Entry, ZeroTotal
<1>2. ZeroTotal' = ZeroTotal
  BY DEF ZeroTotal, Charges
<1> QED
  BY <1>1, <1>2 DEF LedgerEntry, Charge

\* What a mapped call says after a step.
LEMMA CallAfter ==
  ASSUME NEW u \in Updates, upd'[u].st # "idle", NEW b, upd'[u].in.bill = b,
         NEW r, upd'[u].in = r
  PROVE  /\ ~Undisturbed(b)' => LedgerCall(u)' = MappedCall("void", b, Charge(r))
         /\ Undisturbed(b)' =>
              /\ upd'[u].st = "running" /\ LineItem(r) \in lineItems' =>
                   LedgerCall(u)' = MappedCall("added", b, Charge(r))
              /\ upd'[u].st = "running" /\ LineItem(r) \notin lineItems' =>
                   LedgerCall(u)' = MappedCall("asked", b, Charge(r))
              /\ upd'[u].st = "done" /\ upd'[u].code = "OK" =>
                   LedgerCall(u)' = MappedCall("acked", b, Charge(r))
              /\ upd'[u].st = "done" /\ upd'[u].code # "OK" =>
                   LedgerCall(u)' = MappedCall("refused", b, Charge(r))
<1>1. LedgerCall(u)' = [st |-> CallState(u)', bill |-> b, charge |-> Charge(r)]
  BY DEF LedgerCall, Charge
<1>2. CallState(u)' = IF ~Undisturbed(b)' THEN "void"
                      ELSE IF upd'[u].st = "running"
                      THEN IF LineItem(r) \in lineItems' THEN "added" ELSE "asked"
                      ELSE IF upd'[u].code = "OK" THEN "acked" ELSE "refused"
  BY DEF CallState, LineItem
<1> QED
  BY <1>1, <1>2 DEF MappedCall

\* A bill that a step leaves alone, with its calls.
LeftAlone(b) == NothingFor(b) /\ (Undisturbed(b)' <=> Undisturbed(b))

\* Bills left alone keep their entries, and their calls that are left alone.
LEMMA OthersFrame ==
  ASSUME WellTyped, NEW S \in SUBSET Bills, \A b \in S : LeftAlone(b)
  PROVE  /\ Same(S)
         /\ \A u \in Updates :
              upd'[u] = upd[u] /\ (upd[u].st # "idle" => upd[u].in.bill \in S) =>
                LedgerCall(u)' = LedgerCall(u)
<1>1. Same(S)
  BY EntryFrame DEF Same, LeftAlone
<1>2. ASSUME NEW u \in Updates, upd'[u] = upd[u], upd[u].st # "idle" => upd[u].in.bill \in S
      PROVE  LedgerCall(u)' = LedgerCall(u)
  <2>1. CASE upd[u].st = "idle"
    BY <1>2, <2>1, CallFrame
  <2>2. CASE upd[u].st # "idle"
    <3>1. PICK b \in S : b = upd[u].in.bill
      BY <1>2, <2>2
    <3>2. Undisturbed(upd[u].in.bill)' <=> Undisturbed(upd[u].in.bill)
      BY <1>2, <3>1 DEF LeftAlone, Undisturbed
    <3>3. PICK li : li = LineItem(upd[u].in)
      OBVIOUS
    <3>4. li.bill = b
      BY <3>1, <3>3, AppendInputItem
    <3>5. li \in lineItems' <=> li \in lineItems
      <4>1. ItemsOf(b)' = ItemsOf(b)
        BY DEF LeftAlone, NothingFor
      <4> QED
        BY <3>4, <4>1 DEF ItemsOf
    <3> QED
      BY <1>2, <3>2, <3>3, <3>5, CallFrame
  <2> QED
    BY <2>1, <2>2
<1> QED
  BY <1>1, <1>2

\* Steps that write no table leave alone all bills whose history they keep.
LEMMA Quiet ==
  ASSUME UNCHANGED <<bills, lineItems, billEvents>>, NEW b,
         Undisturbed(b)' <=> Undisturbed(b)
  PROVE  LeftAlone(b)
BY DEF LeftAlone, NothingFor, ItemsOf

\* A step that leaves all bills and calls alone is a stutter of the ledger.
LEMMA Stutters ==
  ASSUME WellTyped, \A b \in Bills : LeftAlone(b), upd' = upd
  PROVE  Ledger!Next
<1>1. \A u \in Updates : upd[u].st # "idle" => upd[u].in.bill \in Bills
  BY HandlerFacts, RequestTypes
<1>2. Same(Bills) /\ SameCalls(Updates)
  BY <1>1, OthersFrame DEF SameCalls
<1> QED
  BY <1>2, MapStutter DEF Ledger!Next

\* The calls of a bill whose promise is given up.
LEMMA Voided ==
  ASSUME WellTyped, NEW d \in Bills, ~Undisturbed(d)',
         \A b \in Bills \ {d} : LeftAlone(b), NEW u \in Updates,
         \/ upd'[u] = upd[u]
         \/ /\ upd[u].st # "idle" /\ upd[u].in.bill = d
            /\ upd'[u].st # "idle" /\ upd'[u].in = upd[u].in
  PROVE  IF LedgerCall(u) # [st |-> "idle"] /\ LedgerCall(u).bill = d
         THEN LedgerCall(u)' = [LedgerCall(u) EXCEPT !.st = "void"]
         ELSE LedgerCall(u)' = LedgerCall(u)
<1>1. CASE upd[u].st # "idle" /\ upd[u].in.bill = d
  <2>1. PICK r : r = upd[u].in
    OBVIOUS
  <2>2. upd'[u].st # "idle" /\ upd'[u].in = r /\ r.bill = d
    BY <1>1, <2>1
  <2>3. LedgerCall(u)' = MappedCall("void", d, Charge(r))
    BY <2>2, CallAfter
  <2>4. [LedgerCall(u) EXCEPT !.st = "void"] = MappedCall("void", d, Charge(r))
    BY <1>1, <2>1, CallMeans
  <2> QED
    BY <1>1, <2>3, <2>4, CallMeans
<1>2. CASE ~(upd[u].st # "idle" /\ upd[u].in.bill = d)
  <2>1. upd'[u] = upd[u]
    BY <1>2
  <2>2. upd[u].st # "idle" => upd[u].in.bill \in Bills \ {d}
    BY <1>2, HandlerFacts, RequestTypes
  <2>3. LedgerCall(u)' = LedgerCall(u)
    BY <2>1, <2>2, OthersFrame
  <2> QED
    BY <1>2, <2>3, CallMeans
<1> QED
  BY <1>1, <1>2

\* Whatever ends the promise to a bill without a new call.
LEMMA Forsakes ==
  ASSUME WellTyped, NEW d \in Bills, Undisturbed(d), ~Undisturbed(d)',
         \A b \in Bills \ {d} : LeftAlone(b),
         \A u \in Updates :
           \/ upd'[u] = upd[u]
           \/ /\ upd[u].st # "idle" /\ upd[u].in.bill = d
              /\ upd'[u].st # "idle" /\ upd'[u].in = upd[u].in
  PROVE  Ledger!Next
<1>1. LedgerEntry(d) # Ledger!Forsaken /\ LedgerEntry(d)' = Ledger!Forsaken
  BY EntryMeans, EntryAfter
<1>2. Same(Bills \ {d})
  BY OthersFrame
<1>3. Ledger!Forsake(d)
  BY <1>1, <1>2, Voided, MapForsake
<1> QED
  BY <1>3 DEF Ledger!Next

\* A step that only answers or accepts one new call.
LEMMA Asks ==
  ASSUME WellTyped, NEW u \in Updates, NEW r \in Requests, upd[u].st = "idle",
         upd'[u].st # "idle", upd'[u].in = r, \A v \in Updates \ {u} : upd'[v] = upd[v],
         \A b \in Bills : LeftAlone(b),
         NEW st \in {"asked", "refused", "acked"},
         Undisturbed(r.bill) =>
           /\ LedgerCall(u)' = MappedCall(st, r.bill, Charge(r))
           /\ st = "acked" => \E li \in ItemsOf(r.bill) : li.id = r.id
  PROVE  Ledger!Next
<1>1. r.bill \in Bills /\ Charge(r) \in Charges /\ Charge(r).id = r.id
  BY RequestTypes, ChargeTypes DEF Charge
<1>2. Same(Bills) /\ SameCalls(Updates \ {u})
  <2>1. \A v \in Updates : upd[v].st # "idle" => upd[v].in.bill \in Bills
    BY HandlerFacts, RequestTypes
  <2> QED
    BY <2>1, OthersFrame DEF SameCalls
<1>3. LedgerCall(u) = [st |-> "idle"]
  BY CallMeans
<1>4. CASE Undisturbed(r.bill)
  <2>1. LedgerEntry(r.bill) # Ledger!Forsaken
    BY <1>1, <1>4, EntryMeans
  <2>2. st = "acked" => \E c \in LedgerEntry(r.bill).charges : c.id = Charge(r).id
    <3>1. \A li : Charge(li).id = li.id
      BY DEF Charge
    <3> QED
      BY <1>1, <1>4, <3>1, EntryMeans
  <2>3. Ledger!Ask(u, r.bill, Charge(r))
    BY <1>1, <1>2, <1>3, <1>4, <2>1, <2>2, MapAsk
  <2> QED
    BY <1>1, <2>3 DEF Ledger!Next
<1>5. CASE ~Undisturbed(r.bill)
  <2>1. PICK b \in Bills : b = r.bill
    BY <1>1
  <2>2. ~Undisturbed(b) /\ ~Undisturbed(b)'
    BY <1>5, <2>1 DEF LeftAlone
  <2>3. LedgerCall(u)' = MappedCall("void", b, Charge(r))
    BY <2>1, <2>2, CallAfter
  <2>4. LedgerEntry(b) = Ledger!Forsaken
    BY <2>2, EntryMeans
  <2>5. Ledger!Ask(u, b, Charge(r))
    BY <1>1, <1>2, <1>3, <2>3, <2>4, MapAsk
  <2> QED
    BY <1>1, <2>5 DEF Ledger!Next
<1> QED
  BY <1>4, <1>5

\* Steps on a bill whose promise is given up, now or earlier, without a new call.
LEMMA Disturbs ==
  ASSUME WellTyped, [Next]_vars, NEW d \in Bills, ~Undisturbed(d)',
         \A b \in Bills \ {d} : LeftAlone(b),
         \A u \in Updates :
           \/ upd'[u] = upd[u]
           \/ /\ upd[u].st # "idle" /\ upd[u].in.bill = d
              /\ upd'[u].st # "idle" /\ upd'[u].in = upd[u].in
  PROVE  Ledger!Next
<1>1. CASE Undisturbed(d)
  BY <1>1, Forsakes
<1>2. CASE ~Undisturbed(d)
  <2>1. LedgerEntry(d)' = LedgerEntry(d)
    BY <1>2, EntryMeans, EntryAfter
  <2>2. Same(Bills)
    BY <2>1, OthersFrame DEF Same
  <2>3. ASSUME NEW u \in Updates PROVE LedgerCall(u)' = LedgerCall(u)
    <3>1. CASE upd[u].st # "idle" /\ upd[u].in.bill = d
      <4>1. PICK r : r = upd[u].in
        OBVIOUS
      <4>2. upd'[u].st # "idle" /\ upd'[u].in = r /\ r.bill = d
        BY <3>1, <4>1
      <4>3. LedgerCall(u)' = MappedCall("void", d, Charge(r))
        BY <4>2, CallAfter
      <4>4. LedgerCall(u) = MappedCall("void", d, Charge(r))
        BY <1>2, <3>1, <4>1, CallMeans, StateMeans
      <4> QED
        BY <4>3, <4>4
    <3>2. CASE ~(upd[u].st # "idle" /\ upd[u].in.bill = d)
      <4>1. upd'[u] = upd[u] /\ (upd[u].st # "idle" => upd[u].in.bill \in Bills \ {d})
        BY <3>2, HandlerFacts, RequestTypes
      <4> QED
        BY <4>1, OthersFrame
    <3> QED
      BY <3>1, <3>2
  <2> QED
    BY <2>2, <2>3, MapStutter DEF SameCalls, Ledger!Next
<1> QED
  BY <1>1, <1>2

-----------------------------------------------------------------------------
(* The steps of the workflow, one by one *)

\* A second start of a workflow under the same id gives up the promise.
LEMMA CreateBillMaps ==
  ASSUME WellTyped, NEW d \in Bills, NEW cur \in Currencies,
         NEW p \in Periods[d], CreateBill(d, cur, p)
  PROVE  Ledger!Next
<1>1. [Next]_vars
  BY DEF Next
<1>2. UNCHANGED <<bills, lineItems, billEvents, upd, hazard>>
  BY DEF CreateBill, dbVars
<1>3. \A b \in Bills \ {d} : starts'[b] = starts[b]
  BY DEF CreateBill
<1>4. \A b \in Bills \ {d} : LeftAlone(b)
  BY <1>2, <1>3, Quiet DEF Undisturbed
<1>5. CASE Undisturbed(d)'
  <2>1. LeftAlone(d)
    BY <1>1, <1>2, <1>5, Quiet, StaysUndisturbed
  <2> QED
    BY <1>2, <1>4, <2>1, Stutters
<1>6. CASE ~Undisturbed(d)'
  BY <1>1, <1>2, <1>4, <1>6, Disturbs
<1> QED
  BY <1>5, <1>6

\* Steps that the ledger does not see.
LEMMA SilentMaps ==
  ASSUME WellTyped, UNCHANGED <<bills, lineItems, billEvents, upd, starts, hazard>>
  PROVE  Ledger!Next
<1>1. \A b \in Bills : LeftAlone(b)
  BY Quiet DEF Undisturbed
<1> QED
  BY <1>1, Stutters

\* A call that the endpoint or Temporal turns down is refused at once.
LEMMA RefusedMaps ==
  ASSUME WellTyped, NEW u \in Updates, NEW r \in Requests, AddLineItemRefused(u, r)
  PROVE  Ledger!Next
<1>1. PICK code \in Codes \ {"OK"} : Answer(u, r, code)
  BY DEF AddLineItemRefused, Codes
<1>2. upd[u].st = "idle" /\ UNCHANGED <<bills, lineItems, billEvents, starts, hazard>>
  BY DEF AddLineItemRefused, dbVars
<1>3. /\ upd'[u].st = "done" /\ upd'[u].in = r /\ upd'[u].code # "OK"
      /\ \A v \in Updates \ {u} : upd'[v] = upd[v]
  BY <1>1, AnswerType DEF WellTyped
<1>4. \A b \in Bills : LeftAlone(b)
  BY <1>2, Quiet DEF Undisturbed
<1>5. PICK b \in Bills : b = r.bill
  BY RequestTypes
<1>6. Undisturbed(b) => LedgerCall(u)' = MappedCall("refused", b, Charge(r))
  BY <1>3, <1>4, <1>5, CallAfter DEF LeftAlone
<1> QED
  BY <1>2, <1>3, <1>4, <1>5, <1>6, Asks

\* An answer from the seen set is an acknowledgement of an item on the bill.
LEMMA AnsweredMaps ==
  ASSUME WellTyped, AcksAgree, NEW u \in Updates, NEW r \in Requests, AddLineItemAnswered(u, r)
  PROVE  Ledger!Next
<1>1. PICK code \in Codes : Answer(u, r, code) /\ (code = "OK" => r.id \in wf[r.bill].seen)
  BY DEF AddLineItemAnswered, Validate, Codes
<1>2. upd[u].st = "idle" /\ UNCHANGED <<bills, lineItems, billEvents, starts, hazard>>
  BY DEF AddLineItemAnswered, dbVars
<1>3. /\ upd'[u].st = "done" /\ upd'[u].in = r /\ upd'[u].code = code
      /\ \A v \in Updates \ {u} : upd'[v] = upd[v]
  BY <1>1, AnswerType DEF WellTyped
<1>4. \A b \in Bills : LeftAlone(b)
  BY <1>2, Quiet DEF Undisturbed
<1>5. PICK b \in Bills : b = r.bill
  BY RequestTypes
<1>6. Undisturbed(b) /\ code # "OK" => LedgerCall(u)' = MappedCall("refused", b, Charge(r))
  BY <1>3, <1>4, <1>5, CallAfter DEF LeftAlone
<1>7. Undisturbed(b) /\ code = "OK" => LedgerCall(u)' = MappedCall("acked", b, Charge(r))
  BY <1>3, <1>4, <1>5, CallAfter DEF LeftAlone
<1>8. Undisturbed(b) /\ code = "OK" => \E li \in ItemsOf(b) : li.id = r.id
  BY <1>1, <1>5 DEF AcksAgree, Undisturbed
<1>9. CASE code = "OK"
  BY <1>2, <1>3, <1>4, <1>5, <1>7, <1>8, <1>9, Asks
<1>10. CASE code # "OK"
  BY <1>2, <1>3, <1>4, <1>5, <1>6, <1>10, Asks
<1> QED
  BY <1>9, <1>10

\* A handler starts: its charge is neither on the bill nor on its way there,
\* or the promise is given up for the second handler with its key, or for the
\* handler that the close will not wait for.
LEMMA StartedMaps ==
  ASSUME Invariant, NEW u \in Updates, NEW r \in Requests, AddLineItemStarted(u, r)
  PROVE  Ledger!Next
<1>0. WellTyped /\ [Next]_vars
  BY DEF Invariant, Next
<1>1. PICK d \in Bills : d = r.bill
  BY RequestTypes
<1>2. upd[u].st = "idle" /\ UNCHANGED <<bills, lineItems, billEvents, starts>>
  BY DEF AddLineItemStarted, dbVars
<1>3. /\ upd'[u].st = "running" /\ upd'[u].in = r
      /\ \A v \in Updates \ {u} : upd'[v] = upd[v]
  BY <1>0 DEF AddLineItemStarted, WellTyped, TypeOK
<1>4. \A b \in Bills \ {d} : LeftAlone(b)
  <2>1. \A b \in Bills \ {d} : hazard'[b] = hazard[b]
    BY <1>0, <1>1 DEF AddLineItemStarted, WellTyped, TypeOK
  <2> QED
    BY <1>2, <2>1, Quiet DEF Undisturbed
<1>5. CASE Undisturbed(d)'
  <2>1. Undisturbed(d)
    BY <1>0, <1>5, StaysUndisturbed
  <2>2. \A b \in Bills : LeftAlone(b)
    BY <1>2, <1>4, <1>5, <2>1, Quiet
  <2>3. LineItem(r) \notin lineItems
    <3> DEFINE sameKey == {v \in Handlers(d) : upd[v].in.id = r.id}
    <3>1. sameKey = {}
      <4>1. hazard'[d] = hazard[d] \cup (IF sameKey # {} THEN {"sameKey"} ELSE {})
                           \cup (IF wf[d].phase = "closing" THEN {"late"} ELSE {})
        BY <1>0, <1>1 DEF AddLineItemStarted, WellTyped, TypeOK
      <4>2. hazard'[d] = {}
        BY <1>5 DEF Undisturbed
      <4> QED
        BY <4>1, <4>2
    <3>2. \A v \in Updates : RunningOn(v, d) => upd[v].in.id # r.id
      BY <3>1 DEF Handlers, RunningOn
    <3>3. r.id \notin wf[d].seen
      BY <1>1 DEF AddLineItemStarted
    <3>4. CountInv(d)
      BY <2>1 DEF Invariant, CountsAgree
    <3>5. LineItem(r) \in lineItems => LineItem(r) \in ItemsOf(d)
      BY <1>1, AppendInputItem DEF ItemsOf
    <3> QED
      BY <3>2, <3>3, <3>4, <3>5, AppendInputItem DEF CountInv
  <2>4. LedgerCall(u)' = MappedCall("asked", d, Charge(r))
    BY <1>1, <1>2, <1>3, <1>5, <2>3, CallAfter
  <2> QED
    BY <1>0, <1>1, <1>2, <1>3, <2>2, <2>4, Asks
<1>6. CASE ~Undisturbed(d)' /\ ~Undisturbed(d)
  <2>1. \A b \in Bills : LeftAlone(b)
    BY <1>2, <1>4, <1>6, Quiet
  <2> QED
    BY <1>0, <1>1, <1>2, <1>3, <1>6, <2>1, Asks
<1>7. CASE ~Undisturbed(d)' /\ Undisturbed(d)
  <2>1. LedgerEntry(d) # Ledger!Forsaken /\ LedgerEntry(d)' = Ledger!Forsaken
    BY <1>0, <1>7, EntryMeans, EntryAfter
  <2>2. Same(Bills \ {d})
    BY <1>0, <1>4, OthersFrame
  <2>3. LedgerCall(u) = [st |-> "idle"]
    BY <1>0, <1>2, CallMeans
  <2>4. LedgerCall(u)' = MappedCall("void", d, Charge(r))
    BY <1>1, <1>3, <1>7, CallAfter
  <2>5. Charge(r) \in Charges
    BY RequestTypes, ChargeTypes
  <2>6. \A v \in Updates \ {u} :
          IF LedgerCall(v) # [st |-> "idle"] /\ LedgerCall(v).bill = d
          THEN LedgerCall(v)' = [LedgerCall(v) EXCEPT !.st = "void"]
          ELSE LedgerCall(v)' = LedgerCall(v)
    BY <1>0, <1>3, <1>4, <1>7, Voided
  <2>7. Ledger!Forsake(d)
    BY <2>1, <2>2, <2>3, <2>4, <2>5, <2>6, MapForsakeBy
  <2> QED
    BY <2>7 DEF Ledger!Next
<1> QED
  BY <1>5, <1>6, <1>7

\* A handler answers its call: what it says of the charge is and stays true.
LEMMA HandlerMaps ==
  ASSUME Invariant, NEW u \in Updates, HandlerDone(u) \/ HandlerFailed(u)
  PROVE  Ledger!Next
<1>0. WellTyped /\ [Next]_vars
  BY DEF Invariant, Next, HandlerTask
<1>1. /\ upd[u].st = "running" /\ UNCHANGED <<bills, lineItems, billEvents, starts>>
      /\ HandlerDone(u) => act[u].st = "committed"
  BY DEF HandlerDone, HandlerFailed, dbVars
<1>2. PICK r \in Requests : r = upd[u].in
  BY <1>0, <1>1, HandlerFacts
<1>3. PICK d \in Bills : d = r.bill
  BY RequestTypes
<1>4. /\ upd'[u].st = "done" /\ upd'[u].in = r
      /\ upd'[u].code = IF HandlerDone(u) THEN "OK" ELSE "InvalidArgument"
      /\ \A v \in Updates \ {u} : upd'[v] = upd[v]
  <2>1. PICK code \in Codes : /\ Answer(u, r, code)
                              /\ code = IF HandlerDone(u) THEN "OK" ELSE "InvalidArgument"
    BY <1>2 DEF HandlerDone, HandlerFailed, Codes
  <2> QED
    BY <1>0, <2>1, AnswerType DEF WellTyped
<1>5. \A b \in Bills \ {d} : LeftAlone(b)
  <2>1. \A b \in Bills \ {d} : hazard'[b] = hazard[b]
    BY <1>0, <1>2, <1>3 DEF HandlerDone, HandlerFailed, WellTyped, TypeOK
  <2> QED
    BY <1>1, <2>1, Quiet DEF Undisturbed
<1>6. CASE ~Undisturbed(d)'
  BY <1>0, <1>1, <1>2, <1>3, <1>4, <1>5, <1>6, Disturbs
<1>7. CASE Undisturbed(d)'
  <2>1. Undisturbed(d)
    BY <1>0, <1>7, StaysUndisturbed
  <2>2. \A b \in Bills : LeftAlone(b)
    BY <1>1, <1>5, <1>7, <2>1, Quiet
  <2>3. Same(Bills) /\ SameCalls(Updates \ {u})
    <3>1. \A v \in Updates : upd[v].st # "idle" => upd[v].in.bill \in Bills
      BY <1>0, HandlerFacts, RequestTypes
    <3> QED
      BY <1>0, <1>4, <2>2, <3>1, OthersFrame DEF SameCalls
  <2>4. LedgerCall(u) # [st |-> "idle"]
    BY <1>0, <1>1, CallMeans
  <2>5. /\ LedgerCall(u).st = CallState(u)
        /\ \A st : [LedgerCall(u) EXCEPT !.st = st] = MappedCall(st, d, Charge(r))
    BY <1>0, <1>1, <1>2, <1>3, CallMeans
  <2>6. CASE HandlerDone(u)
    <3>1. LineItem(r) \in lineItems
      BY <1>1, <1>2, <1>3, <2>1, <2>6 DEF Invariant, CountsAgree, AppendsInv, RunningOn
    <3>2. CallState(u) = "added"
      BY <1>0, <1>1, <1>2, <1>3, <2>1, <3>1, StateMeans
    <3>3. LedgerCall(u)' = MappedCall("acked", d, Charge(r))
      BY <1>3, <1>4, <1>7, <2>6, CallAfter
    <3>4. Ledger!Acknowledge(u)
      BY <2>3, <2>5, <3>2, <3>3, MapAcknowledge
    <3> QED
      BY <2>4, <3>4 DEF Ledger!Next, Ledger!Idle
  <2>7. CASE ~HandlerDone(u)
    <3>1. LineItem(r) \notin lineItems
      <4>1. hazard'[d] = hazard[d] \cup (IF MayPersist(r) THEN {"lostAck"} ELSE {})
        BY <1>0, <1>2, <1>3, <2>7 DEF HandlerFailed, WellTyped, TypeOK
      <4>2. ~MayPersist(r)
        BY <1>7, <4>1 DEF Undisturbed
      <4> QED
        BY <4>2, AppendInputItem DEF MayPersist
    <3>2. CallState(u) = "asked"
      BY <1>0, <1>1, <1>2, <1>3, <2>1, <3>1, StateMeans
    <3>3. LedgerCall(u)' = MappedCall("refused", d, Charge(r))
      BY <1>3, <1>4, <1>7, <2>7, CallAfter
    <3>4. Ledger!Refuse(u)
      BY <2>3, <2>5, <3>2, <3>3, MapRefuse
    <3> QED
      BY <2>4, <3>4 DEF Ledger!Next, Ledger!Idle
  <2> QED
    BY <2>6, <2>7
<1> QED
  BY <1>6, <1>7

\* The end of a workflow abandons handlers only if the promise was given up.
LEMMA EndMaps ==
  ASSUME Invariant, NEW d \in Bills, CloseDone(d) \/ CloseFailed(d)
  PROVE  Ledger!Next
<1>0. WellTyped /\ [Next]_vars
  BY DEF Invariant, Next, WorkflowTask
<1>1. /\ wf[d].phase = "closing"
      /\ UNCHANGED <<bills, lineItems, billEvents, starts, hazard>>
      /\ upd' = [u \in Updates |->
                   IF u \in Handlers(d) THEN [upd[u] EXCEPT !.st = "done", !.code = "Failed"]
                   ELSE upd[u]]
  BY DEF CloseDone, CloseFailed, EndWorkflow, dbVars
<1>2. \A b \in Bills : LeftAlone(b)
  BY <1>1, Quiet DEF Undisturbed
<1>3. CASE Undisturbed(d)
  <2>1. Handlers(d) = {}
    BY <1>1, <1>3 DEF Invariant, CountsAgree, HandlersInv, RunningOn, Handlers
  <2>2. upd' = upd
    <3>1. upd \in [Updates -> Calls]
      BY <1>0 DEF WellTyped, TypeOK
    <3> QED
      BY <1>1, <2>1, <3>1
  <2> QED
    BY <1>0, <1>2, <2>2, Stutters
<1>4. CASE ~Undisturbed(d)
  <2>1. ~Undisturbed(d)'
    BY <1>2, <1>4 DEF LeftAlone
  <2>2. ASSUME NEW u \in Updates, u \in Handlers(d)
        PROVE  /\ upd[u].st # "idle" /\ upd[u].in.bill = d
               /\ upd'[u].st # "idle" /\ upd'[u].in = upd[u].in
    <3>1. upd[u].st # "idle" /\ upd[u].in.bill = d
      BY <2>2 DEF Handlers
    <3>2. upd'[u] = [upd[u] EXCEPT !.st = "done", !.code = "Failed"] /\ upd[u] \in Calls
      BY <1>0, <1>1, <2>2 DEF WellTyped, TypeOK
    <3> QED
      BY <3>1, <3>2 DEF Calls
  <2>3. ASSUME NEW u \in Updates, u \notin Handlers(d) PROVE upd'[u] = upd[u]
    BY <1>1, <2>3
  <2> QED
    BY <1>0, <1>2, <2>1, <2>2, <2>3, Disturbs
<1> QED
  BY <1>3, <1>4

\* A transaction of an activity on an undisturbed bill.
LEMMA CommitMaps ==
  ASSUME Invariant, LogsAgree, NEW x \in open, CommitTx(x)
  PROVE  Ledger!Next
<1>0. /\ WellTyped /\ TablesAgree /\ [Next]_vars /\ DBTypeOK
      /\ UNCHANGED <<wf, upd, starts>>
  <2>1. x.task \in Tasks
    BY DEF Invariant, WellTyped, TypeOK, Attempts
  <2> QED
    BY <2>1 DEF Invariant, WellTyped, TypeOK, Next, EndAttempt, CommitTx
<1>1. x.in \in Inputs /\ Execute(x.in)
  BY <1>0 DEF WellTyped, TypeOK, Attempts, CommitTx
<1>2. PICK d \in Bills : d = x.in.bill
  BY <1>1, InputTypes
<1>3. \A b \in Bills \ {d} : LeftAlone(b)
  <2>1. \A b \in Bills \ {d} : hazard'[b] = hazard[b]
    BY <1>0, <1>2 DEF CommitTx, WellTyped, TypeOK
  <2>2. \A b \in Bills \ {d} : NothingFor(b)
    BY <1>0, <1>1, <1>2, ExecuteLog DEF Opens, Inserts, ClosesRow
  <2> QED
    BY <1>0, <2>1, <2>2 DEF LeftAlone, Undisturbed
<1>4. CASE ~Undisturbed(d)'
  BY <1>0, <1>3, <1>4, Disturbs
<1>5. CASE Undisturbed(d)'
  <2>1. Undisturbed(d) /\ BillInv(d)
    BY <1>0, <1>5, StaysUndisturbed DEF Invariant, CountsAgree, BillInv
  <2>2. Same(Bills \ {d})
    BY <1>0, <1>3, OthersFrame
  <2>3. /\ LedgerEntry(d).status = bills[d].status
        /\ LedgerEntry(d) = MappedEntry(bills[d].status, {Charge(li) : li \in ItemsOf(d)},
                                        bills[d].total)
    BY <1>0, <2>1, EntryMeans DEF LedgerEntry, MappedEntry
  <2>4. LedgerEntry(d)' = MappedEntry(bills'[d].status, {Charge(li) : li \in ItemsOf(d)'},
                                      bills'[d].total)
    BY <1>5, EntryAfter DEF MappedEntry
  <2>5. CASE NothingFor(d)
    BY <1>0, <1>3, <1>5, <2>1, <2>5, Stutters DEF LeftAlone
  <2>6. ItemsOf(d)' = ItemsOf(d) => SameCalls(Updates)
    <3>1. SUFFICES ASSUME ItemsOf(d)' = ItemsOf(d), NEW u \in Updates
                   PROVE  LedgerCall(u)' = LedgerCall(u)
      BY DEF SameCalls
    <3>2. CASE upd[u].st # "idle" /\ upd[u].in.bill = d
      <4>1. PICK r : r = upd[u].in
        OBVIOUS
      <4>2. LineItem(r).bill = d
        BY <3>2, <4>1, AppendInputItem
      <4>3. LineItem(r) \in lineItems' <=> LineItem(r) \in lineItems
        BY <3>1, <4>2 DEF ItemsOf
      <4>4. Undisturbed(upd[u].in.bill)' <=> Undisturbed(upd[u].in.bill)
        BY <1>0, <1>5, <2>1, <3>2 DEF Undisturbed
      <4> QED
        BY <1>0, <4>1, <4>3, <4>4, CallFrame
    <3>3. CASE ~(upd[u].st # "idle" /\ upd[u].in.bill = d)
      <4>1. upd[u].st # "idle" => upd[u].in.bill \in Bills \ {d}
        BY <1>0, <3>3, HandlerFacts, RequestTypes
      <4> QED
        BY <1>0, <1>3, <4>1, OthersFrame
    <3> QED
      BY <3>2, <3>3
  <2>7. CASE Opens(d, x.in)
    <3>1. bills[d] = NoRow
      BY <2>7 DEF LogsAgree, BirthInv, Opens
    <3>2. bills[d].status = "NONE" /\ bills[d].total = ZeroTotal
      <4>1. NoRow.status = "NONE" /\ NoRow.total = ZeroTotal
        BY DEF NoRow
      <4> QED
        BY <3>1, <4>1
    <3>3. bills'[d].status = "OPEN" /\ bills'[d].total = ZeroTotal /\ ItemsOf(d)' = ItemsOf(d)
      BY <2>7 DEF Opens, OpenedRow, NoRow
    <3>4. LedgerEntry(d)' = [LedgerEntry(d) EXCEPT !.status = "OPEN"]
      BY <2>3, <2>4, <3>2, <3>3, EntryFields
    <3>5. Ledger!Open(d)
      BY <2>2, <2>3, <2>6, <3>2, <3>3, <3>4, MapOpen
    <3> QED
      BY <3>5 DEF Ledger!Next
  <2>8. CASE Inserts(d, x.in)
    <3> DEFINE li == LineItem(x.in)
               c == Charge(x.in)
    <3>1. /\ x.in \in AppendInputs /\ ~HasItem(x.in.id) /\ RowExists(d)
          /\ ItemsOf(d)' = ItemsOf(d) \cup {li}
          /\ bills'[d] = [bills[d] EXCEPT !.total = AddTo(@, Charge(x.in))]
      BY <2>8 DEF Inserts
    <3>2. li.id = x.in.id /\ li.bill = d /\ li \notin lineItems
      BY <1>2, <3>1 DEF LineItem, HasItem
    <3>3. PICK u \in Updates : RunningOn(u, d) /\ x.in = AppendInput(upd[u].in)
      BY <1>2, <2>1, <3>1, <3>2 DEF BillInv, AppendsInv
    <3>4. PICK r \in Requests : r = upd[u].in
      BY <1>0, <3>3, HandlerFacts DEF RunningOn
    <3>5. LineItem(r) = li /\ r.bill = d /\ r.id = x.in.id /\ upd[u].st = "running"
      BY <3>2, <3>3, <3>4, AppendInputItem DEF RunningOn
    <3>6. Charge(r) = c /\ c \in Charges /\ c.id = x.in.id
      BY <3>1, <3>3, <3>4, ChargeTypes DEF Charge, AppendInput
    <3>7. bills[d].status = "OPEN"
      <4>1. bills[d].status \in {"OPEN", "CLOSED"}
        BY <1>0, <3>1 DEF DBTypeOK, Rows, RowExists
      <4>2. wf[d].phase \in {"await", "drain"}
        BY <2>1, <3>3 DEF BillInv, HandlersInv
      <4> QED
        BY <2>1, <4>1, <4>2 DEF BillInv, CloseInv, EndPhases
    <3>8. LedgerCall(u) = MappedCall("asked", d, c)
      BY <1>0, <2>1, <3>2, <3>4, <3>5, <3>6, CallMeans, StateMeans
    <3>9. LedgerCall(u)' = MappedCall("added", d, c)
      <4>1. li \in lineItems'
        BY <3>1 DEF ItemsOf
      <4> QED
        BY <1>0, <1>5, <3>4, <3>5, <3>6, <4>1, CallAfter
    <3> DEFINE cs == {Charge(lj) : lj \in ItemsOf(d)}
               t == bills[d].total
    <3>10. LedgerEntry(d) = MappedEntry("OPEN", cs, t) /\ \A y \in cs : y.id # c.id
      <4>1. \A lj \in lineItems : Charge(lj).id # x.in.id
        BY <3>1 DEF HasItem, Charge
      <4> QED
        BY <2>3, <3>6, <3>7, <4>1 DEF ItemsOf
    <3>11. bills'[d].status = "OPEN" /\ bills'[d].total = AddTo(t, c)
      <4>1. bills[d] \in Rows
        BY <1>0 DEF DBTypeOK
      <4> QED
        BY <3>1, <3>7, <4>1 DEF Rows
    <3>12. LedgerEntry(d)' = MappedEntry("OPEN", cs \cup {c}, [t EXCEPT ![c] = @ + 1])
      <4>1. {Charge(lj) : lj \in ItemsOf(d)'} = cs \cup {c}
        <5>1. Charge(li) = c
          BY DEF Charge, LineItem
        <5> QED
          BY <3>1, <5>1
      <4>2. AddTo(t, c) = [t EXCEPT ![c] = @ + 1]
        BY DEF AddTo
      <4> QED
        BY <2>4, <3>11, <4>1, <4>2
    <3>13. ASSUME NEW v \in Updates \ {u} PROVE LedgerCall(v)' = LedgerCall(v)
      <4>1. CASE upd[v].st = "idle" \/ upd[v].in.bill # d
        <5>1. upd[v].st # "idle" => upd[v].in.bill \in Bills \ {d}
          BY <1>0, <4>1, HandlerFacts, RequestTypes
        <5> QED
          BY <1>0, <1>3, <5>1, OthersFrame
      <4>2. CASE upd[v].st # "idle" /\ upd[v].in.bill = d
        <5>1. Undisturbed(upd[v].in.bill)' <=> Undisturbed(upd[v].in.bill)
          BY <1>0, <1>5, <2>1, <4>2 DEF Undisturbed
        <5>2. upd[v].st = "running" => LineItem(upd[v].in) # li
          BY <2>1, <3>2, <3>3, <3>4, <3>5, <4>2, AppendInputItem
             DEF BillInv, HandlersInv, RunningOn
        <5>3. LineItem(upd[v].in).bill = d
          BY <4>2, AppendInputItem
        <5>4. upd[v].st = "running" =>
                (LineItem(upd[v].in) \in lineItems' <=> LineItem(upd[v].in) \in lineItems)
          BY <3>1, <5>2, <5>3 DEF ItemsOf
        <5> QED
          BY <1>0, <5>1, <5>4, CallFrame
      <4> QED
        BY <4>1, <4>2
    <3> HIDE DEF c, li, cs, t
    <3>14. Ledger!Add(u)
      BY <2>2, <3>8, <3>9, <3>10, <3>12, <3>13, MapAdd DEF SameCalls
    <3>15. LedgerCall(u) # [st |-> "idle"]
      BY <1>0, <3>5, CallMeans
    <3> QED
      BY <3>14, <3>15 DEF Ledger!Next, Ledger!Idle
  <2>9. CASE ClosesRow(d, x.in)
    <3>1. /\ x.in \in CloseInputs /\ RowExists(d) /\ ItemsOf(d)' = ItemsOf(d)
          /\ bills'[d] = [bills[d] EXCEPT !.status = "CLOSED", !.total = x.in.total,
                                          !.reason = x.in.reason]
      BY <2>9 DEF ClosesRow
    <3>2. wf[d].phase \in EndPhases /\ x.in.total = ItemsTotal(d)
      BY <1>2, <2>1, <3>1 DEF BillInv, CloseInv, Closes
    <3>3. SameCalls(Updates)
      BY <2>6, <3>1
    <3>4. bills[d].status \in {"OPEN", "CLOSED"} /\ bills[d] \in Rows
      BY <1>0, <3>1 DEF DBTypeOK, Rows, RowExists
    <3>5. CASE bills[d].status = "CLOSED"
      <4>1. bills'[d] = bills[d]
        BY <1>0, <1>5, <3>5, FrozenHolds DEF FrozenStep, Undisturbed
      <4>2. LedgerEntry(d)' = LedgerEntry(d)
        BY <2>3, <2>4, <3>1, <4>1
      <4> QED
        BY <2>2, <3>3, <4>2, MapStutter DEF Same, Ledger!Next
    <3>6. CASE bills[d].status = "OPEN"
      <4>1. bills'[d].status = "CLOSED" /\ bills'[d].total = bills[d].total
        BY <1>0, <3>1, <3>2, <3>4, <3>6 DEF Rows, TablesAgree, OpenTotalIsItems
      <4>2. LedgerEntry(d)' = [LedgerEntry(d) EXCEPT !.status = "CLOSED"]
        BY <2>3, <2>4, <3>1, <4>1, EntryFields
      <4>3. \A u \in Updates : upd[u].st # "idle" /\ upd[u].in.bill = d =>
              CallState(u) \in {"acked", "refused"}
        <5>1. \A u \in Updates : ~RunningOn(u, d)
          BY <2>1, <3>2 DEF BillInv, HandlersInv, EndPhases
        <5>2. \A u \in Updates : upd[u].st \in {"idle", "running", "done"}
          BY <1>0 DEF WellTyped, TypeOK, Calls
        <5> QED
          BY <1>0, <2>1, <5>1, <5>2, StateMeans DEF RunningOn
      <4>4. \A u \in Updates : LedgerCall(u) # [st |-> "idle"] /\ LedgerCall(u).bill = d =>
              LedgerCall(u).st \in {"acked", "refused"}
        BY <1>0, <4>3, CallMeans
      <4>5. Ledger!Close(d)
        BY <2>2, <2>3, <3>3, <3>6, <4>2, <4>4, MapClose
      <4> QED
        BY <4>5 DEF Ledger!Next
    <3> QED
      BY <3>4, <3>5, <3>6
  <2> QED
    BY <1>0, <1>1, <2>5, <2>7, <2>8, <2>9, ExecuteLog
<1> QED
  BY <1>4, <1>5

\* Every step of the workflow is a step of the ledger or a stutter.
LEMMA StepMaps == Invariant /\ AcksAgree /\ LogsAgree /\ [Next]_vars => Ledger!Next
<1> SUFFICES ASSUME Invariant, AcksAgree, LogsAgree, [Next]_vars
             PROVE  Ledger!Next
  OBVIOUS
<1>0. WellTyped
  BY DEF Invariant
<1>1. ASSUME NEW b \in Bills, CloseBill(b) \/ PeriodPasses(b)
      PROVE  Ledger!Next
  BY <1>0, <1>1, SilentMaps DEF CloseBill, PeriodPasses, dbVars
<1>2. ASSUME NEW b \in Bills, WorkflowTask(b)
      PROVE  Ledger!Next
  BY <1>0, <1>2, SilentMaps, EndMaps
     DEF WorkflowTask, FirstTask, CreateDone, CreateFailed, ResumeTask, SelectorTask, dbVars
<1>3. ASSUME NEW t \in Tasks,
             StartAttempt(t) \/ LoseAttempt(t) \/ ExpireActivity(t) \/ EndAttempt(t)
      PROVE  Ledger!Next
  BY <1>0, <1>3, SilentMaps, CommitMaps
     DEF StartAttempt, LoseAttempt, ExpireActivity, EndAttempt, AbortTx, dbVars
<1>4. CASE UNCHANGED vars
  BY <1>0, <1>4, SilentMaps DEF vars
<1> QED
  BY <1>0, <1>1, <1>2, <1>3, <1>4, CreateBillMaps, RefusedMaps, AnsweredMaps, StartedMaps,
     HandlerMaps DEF Next, HandlerTask

\* The initial state maps to the ledger's.
LEMMA InitMaps == Init => Ledger!Init
<1> SUFFICES ASSUME Init PROVE Ledger!Init
  OBVIOUS
<1>1. ASSUME NEW b \in Bills PROVE LedgerEntry(b) = Ledger!Entry("NONE")
  <2>1. Undisturbed(b)
    <3>1. hazard[b] = {} /\ starts[b] = 0
      BY DEF Init
    <3> QED
      BY <3>1 DEF Undisturbed
  <2>2. bills[b].status = "NONE" /\ bills[b].total = ZeroTotal
    <3>1. NoRow.status = "NONE" /\ NoRow.total = ZeroTotal
      BY DEF NoRow
    <3>2. bills[b] = NoRow
      BY DEF Init, DBInit
    <3> QED
      BY <3>1, <3>2
  <2>3. {Charge(li) : li \in ItemsOf(b)} = {}
    BY DEF Init, DBInit, ItemsOf
  <2>4. Ledger!Entry("NONE") = [status |-> "NONE", charges |-> {}, total |-> ZeroTotal]
    BY DEF Ledger!Entry, ZeroTotal
  <2> QED
    BY <2>1, <2>2, <2>3, <2>4 DEF LedgerEntry
<1>2. ASSUME NEW u \in Updates PROVE LedgerCall(u) = Ledger!Idle
  BY DEF Init, LedgerCall, Ledger!Idle
<1> QED
  BY <1>1, <1>2 DEF Ledger!Init

\* The workflow, its activities and its endpoints implement the ledger (bill/
\* workflow.go, activities.go, endpoints.go), for every number of bills, calls,
\* attempts and transactions under way: on a bill that stays undisturbed, calls
\* are acknowledged after their charge is on the bill, refused only if it never
\* gets there, and the close keeps charges and total.
THEOREM RefinementTheorem == Spec => LedgerSpec
<1>1. Invariant /\ AcksAgree /\ LogsAgree /\ [Next]_vars => [Ledger!Next]_(Ledger!vars)
  BY StepMaps
<1> QED
  BY <1>1, InitMaps, InvariantHolds, AcksHold, LogsHold, PTL DEF Spec, LedgerSpec, Ledger!Spec
=============================================================================
