------------------------- MODULE BillEndpointsProofs ------------------------
(***************************************************************************)
(* Proofs about what GetBill and CloseBill answer, beside any number of    *)
(* workflows, handlers, retries and other callers.                         *)
(***************************************************************************)
EXTENDS BillLedgerProofs, BillEndpoints

-----------------------------------------------------------------------------
(* How a workflow ends *)

\* An execution is CLOSED from finalize on.
StatusOK(w) ==
  /\ w.phase \in {"closing", "completed"} => w.status = "CLOSED"
  /\ w.status = "CLOSED" => w.phase \in EndPhases

\* A workflow that has ended is left alone, completes only when its close is
\* reported committed, and an activity is reported only after its commit.
PhaseMoves(b) ==
  /\ StatusOK(wf[b]) => StatusOK(wf'[b])
  /\ starts'[b] = starts[b] /\ Ended(b) => wf'[b] = wf[b]
  /\ wf'[b].phase = "completed" =>
       wf[b].phase = "completed" \/ (wf[b].phase = "closing" /\ act[b].st = "committed")
  /\ act'[b].st = "committed" =>
       \/ act[b].st = "committed" /\ act'[b].in = act[b].in
       \/ \E x \in open : CommitTx(x) /\ x.in = act'[b].in

\* The status that the operators on an execution leave it with.
LEMMA StatusOps ==
  ASSUME NEW w \in Executions, StatusOK(w)
  PROVE  /\ StatusOK(Select(w))
         /\ \A r : StatusOK(Counted(w, r))
         /\ w.phase \in {"creating", "resume"} => StatusOK(awaitCloseOrThreshold(w))
<1>1. Select(w).phase = w.phase /\ Select(w).status = w.status
  BY DEF Select, Executions
<1>2. \A r : Counted(w, r).phase = w.phase /\ Counted(w, r).status = w.status
  BY DEF Counted, Executions
<1>3. awaitCloseOrThreshold(w).phase = "await" /\ awaitCloseOrThreshold(w).status = w.status
  BY DEF awaitCloseOrThreshold, Executions
<1> HIDE DEF Executions
<1> QED
  BY <1>1, <1>2, <1>3 DEF StatusOK, EndPhases

\* The main coroutine closes the execution only in finalize, and rolls over
\* only one that is not CLOSED.
LEMMA ProceedStatus ==
  ASSUME NEW w \in Executions, NEW busy \in BOOLEAN, w.phase \in {"await", "drain", "closing"},
         StatusOK(w)
  PROVE  StatusOK(Proceed(w, busy))
<1>1. continueAsNew(w).phase = "resume" /\ continueAsNew(w).status = w.status
  BY DEF continueAsNew, Executions
<1>2. finalize(w).phase = "closing" /\ finalize(w).status = "CLOSED"
  BY DEF finalize, Executions
<1>3. [w EXCEPT !.phase = "drain"].phase = "drain" /\ [w EXCEPT !.phase = "drain"].status = w.status
  BY DEF Executions
<1>4. ~Waits(w) => w.phase # "closing"
  BY DEF Waits
<1> HIDE DEF Executions
<1> QED
  BY <1>1, <1>2, <1>3, <1>4, ProceedCases DEF StatusOK, EndPhases

\* A task of the main coroutine.
LEMMA RunTaskPhase ==
  ASSUME WellTyped, NEW b \in Bills, NEW w \in Executions, NEW busy \in BOOLEAN,
         NEW a \in [Tasks -> Activities], RunTask(b, w, busy, a),
         w.phase \in {"await", "drain", "closing"}, ~Ended(b),
         StatusOK(wf[b]) => StatusOK(w),
         \A c \in Bills : a[c] = act[c] \/ a[c].st = "idle"
  PROVE  \A c \in Bills : PhaseMoves(c)
<1>1. /\ wf'[b] = Proceed(w, busy)
      /\ \A c \in Bills \ {b} : wf'[c] = wf[c]
      /\ \A t \in Tasks \ {b} : act'[t] = a[t]
      /\ \/ act'[b] = a[b]
         \/ act'[b] = Schedule(CloseInput(b, wf'[b]))
  BY RunTaskEffect DEF WellTyped
<1>2. Bills \subseteq Tasks /\ Schedule(CloseInput(b, wf'[b])).st = "scheduled"
  BY DEF Tasks, Schedule
<1>3. StatusOK(wf[b]) => StatusOK(wf'[b])
  BY <1>1, ProceedStatus
<1>4. Proceed(w, busy).phase # "completed"
  BY ProceedFields
<1>5. ASSUME NEW c \in Bills, c # b
      PROVE  PhaseMoves(c)
  <2>1. wf'[c] = wf[c] /\ act'[c] = a[c]
    BY <1>1, <1>2, <1>5
  <2> QED
    BY <2>1 DEF PhaseMoves
<1>6. PhaseMoves(b)
  BY <1>1, <1>2, <1>3, <1>4 DEF PhaseMoves
<1> QED
  BY <1>5, <1>6

\* A task of an update or of the selector.
LEMMA SelectPhase ==
  ASSUME WellTyped, NEW b \in Bills, Accepts(b), NEW busy \in BOOLEAN,
         NEW a \in [Tasks -> Activities], \A c \in Bills : a[c] = act[c],
         RunTask(b, Select(wf[b]), busy, a)
  PROVE  \A c \in Bills : PhaseMoves(c)
<1> DEFINE w == Select(wf[b])
<1>1. wf[b] \in Executions /\ w \in Executions /\ w.phase \in {"await", "drain", "closing"}
  BY AcceptingTask
<1>2. ~Ended(b) /\ (StatusOK(wf[b]) => StatusOK(w))
  BY <1>1, StatusOps DEF Accepts, Ended
<1>3. RunTask(b, w, busy, a)
  OBVIOUS
<1> HIDE DEF w
<1> QED
  BY <1>1, <1>2, <1>3, RunTaskPhase

LEMMA HandlerDonePhase ==
  ASSUME WellTyped, NEW u \in Updates, HandlerDone(u)
  PROVE  \A c \in Bills : PhaseMoves(c)
<1> DEFINE r == upd[u].in
           b == r.bill
           s == Select(wf[b])
           w == Counted(s, r)
           busy == Handlers(b) \ {u} # {}
           a == [act EXCEPT ![u] = NoTask]
<1>1. upd[u].st = "running" /\ RunTask(b, w, busy, a)
  BY DEF HandlerDone
<1>2. r \in Requests /\ b \in Bills /\ Accepts(b)
  BY <1>1, HandlerFacts DEF Accepts
<1>3. r \in RequestRecords
  BY <1>2, RequestTypes
<1>4. wf[b] \in Executions /\ s \in Executions /\ s.phase \in {"await", "drain", "closing"}
  BY <1>2, AcceptingTask
<1>5. w \in Executions /\ w.phase \in {"await", "drain", "closing"}
  BY <1>3, <1>4, CountedType, CountedFields
<1>6. StatusOK(wf[b]) => StatusOK(w)
  BY <1>4, StatusOps
<1>7. act \in [Tasks -> Activities] /\ Updates \cap Bills = {} /\ Bills \subseteq Tasks
  BY WorkflowAssumption DEF WellTyped, TypeOK, Tasks
<1>8. a \in [Tasks -> Activities] /\ \A c \in Bills : a[c] = act[c]
  BY <1>7, NoTaskType
<1>9. ~Ended(b)
  BY <1>2 DEF Accepts, Ended
<1> HIDE DEF b, s, w, a
<1> QED
  BY <1>1, <1>2, <1>5, <1>6, <1>8, <1>9, RunTaskPhase

\* CreateDone and ResumeTask.
LEMMA FirstWaitPhase ==
  ASSUME WellTyped, NEW b \in Bills, CreateDone(b) \/ ResumeTask(b)
  PROVE  \A c \in Bills : PhaseMoves(c)
<1> DEFINE w == awaitCloseOrThreshold(wf[b])
           a == IF CreateDone(b) THEN [act EXCEPT ![b] = NoTask] ELSE act
<1>1. wf[b].phase \in {"creating", "resume"} /\ RunTask(b, w, FALSE, a)
  BY DEF CreateDone, ResumeTask
<1>2. wf[b] \in Executions /\ act \in [Tasks -> Activities] /\ Bills \subseteq Tasks
  BY DEF WellTyped, TypeOK, Tasks
<1>3. w \in Executions /\ w.phase = "await" /\ (StatusOK(wf[b]) => StatusOK(w))
  BY <1>1, <1>2, SelectType, AwaitFields, StatusOps
<1>4. a \in [Tasks -> Activities] /\ \A c \in Bills : a[c] = act[c] \/ a[c].st = "idle"
  BY <1>2, NoTaskType
<1>5. ~Ended(b)
  BY <1>1 DEF Ended
<1> HIDE DEF w, a
<1> QED
  BY <1>1, <1>3, <1>4, <1>5, RunTaskPhase

\* A step that changes one execution outside of RunTask.
LEMMA FieldPhase ==
  ASSUME WellTyped, NEW b \in Bills, NEW w, wf' = [wf EXCEPT ![b] = w],
         starts'[b] = starts[b] => ~Ended(b), StatusOK(wf[b]) => StatusOK(w),
         w.phase = "completed" => wf[b].phase = "closing" /\ act[b].st = "committed",
         \A c \in Bills : act'[c] = act[c] \/ act'[c].st # "committed"
  PROVE  \A c \in Bills : PhaseMoves(c)
<1>1. wf'[b] = w /\ \A c \in Bills \ {b} : wf'[c] = wf[c]
  BY DEF WellTyped, TypeOK
<1> QED
  BY <1>1 DEF PhaseMoves

LEMMA CreateBillPhase ==
  ASSUME WellTyped, NEW b \in Bills, NEW c \in Currencies, NEW p \in Periods[b],
         CreateBill(b, c, p)
  PROVE  \A d \in Bills : PhaseMoves(d)
<1> DEFINE w == initialBill("start", c, p)
<1>1. wf' = [wf EXCEPT ![b] = w] /\ act' = act
  BY DEF CreateBill
<1>2. w.phase = "start" /\ w.status = "OPEN"
  BY DEF initialBill
<1>3. starts[b] \in Nat /\ starts'[b] = starts[b] + 1
  BY DEF CreateBill, WellTyped, TypeOK
<1>4. starts'[b] # starts[b]
  BY <1>3
<1> HIDE DEF w
<1>5. StatusOK(w)
  BY <1>2 DEF StatusOK
<1> QED
  BY <1>1, <1>2, <1>4, <1>5, FieldPhase

LEMMA MainPhase ==
  ASSUME WellTyped, NEW b \in Bills,
         CloseBill(b) \/ PeriodPasses(b) \/ FirstTask(b) \/ CreateFailed(b)
  PROVE  \A c \in Bills : PhaseMoves(c)
<1>0. wf[b] \in Executions /\ act \in [Tasks -> Activities] /\ b \in Tasks /\ Bills \subseteq Tasks
  BY DEF WellTyped, TypeOK, Tasks
<1>1. CASE CloseBill(b)
  <2> DEFINE w == [wf[b] EXCEPT !.signal = TRUE]
  <2>1. wf' = [wf EXCEPT ![b] = w] /\ act' = act /\ ~Ended(b)
    BY <1>1 DEF CloseBill, Running
  <2>2. w.phase = wf[b].phase /\ w.status = wf[b].status
    BY <1>0 DEF Executions
  <2> HIDE DEF w
  <2> QED
    BY <2>1, <2>2, FieldPhase DEF StatusOK, Ended
<1>2. CASE PeriodPasses(b)
  <2> DEFINE w == [wf[b] EXCEPT !.period = "over"]
  <2>1. wf' = [wf EXCEPT ![b] = w] /\ act' = act /\ ~Ended(b)
    BY <1>2 DEF PeriodPasses, Running
  <2>2. w.phase = wf[b].phase /\ w.status = wf[b].status
    BY <1>0 DEF Executions
  <2> HIDE DEF w
  <2> QED
    BY <2>1, <2>2, FieldPhase DEF StatusOK, Ended
<1>3. CASE FirstTask(b)
  <2> DEFINE w == [wf[b] EXCEPT !.phase = "creating"]
  <2>1. wf' = [wf EXCEPT ![b] = w] /\ wf[b].phase = "start"
        /\ act' = [act EXCEPT ![b] = Schedule(CreateInput(b))]
    BY <1>3 DEF FirstTask
  <2>2. w.phase = "creating" /\ w.status = wf[b].status
    BY <1>0 DEF Executions
  <2>3. \A c \in Bills : act'[c] = act[c] \/ act'[c].st # "committed"
    BY <1>0, <2>1 DEF Schedule
  <2> HIDE DEF w
  <2> QED
    BY <2>1, <2>2, <2>3, FieldPhase DEF StatusOK, Ended, EndPhases
<1>4. CASE CreateFailed(b)
  <2> DEFINE w == [wf[b] EXCEPT !.phase = "failed"]
  <2>1. wf' = [wf EXCEPT ![b] = w] /\ wf[b].phase = "creating"
        /\ act' = [act EXCEPT ![b] = NoTask]
    BY <1>4 DEF CreateFailed
  <2>2. w.phase = "failed" /\ w.status = wf[b].status
    BY <1>0 DEF Executions
  <2>3. \A c \in Bills : act'[c] = act[c] \/ act'[c].st # "committed"
    BY <1>0, <2>1, NoTaskType
  <2> HIDE DEF w
  <2> QED
    BY <2>1, <2>2, <2>3, FieldPhase DEF StatusOK, Ended, EndPhases
<1> QED
  BY <1>1, <1>2, <1>3, <1>4

LEMMA EndPhase ==
  ASSUME WellTyped, NEW b \in Bills, CloseDone(b) \/ CloseFailed(b)
  PROVE  \A c \in Bills : PhaseMoves(c)
<1>1. PICK ph \in {"completed", "failed"} :
        EndWorkflow(b, ph) /\ (ph = "completed" => act[b].st = "committed")
  BY DEF CloseDone, CloseFailed
<1> DEFINE w == [wf[b] EXCEPT !.phase = ph]
<1>2. wf' = [wf EXCEPT ![b] = w]
  BY <1>1 DEF EndWorkflow
<1>3. w.phase = ph /\ w.status = wf[b].status /\ wf[b].phase = "closing"
  BY DEF WellTyped, TypeOK, Executions, CloseDone, CloseFailed
<1>4. \A c \in Bills : act'[c] = NoTask \/ act'[c] = act[c]
  BY <1>1 DEF EndWorkflow, Tasks
<1> HIDE DEF w
<1>5. StatusOK(wf[b]) => StatusOK(w)
  BY <1>3 DEF StatusOK, EndPhases
<1>6. ~Ended(b)
  BY <1>3 DEF Ended
<1> QED
  BY <1>1, <1>2, <1>3, <1>4, <1>5, <1>6, NoTaskType, FieldPhase

\* A step that leaves the executions alone.
LEMMA StillPhase ==
  ASSUME wf' = wf,
         \A c \in Bills : act'[c].st = "committed" =>
           \/ act[c].st = "committed" /\ act'[c].in = act[c].in
           \/ \E x \in open : CommitTx(x) /\ x.in = act'[c].in
  PROVE  \A c \in Bills : PhaseMoves(c)
BY DEF PhaseMoves

\* The steps of activity attempts.
LEMMA AttemptPhase ==
  ASSUME WellTyped, NEW t \in Tasks,
         StartAttempt(t) \/ LoseAttempt(t) \/ ExpireActivity(t) \/ EndAttempt(t)
  PROVE  \A c \in Bills : PhaseMoves(c)
<1>1. wf' = wf
  BY DEF StartAttempt, LoseAttempt, ExpireActivity, EndAttempt, CommitTx, AbortTx
<1>2. Bills \subseteq Tasks
  BY DEF Tasks
<1>3. CASE StartAttempt(t) \/ LoseAttempt(t) \/ ExpireActivity(t)
           \/ \E x \in open : AbortTx(x) /\ x.task = t
  <2>1. \A s \in Tasks : act'[s].st # "idle" => act'[s].in = act[s].in
    BY <1>3, AttemptActs
  <2>2. \A s \in Tasks : act'[s].st = "committed" => act[s].st = "committed"
    BY <1>3, AttemptActs
  <2> QED
    BY <1>1, <1>2, <2>1, <2>2, StillPhase
<1>4. ASSUME NEW x \in open, CommitTx(x)
      PROVE  \A c \in Bills : PhaseMoves(c)
  <2>1. \A s \in Tasks : act'[s].st # "idle" => act'[s].in = act[s].in
    BY <1>4, CommitActs
  <2>2. \A s \in Tasks : act'[s].st = "committed" =>
          act[s].st = "committed" \/ act[s].in = x.in
    BY <1>4, CommitActs
  <2> QED
    BY <1>1, <1>2, <1>4, <2>1, <2>2, StillPhase
<1> QED
  BY <1>3, <1>4 DEF EndAttempt

\* Every step.
LEMMA EndsStep ==
  ASSUME WellTyped, [Next]_vars
  PROVE  \A b \in Bills : PhaseMoves(b)
<1>0. act \in [Tasks -> Activities] /\ Bills \subseteq Tasks /\ Updates \cap Bills = {}
  BY WorkflowAssumption DEF WellTyped, TypeOK, Tasks
<1>1. ASSUME NEW b \in Bills, WorkflowTask(b)
      PROVE  \A d \in Bills : PhaseMoves(d)
  <2>1. CASE SelectorTask(b)
    BY <1>0, <2>1, SelectPhase DEF SelectorTask, Accepts
  <2> QED
    BY <1>1, <2>1, MainPhase, FirstWaitPhase, EndPhase DEF WorkflowTask
<1>2. ASSUME NEW u \in Updates, NEW r \in Requests, AddLineItemRefused(u, r)
      PROVE  \A d \in Bills : PhaseMoves(d)
  BY <1>2, StillPhase DEF AddLineItemRefused
<1>3. ASSUME NEW u \in Updates, NEW r \in Requests, AddLineItemAnswered(u, r)
      PROVE  \A d \in Bills : PhaseMoves(d)
  BY <1>0, <1>3, RequestTypes, SelectPhase DEF AddLineItemAnswered
<1>4. ASSUME NEW u \in Updates, NEW r \in Requests, AddLineItemStarted(u, r)
      PROVE  \A d \in Bills : PhaseMoves(d)
  <2> DEFINE a == [act EXCEPT ![u] = Schedule(AppendInput(r))]
  <2>1. AppendInput(r) \in Inputs
    BY RequestTypes, ChargeTypes DEF Inputs
  <2>2. a \in [Tasks -> Activities] /\ \A c \in Bills : a[c] = act[c]
    BY <1>0, <2>1, ScheduleType
  <2>3. RunTask(r.bill, Select(wf[r.bill]), TRUE, a) /\ Accepts(r.bill)
    BY <1>4 DEF AddLineItemStarted
  <2> HIDE DEF a
  <2> QED
    BY <2>2, <2>3, RequestTypes, SelectPhase
<1>5. ASSUME NEW u \in Updates, HandlerFailed(u)
      PROVE  \A d \in Bills : PhaseMoves(d)
  <2> DEFINE a == [act EXCEPT ![u] = NoTask]
             b == upd[u].in.bill
  <2>1. a \in [Tasks -> Activities] /\ \A c \in Bills : a[c] = act[c]
    BY <1>0, NoTaskType
  <2>2. RunTask(b, Select(wf[b]), Handlers(b) \ {u} # {}, a) /\ upd[u].st = "running"
    BY <1>5 DEF HandlerFailed
  <2>3. Accepts(b) /\ b \in Bills
    BY <2>2, HandlerFacts DEF Accepts
  <2> HIDE DEF a, b
  <2> QED
    BY <2>1, <2>2, <2>3, SelectPhase
<1>6. CASE UNCHANGED vars
  BY <1>6, StillPhase DEF vars
<1> QED
  BY <1>1, <1>2, <1>3, <1>4, <1>5, <1>6, CreateBillPhase, MainPhase, HandlerDonePhase,
     AttemptPhase DEF Next, HandlerTask

-----------------------------------------------------------------------------
(* What the endpoints rely on beyond IInv *)

\* A workflow that reports its close as done left a CLOSED row.
EndInv(b) ==
  /\ StatusOK(wf[b])
  /\ wf[b].phase = "completed" => bills[b].status = "CLOSED"
  /\ act[b].st = "committed" /\ act[b].in \in CloseInputs => bills[b].status = "CLOSED"

\* An acknowledged key is in the seen set of the bill's only workflow.
AckedSeen ==
  \A u \in Updates : upd[u].code = "OK" =>
    LET r == upd[u].in IN
    /\ upd[u].st = "done" /\ r.bill \in Bills /\ starts[r.bill] > 0
    /\ starts[r.bill] <= 1 => r.id \in wf[r.bill].seen

EndsAgree == (\A b \in Bills : EndInv(b)) /\ AckedSeen

\* Everything the bills satisfy.
BillsInv == Invariant /\ AcksAgree /\ OriginsAgree /\ LogsAgree /\ EndsAgree

\* A row that is CLOSED stays CLOSED, also when its bill is created again.
LEMMA ClosedStays ==
  ASSUME WellTyped, [Next]_vars, NEW b \in Bills, bills[b].status = "CLOSED"
  PROVE  bills'[b].status = "CLOSED"
BY RowMoves DEF NothingFor, Opens, RowExists

\* The transaction of a close leaves a CLOSED row.
LEMMA CloseCommits ==
  ASSUME WellTyped, NEW x \in open, CommitTx(x), x.in \in CloseInputs
  PROVE  bills'[x.in.bill].status = "CLOSED"
<1>1. x.in.kind = "close" /\ x.in.bill \in Bills
  BY DEF CloseInputs
<1>2. CloseBillActivity(x.in)
  BY <1>1 DEF CommitTx, Execute
<1>3. bills \in [Bills -> Rows]
  BY DEF WellTyped, TypeOK, DBTypeOK
<1> QED
  BY <1>1, <1>2, <1>3 DEF CloseBillActivity, Rows

LEMMA EndInvStep ==
  ASSUME WellTyped, WellTyped', [Next]_vars, NEW b \in Bills, EndInv(b)
  PROVE  EndInv(b)'
<1>1. PhaseMoves(b)
  BY EndsStep
<1>2. StatusOK(wf[b])'
  BY <1>1 DEF PhaseMoves, EndInv, StatusOK, EndPhases
<1>3. bills[b].status = "CLOSED" => bills'[b].status = "CLOSED"
  BY ClosedStays
<1>4. wf'[b].phase = "completed" => bills'[b].status = "CLOSED"
  <2>1. act[b].st = "committed" /\ wf[b].phase = "closing" => act[b].in \in CloseInputs
    BY DEF WellTyped, WellFormed, MainOK
  <2> QED
    BY <1>1, <1>3, <2>1 DEF PhaseMoves, EndInv
<1>5. ASSUME act'[b].st = "committed", act'[b].in \in CloseInputs
      PROVE  bills'[b].status = "CLOSED"
  <2>1. CASE act[b].st = "committed" /\ act'[b].in = act[b].in
    BY <1>3, <1>5, <2>1 DEF EndInv
  <2>2. ASSUME NEW x \in open, CommitTx(x), x.in = act'[b].in
        PROVE  bills'[b].status = "CLOSED"
    <3>1. act'[b].in.bill = b
      BY <1>5 DEF WellTyped, WellFormed, MainOK
    <3> QED
      BY <1>5, <2>2, <3>1, CloseCommits
  <2> QED
    BY <1>1, <1>5, <2>1, <2>2 DEF PhaseMoves
<1> QED
  BY <1>2, <1>4, <1>5 DEF EndInv

\* An acknowledgement comes from the seen set, or from the handler that adds
\* its key to it.
LEMMA AckMoves ==
  ASSUME WellTyped, [Next]_vars, NEW u \in Updates, upd'[u].code = "OK", upd'[u] # upd[u]
  PROVE  LET r == upd'[u].in IN
         /\ upd'[u].st = "done" /\ r.bill \in Bills /\ starts' = starts
         /\ wf[r.bill].phase # "none" /\ r.id \in wf'[r.bill].seen
<1> DEFINE Goal == LET r == upd'[u].in IN
         /\ upd'[u].st = "done" /\ r.bill \in Bills /\ starts' = starts
         /\ wf[r.bill].phase # "none" /\ r.id \in wf'[r.bill].seen
<1>0. upd \in [Updates -> Calls] /\ act \in [Tasks -> Activities] /\ wf \in [Bills -> Executions]
  BY DEF WellTyped, TypeOK
<1>1. ASSUME NEW v \in Updates, NEW r \in Requests, AddLineItemAnswered(v, r)
      PROVE  Goal
  <2>1. Answer(v, r, Validate(r.bill, r))
    BY <1>1 DEF AddLineItemAnswered
  <2>2. v = u /\ upd'[u] = [st |-> "done", in |-> r, code |-> Validate(r.bill, r)]
    BY <1>0, <2>1 DEF Answer
  <2>3. /\ Accepts(r.bill) /\ starts' = starts /\ r.id \in wf[r.bill].seen /\ r.bill \in Bills
        /\ RunTask(r.bill, Select(wf[r.bill]), Handlers(r.bill) # {}, act)
    BY <1>1, <2>2, RequestTypes DEF AddLineItemAnswered
  <2>4. wf[r.bill] \in Executions /\ Select(wf[r.bill]) \in Executions
    BY <1>0, <2>3, AcceptingTask
  <2>5. wf'[r.bill] = Proceed(Select(wf[r.bill]), Handlers(r.bill) # {})
    BY <1>0, <2>3, <2>4, RunTaskEffect DEF WellTyped
  <2>6. wf'[r.bill].seen = wf[r.bill].seen
    BY <2>4, <2>5, ProceedFields, SelectFields
  <2> QED
    BY <2>2, <2>3, <2>6 DEF Accepts
<1>2. ASSUME NEW v \in Updates, HandlerDone(v)
      PROVE  Goal
  <2> DEFINE r == upd[v].in
             b == r.bill
             s == Select(wf[b])
             w == Counted(s, r)
             busy == Handlers(b) \ {v} # {}
             a == [act EXCEPT ![v] = NoTask]
  <2>1. /\ Answer(v, r, "OK") /\ upd[v].st = "running" /\ starts' = starts
        /\ RunTask(b, w, busy, a)
    BY <1>2 DEF HandlerDone
  <2>2. v = u /\ upd'[u].st = "done" /\ upd'[u].in = r
    BY <1>0, <2>1 DEF Answer
  <2>3. r \in Requests /\ r \in RequestRecords /\ b \in Bills /\ Accepts(b)
    BY <2>1, HandlerFacts, RequestTypes DEF Accepts
  <2>4. s \in Executions
    BY <2>3, AcceptingTask
  <2>5. w \in Executions /\ w.seen = s.seen \cup {r.id}
    BY <2>3, <2>4, CountedType, CountedFields
  <2>6. a \in [Tasks -> Activities]
    BY <1>0, NoTaskType
  <2> HIDE DEF s, w, a, b
  <2>7. wf'[b] = Proceed(w, busy)
    BY <2>1, <2>3, <2>5, <2>6, RunTaskEffect DEF WellTyped
  <2>8. wf'[b].seen = w.seen
    BY <2>5, <2>7, ProceedFields
  <2> QED
    BY <2>1, <2>2, <2>3, <2>5, <2>8 DEF b, Accepts
<1>3. ASSUME NEW v \in Updates, NEW r, NEW code, Answer(v, r, code), code # "OK"
      PROVE  FALSE
  <2>1. v = u => upd'[u].code = code
    BY <1>0, <1>3 DEF Answer
  <2>2. v # u => upd'[u] = upd[u]
    BY <1>0, <1>3 DEF Answer
  <2> QED
    BY <1>3, <2>1, <2>2
<1>4. ASSUME NEW v \in Updates, NEW r \in Requests, AddLineItemRefused(v, r)
      PROVE  FALSE
  BY <1>3, <1>4 DEF AddLineItemRefused
<1>5. ASSUME NEW v \in Updates, HandlerFailed(v)
      PROVE  FALSE
  BY <1>3, <1>5 DEF HandlerFailed
<1>6. ASSUME NEW v \in Updates, NEW r \in Requests, AddLineItemStarted(v, r)
      PROVE  FALSE
  <2>1. upd' = [upd EXCEPT ![v] = [st |-> "running", in |-> r, code |-> ""]]
    BY <1>6 DEF AddLineItemStarted
  <2> QED
    BY <1>0, <2>1
<1>7. ASSUME NEW b \in Bills, NEW ph, EndWorkflow(b, ph)
      PROVE  FALSE
  <2>1. upd'[u] = [upd[u] EXCEPT !.st = "done", !.code = "Failed"]
    BY <1>7 DEF EndWorkflow
  <2>2. upd[u] \in Calls
    BY <1>0
  <2>3. upd'[u].code = "Failed"
    BY <2>1, <2>2 DEF Calls
  <2> QED
    BY <2>3
<1>8. ASSUME NEW b \in Bills, WorkflowTask(b)
      PROVE  FALSE
  BY <1>7, <1>8 DEF WorkflowTask, CloseDone, CloseFailed, FirstTask, CreateDone, CreateFailed,
                    ResumeTask, SelectorTask
<1>9. ASSUME NEW t \in Tasks,
             StartAttempt(t) \/ LoseAttempt(t) \/ ExpireActivity(t) \/ EndAttempt(t)
      PROVE  FALSE
  BY <1>9 DEF StartAttempt, LoseAttempt, ExpireActivity, EndAttempt, CommitTx, AbortTx
<1>10. upd' # upd
  OBVIOUS
<1> HIDE DEF Goal
<1>11. Goal
  BY <1>1, <1>2, <1>4, <1>5, <1>6, <1>8, <1>9, <1>10
     DEF Next, HandlerTask, CreateBill, CloseBill, PeriodPasses, vars
<1> QED
  BY <1>11 DEF Goal

LEMMA AckedSeenStep ==
  ASSUME WellTyped, [Next]_vars, AckedSeen
  PROVE  AckedSeen'
<1> SUFFICES ASSUME NEW u \in Updates, upd'[u].code = "OK"
             PROVE  LET r == upd'[u].in IN
                    /\ upd'[u].st = "done" /\ r.bill \in Bills /\ starts'[r.bill] > 0
                    /\ starts'[r.bill] <= 1 => r.id \in wf'[r.bill].seen
  BY DEF AckedSeen
<1> DEFINE b == upd'[u].in.bill
<1>1. \A c \in Bills : starts[c] \in Nat
  BY DEF WellTyped, TypeOK
<1>2. CASE upd'[u] # upd[u]
  <2>1. /\ upd'[u].st = "done" /\ b \in Bills /\ starts' = starts
        /\ wf[b].phase # "none" /\ upd'[u].in.id \in wf'[b].seen
    BY <1>2, AckMoves
  <2>2. starts[b] # 0
    BY <2>1 DEF WellTyped, WellFormed, StartedOK
  <2> QED
    BY <1>1, <2>1, <2>2
<1>3. CASE upd'[u] = upd[u]
  <2>1. /\ upd'[u].st = "done" /\ b \in Bills /\ starts[b] > 0
        /\ starts[b] <= 1 => upd'[u].in.id \in wf[b].seen
    BY <1>3 DEF AckedSeen
  <2> HIDE DEF b
  <2>2. CASE starts'[b] = starts[b] /\ ExecutionMoves(b)
    BY <2>1, <2>2 DEF ExecutionMoves, b
  <2>3. CASE starts'[b] = starts[b] + 1
    BY <1>1, <2>1, <2>3 DEF b
  <2> QED
    BY <2>1, <2>2, <2>3, MovesStep DEF WorkflowMoves
<1> QED
  BY <1>2, <1>3

LEMMA EndsInit == Init => EndsAgree
<1> SUFFICES ASSUME Init PROVE EndsAgree
  OBVIOUS
<1>1. \A b \in Bills : wf[b].phase = "none" /\ wf[b].status = "OPEN" /\ act[b].st = "idle"
  BY NoTaskType DEF Init, initialBill, Tasks
<1>2. \A u \in Updates : upd[u].code = ""
  BY DEF Init
<1> QED
  BY <1>1, <1>2 DEF EndsAgree, EndInv, StatusOK, AckedSeen

LEMMA EndsAgreeStep == WellTyped /\ EndsAgree /\ [Next]_vars => EndsAgree'
<1> SUFFICES ASSUME WellTyped, EndsAgree, [Next]_vars
             PROVE  EndsAgree'
  OBVIOUS
<1>1. WellTyped'
  BY WellTypedStep
<1>2. \A b \in Bills : EndInv(b)'
  BY <1>1, EndInvStep DEF EndsAgree
<1>3. AckedSeen'
  BY AckedSeenStep DEF EndsAgree
<1> QED
  BY <1>2, <1>3 DEF EndsAgree

\* All of it holds at first and is kept by every step.
LEMMA BillsInit == Init => BillsInv
BY WellTypedInit, TablesInit, CountsInit, AcksInit, OriginsInit, LogsInit, EndsInit
   DEF BillsInv, Invariant

LEMMA BillsStep == BillsInv /\ [Next]_vars => BillsInv'
<1> SUFFICES ASSUME BillsInv, [Next]_vars
             PROVE  BillsInv'
  OBVIOUS
<1>1. WellTyped /\ TablesAgree /\ Invariant /\ AcksAgree /\ OriginsAgree /\ LogsAgree /\ EndsAgree
  BY DEF BillsInv, Invariant
<1>2. WellTyped' /\ TablesAgree'
  BY <1>1, WellTypedStep, TablesStep
<1>3. CountsAgree' /\ AcksAgree'
  BY <1>1, <1>2, CountsStep, AcksStep
<1>4. OriginsAgree' /\ LogsAgree'
  BY <1>1, OriginsStep, LogsStep
<1>5. EndsAgree'
  BY <1>1, EndsAgreeStep
<1> QED
  BY <1>2, <1>3, <1>4, <1>5 DEF BillsInv, Invariant

-----------------------------------------------------------------------------
(* What a step does to an undisturbed bill that was created *)

LEMMA BillMoves ==
  ASSUME BillsInv, [Next]_vars, NEW b \in Bills, Undisturbed(b)', starts[b] > 0
  PROVE  /\ Undisturbed(b) /\ starts'[b] = starts[b]
         /\ wf[b].seen \subseteq wf'[b].seen
         /\ \A c \in Charges : wf[b].total[c] <= wf'[b].total[c]
         /\ wf[b].phase \in EndPhases => wf'[b].phase \in EndPhases
         /\ Ended(b) => wf'[b] = wf[b]
         /\ ItemsOf(b) \subseteq ItemsOf(b)'
         /\ bills[b].status = "CLOSED" => bills'[b] = bills[b] /\ ItemsOf(b)' = ItemsOf(b)
<1>0. WellTyped /\ TablesAgree /\ Invariant
  BY DEF BillsInv, Invariant
<1>1. Undisturbed(b)
  BY <1>0, StaysUndisturbed
<1>2. starts[b] \in Nat /\ wf[b] \in Executions
  BY <1>0 DEF WellTyped, TypeOK
<1>3. starts'[b] = starts[b] /\ ExecutionMoves(b)
  <2>1. starts'[b] <= 1
    BY DEF Undisturbed
  <2>2. starts'[b] # starts[b] + 1
    BY <1>2, <2>1
  <2> QED
    BY <1>0, <2>2, MovesStep DEF WorkflowMoves
<1>4. wf[b].seen \subseteq wf'[b].seen
  BY <1>3 DEF ExecutionMoves
<1>5. ASSUME NEW c \in Charges
      PROVE  wf[b].total[c] <= wf'[b].total[c]
  <2>1. wf[b].total \in Total
    BY <1>2, ExecutionFields
  <2>2. wf[b].total[c] \in Nat
    BY <2>1 DEF Total
  <2>3. CASE wf'[b].total = wf[b].total
    BY <2>2, <2>3
  <2>4. ASSUME NEW r \in RequestRecords, wf'[b].total = AddTo(wf[b].total, Charge(r))
        PROVE  wf[b].total[c] <= wf'[b].total[c]
    <3>1. wf'[b].total[c] \in {wf[b].total[c], wf[b].total[c] + 1}
      BY <2>1, <2>4 DEF AddTo, Total
    <3> QED
      BY <2>2, <3>1
  <2> QED
    BY <1>3, <2>3, <2>4 DEF ExecutionMoves
<1>6. wf[b].phase \in EndPhases => wf'[b].phase \in EndPhases
  BY <1>3 DEF ExecutionMoves
<1>7. Ended(b) => wf'[b] = wf[b]
  BY <1>0, <1>3, EndsStep DEF PhaseMoves
<1>8. ItemsOf(b) \subseteq ItemsOf(b)'
  BY <1>0, ItemsGrow DEF ItemsOf
<1>9. bills[b].status = "CLOSED" => bills'[b] = bills[b] /\ ItemsOf(b)' = ItemsOf(b)
  BY <1>0, FrozenHolds DEF FrozenStep, Undisturbed
<1> QED
  BY <1>1, <1>3, <1>4, <1>5, <1>6, <1>7, <1>8, <1>9

\* What the workflow, the row and the items of an undisturbed bill have in
\* common, whichever of them a call reads.
LEMMA TotalsAgree ==
  ASSUME BillsInv, NEW b \in Bills, Undisturbed(b)
  PROVE  /\ \A c \in Charges : wf[b].total[c] > 0 =>
              wf[b].total[c] = 1 /\ \E li \in ItemsOf(b) : Charge(li) = c
         /\ \A key \in wf[b].seen : \E li \in ItemsOf(b) :
              li.id = key /\ Charge(li) \in Charges /\ wf[b].total[Charge(li)] = 1
         /\ RowExists(b) => bills[b].total = ItemsTotal(b)
         /\ Ended(b) => \A c \in Charges : wf[b].total[c] = ItemsTotal(b)[c]
         /\ wf[b].phase = "completed" => bills[b].status = "CLOSED"
         /\ bills[b].status = "CLOSED" => wf[b].phase \in EndPhases
         /\ RowExists(b) => starts[b] > 0
<1>0. WellTyped /\ TablesAgree /\ HandlersInv(b) /\ CountInv(b) /\ CloseInv(b)
  BY DEF BillsInv, Invariant, CountsAgree
<1>1. \A c \in Charges : wf[b].total[c] = IF c.id \in wf[b].seen THEN ItemsTotal(b)[c] ELSE 0
  BY <1>0 DEF CountInv
<1>2. \A c \in Charges :
        /\ ItemsTotal(b)[c] = 1 <=> \E li \in ItemsOf(b) : Charge(li) = c
        /\ ItemsTotal(b)[c] = 0 <=> ~ \E li \in ItemsOf(b) : Charge(li) = c
  BY ItemsTotalMeans DEF ItemsOf
<1>3. \A li \in ItemsOf(b) : Charge(li) \in Charges /\ Charge(li).id = li.id
  BY <1>0, ChargeTypes DEF WellTyped, TypeOK, DBTypeOK, ItemsOf, Charge
<1>4. \A c \in Charges : wf[b].total[c] > 0 =>
        wf[b].total[c] = 1 /\ \E li \in ItemsOf(b) : Charge(li) = c
  BY <1>1, <1>2
<1>5. ASSUME NEW key \in wf[b].seen
      PROVE  \E li \in ItemsOf(b) :
               li.id = key /\ Charge(li) \in Charges /\ wf[b].total[Charge(li)] = 1
  <2>1. PICK li \in ItemsOf(b) : li.id = key
    BY DEF BillsInv, AcksAgree, Undisturbed
  <2>2. wf[b].total[Charge(li)] = ItemsTotal(b)[Charge(li)]
    BY <1>1, <1>3, <1>5, <2>1
  <2>3. ItemsTotal(b)[Charge(li)] = 1
    BY <1>2, <1>3
  <2> QED
    BY <1>3, <2>1, <2>2, <2>3
<1>6. bills[b] \in Rows
  BY <1>0 DEF WellTyped, TypeOK, DBTypeOK
<1>7. RowExists(b) => bills[b].total = ItemsTotal(b)
  <2>1. bills[b].status \in {"NONE", "OPEN", "CLOSED"}
    BY <1>6 DEF Rows
  <2>2. bills[b].status = "OPEN" => bills[b].total = ItemsTotal(b)
    BY <1>0 DEF TablesAgree, OpenTotalIsItems
  <2>3. bills[b].status = "CLOSED" => bills[b].total = ItemsTotal(b)
    BY <1>0 DEF CloseInv, Closes
  <2> QED
    BY <2>1, <2>2, <2>3 DEF RowExists
<1>8. ASSUME Ended(b), NEW c \in Charges
      PROVE  wf[b].total[c] = ItemsTotal(b)[c]
  <2>1. \A u \in Updates : ~RunningOn(u, b)
    BY <1>0, <1>8, Unborn DEF Ended
  <2>2. \A li \in ItemsOf(b) : li.id \in wf[b].seen
    BY <1>0, <2>1 DEF CountInv
  <2>3. c.id \notin wf[b].seen => ~ \E li \in ItemsOf(b) : Charge(li) = c
    BY <1>3, <2>2
  <2> QED
    BY <1>1, <1>2, <2>3
<1>9. wf[b].phase = "completed" => bills[b].status = "CLOSED"
  BY DEF BillsInv, EndsAgree, EndInv
<1>10. bills[b].status = "CLOSED" => wf[b].phase \in EndPhases
  BY <1>0 DEF CloseInv
<1>11. RowExists(b) => starts[b] > 0
  <2>1. starts[b] \in Nat
    BY <1>0 DEF WellTyped, TypeOK
  <2>2. RowExists(b) => starts[b] # 0
    BY DEF BillsInv, LogsAgree, BirthInv
  <2> QED
    BY <2>1, <2>2
<1> QED
  BY <1>4, <1>5, <1>7, <1>8, <1>9, <1>10, <1>11

-----------------------------------------------------------------------------
(* What a call knows: its past, where it is and what it has read *)

NoAnswer == [summary |-> NoSummary, items |-> {}]

\* What a client was told of b is in the workflow and in the table.
Covered(b, s, items) ==
  /\ \A c \in Charges : s.total[c] <= wf[b].total[c]
  /\ s.status = "CLOSED" => wf[b].phase \in EndPhases
  /\ items \subseteq ItemsOf(b)

\* The answers the client had, and the acknowledgements there were, before.
PastInv(a) ==
  /\ a.created =>
       /\ starts[a.bill] > 0
       /\ Covered(a.bill, a.prior.summary, a.prior.items)
       /\ a.acked \subseteq wf[a.bill].seen
  /\ ~a.created => a.prior = NoAnswer /\ a.acked = {}

\* A call on a created bill reads the row first only when the workflow has
\* ended; CloseBill reads it only then.
PlaceInv(a) ==
  /\ a.pc = "row" /\ a.created => Ended(a.bill)
  /\ a.pc = "signal" => starts[a.bill] > 0
  /\ a.pc \in {"get", "wait"} => starts[a.bill] > 0 /\ a.start = starts[a.bill]
  /\ a.pc = "closeRow" => Ended(a.bill)
  /\ a.pc = "done" /\ a.code = "NotFound" /\ a.created /\ a.caller = Owner[a.bill] =>
       wf[a.bill].phase = "failed"

\* The summary beside the items S, which are those of the bill as long as the
\* call has not read them.
SummaryInv(a, S) ==
  LET b == a.bill
      s == a.summary
  IN /\ S \subseteq ItemsOf(b)
     /\ a.prior.items \subseteq S
     /\ \A c \in Charges : a.prior.summary.total[c] <= s.total[c]
     /\ a.prior.summary.status = "CLOSED" /\ wf[b].phase # "failed" => s.status = "CLOSED"
     /\ \A c \in Charges : s.total[c] > 0 =>
          s.total[c] = 1 /\ \E li \in S : Charge(li) = c
     /\ \A key \in a.acked : \E li \in S : li.id = key /\ s.total[Charge(li)] = 1
     /\ a.created => Covered(b, s, S)
     /\ a.op = "CloseBill" =>
          /\ Ended(b)
          /\ s.status = "OPEN" => wf[b].phase = "failed"
          /\ s.status = "CLOSED" =>
               /\ bills[b].status = "CLOSED"
               /\ \A c \in Charges : s.total[c] = IF \E li \in S : Charge(li) = c THEN 1 ELSE 0

HasSummary(a) == a.pc = "items" \/ (a.pc = "done" /\ a.code = "OK")

CallInv(a) ==
  Undisturbed(a.bill) =>
    /\ PastInv(a)
    /\ PlaceInv(a)
    /\ HasSummary(a) =>
         starts[a.bill] > 0 /\ SummaryInv(a, IF a.pc = "done" THEN a.items ELSE ItemsOf(a.bill))

\* Retention takes the history of no workflow that still runs.
ForgottenInv ==
  \A b \in Bills :
    /\ forgotten[b] <= starts[b]
    /\ forgotten[b] # 0 /\ forgotten[b] = starts[b] => Ended(b)

CallsInv == \A q \in Readers : read[q].pc # "idle" => CallInv(read[q])

EInv == BillsInv /\ EndpointsTypeOK /\ ForgottenInv /\ CallsInv

-----------------------------------------------------------------------------
(* The bills go on while a call waits *)

\* The total and the status an answer has are typed.
LEMMA ReadFields ==
  ASSUME NEW a \in Reads
  PROVE  /\ a.bill \in Bills /\ a.created \in BOOLEAN /\ a.caller \in Accounts
         /\ a.summary \in Summaries /\ a.prior.summary \in Summaries
         /\ a.items \in SUBSET LineItems /\ a.prior.items \in SUBSET LineItems
         /\ a.acked \in SUBSET Items /\ a.start \in 0 .. MaxStarts
         /\ a.prior \in [summary : Summaries, items : SUBSET LineItems]
         /\ \A c \in Charges :
              a.summary.total[c] \in Nat /\ a.prior.summary.total[c] \in Nat
BY DEF Reads, Summaries, Total

LEMMA CoveredStays ==
  ASSUME BillsInv, [Next]_vars, NEW b \in Bills, Undisturbed(b)', starts[b] > 0,
         NEW s \in Summaries, NEW S, Covered(b, s, S)
  PROVE  Covered(b, s, S)'
<1>1. /\ \A c \in Charges : wf[b].total[c] <= wf'[b].total[c]
      /\ wf[b].phase \in EndPhases => wf'[b].phase \in EndPhases
      /\ ItemsOf(b) \subseteq ItemsOf(b)'
  BY BillMoves
<1>2. ASSUME NEW c \in Charges
      PROVE  s.total[c] <= wf'[b].total[c]
  <2>1. s.total[c] \in Nat
    BY DEF Summaries, Total
  <2>2. wf[b].total \in Total /\ wf'[b].total \in Total
    BY BillsStep, ExecutionFields DEF BillsInv, Invariant, WellTyped, TypeOK
  <2>3. wf[b].total[c] \in Nat /\ wf'[b].total[c] \in Nat
    BY <2>2 DEF Total
  <2>4. s.total[c] <= wf[b].total[c]
    BY DEF Covered
  <2> QED
    BY <1>1, <2>1, <2>3, <2>4
<1> QED
  BY <1>1, <1>2 DEF Covered

LEMMA PastStays ==
  ASSUME BillsInv, [Next]_vars, NEW a \in Reads, Undisturbed(a.bill)', PastInv(a)
  PROVE  PastInv(a)'
<1>1. a.bill \in Bills /\ a.prior.summary \in Summaries
  BY ReadFields
<1>2. CASE a.created
  <2>1. starts[a.bill] > 0
    BY <1>2 DEF PastInv
  <2>2. starts'[a.bill] = starts[a.bill] /\ wf[a.bill].seen \subseteq wf'[a.bill].seen
    BY <1>1, <2>1, BillMoves
  <2>3. Covered(a.bill, a.prior.summary, a.prior.items)
    BY <1>2 DEF PastInv
  <2>4. Covered(a.bill, a.prior.summary, a.prior.items)'
    BY <1>1, <2>1, <2>3, CoveredStays
  <2> QED
    BY <1>2, <2>1, <2>2, <2>4 DEF PastInv
<1>3. CASE ~a.created
  BY <1>3 DEF PastInv
<1> QED
  BY <1>2, <1>3

\* A workflow that has ended was started, and stays as it is.
LEMMA EndedStays ==
  ASSUME BillsInv, [Next]_vars, NEW b \in Bills, Undisturbed(b)', Ended(b)
  PROVE  starts[b] > 0 /\ wf'[b] = wf[b]
<1>1. starts[b] \in Nat /\ starts[b] # 0
  BY DEF BillsInv, Invariant, WellTyped, TypeOK, WellFormed, StartedOK, Ended
<1>2. starts[b] > 0
  BY <1>1
<1> QED
  BY <1>2, BillMoves

LEMMA PlaceStays ==
  ASSUME BillsInv, [Next]_vars, NEW a \in Reads, Undisturbed(a.bill)', PlaceInv(a)
  PROVE  PlaceInv(a)'
<1>1. a.bill \in Bills
  BY ReadFields
<1>2. starts[a.bill] > 0 => starts'[a.bill] = starts[a.bill]
  BY <1>1, BillMoves
<1>3. Ended(a.bill) => wf'[a.bill] = wf[a.bill]
  BY <1>1, EndedStays
<1> QED
  BY <1>2, <1>3 DEF PlaceInv, Ended

LEMMA SummaryStays ==
  ASSUME BillsInv, [Next]_vars, NEW a \in Reads, Undisturbed(a.bill)', starts[a.bill] > 0,
         NEW S, SummaryInv(a, S), NEW T, S \subseteq T, T \subseteq ItemsOf(a.bill)',
         bills[a.bill].status = "CLOSED" => T = S
  PROVE  SummaryInv(a, T)'
<1> DEFINE b == a.bill
           s == a.summary
<1>1. b \in Bills /\ s \in Summaries
  BY ReadFields
<1>2. /\ Ended(b) => wf'[b] = wf[b]
      /\ wf[b].phase = "failed" => wf'[b] = wf[b]
      /\ bills[b].status = "CLOSED" => bills'[b] = bills[b]
  BY <1>1, BillMoves DEF Ended
<1>3. a.created => Covered(b, s, T)'
  <2>1. a.created => Covered(b, s, S)
    BY DEF SummaryInv
  <2>2. a.created => Covered(b, s, S)'
    BY <1>1, <2>1, CoveredStays
  <2> QED
    BY <2>2 DEF Covered
<1>4. /\ a.prior.items \subseteq T
      /\ \A c \in Charges : a.prior.summary.total[c] <= s.total[c]
      /\ \A c \in Charges : s.total[c] > 0 =>
           s.total[c] = 1 /\ \E li \in T : Charge(li) = c
      /\ \A key \in a.acked : \E li \in T : li.id = key /\ s.total[Charge(li)] = 1
  BY DEF SummaryInv
<1>5. a.prior.summary.status = "CLOSED" /\ wf'[b].phase # "failed" => s.status = "CLOSED"
  BY <1>2 DEF SummaryInv
<1>6. ASSUME a.op = "CloseBill"
      PROVE  /\ Ended(b)'
             /\ s.status = "OPEN" => wf'[b].phase = "failed"
             /\ s.status = "CLOSED" =>
                  /\ bills'[b].status = "CLOSED"
                  /\ \A c \in Charges :
                       s.total[c] = IF \E li \in T : Charge(li) = c THEN 1 ELSE 0
  BY <1>2, <1>6 DEF SummaryInv, Ended
<1> QED
  BY <1>3, <1>4, <1>5, <1>6 DEF SummaryInv

LEMMA CallStays ==
  ASSUME BillsInv, [Next]_vars, NEW a \in Reads, CallInv(a)
  PROVE  CallInv(a)'
<1> SUFFICES ASSUME Undisturbed(a.bill)'
             PROVE  /\ PastInv(a)' /\ PlaceInv(a)'
                    /\ HasSummary(a) =>
                         /\ starts'[a.bill] > 0
                         /\ SummaryInv(a, IF a.pc = "done" THEN a.items ELSE ItemsOf(a.bill))'
  BY DEF CallInv, HasSummary
<1>1. a.bill \in Bills /\ WellTyped
  BY ReadFields DEF BillsInv, Invariant
<1>2. Undisturbed(a.bill)
  BY <1>1, StaysUndisturbed
<1>3. PastInv(a)' /\ PlaceInv(a)'
  BY <1>2, PastStays, PlaceStays DEF CallInv
<1>4. ASSUME HasSummary(a)
      PROVE  /\ starts'[a.bill] > 0
             /\ SummaryInv(a, IF a.pc = "done" THEN a.items ELSE ItemsOf(a.bill))'
  <2>1. starts[a.bill] > 0
    BY <1>2, <1>4 DEF CallInv
  <2>2. /\ starts'[a.bill] = starts[a.bill]
        /\ ItemsOf(a.bill) \subseteq ItemsOf(a.bill)'
        /\ bills[a.bill].status = "CLOSED" => ItemsOf(a.bill)' = ItemsOf(a.bill)
    BY <1>1, <2>1, BillMoves
  <2>3. PICK S : S = IF a.pc = "done" THEN a.items ELSE ItemsOf(a.bill)
    OBVIOUS
  <2>4. PICK T : T = IF a.pc = "done" THEN a.items ELSE ItemsOf(a.bill)'
    OBVIOUS
  <2>5. SummaryInv(a, S)
    BY <1>2, <1>4, <2>3 DEF CallInv
  <2>6. S \subseteq T /\ T \subseteq ItemsOf(a.bill)' /\ (bills[a.bill].status = "CLOSED" => T = S)
    BY <2>2, <2>3, <2>4, <2>5 DEF SummaryInv
  <2>7. SummaryInv(a, T)'
    BY <2>1, <2>5, <2>6, SummaryStays
  <2>8. SummaryInv(a, IF a.pc = "done" THEN a.items ELSE ItemsOf(a.bill))'
    BY <2>4, <2>7
  <2> QED
    BY <2>1, <2>2, <2>8
<1> QED
  BY <1>3, <1>4

-----------------------------------------------------------------------------
(* What a step of a call does to what it knows, the bills left alone *)

\* The call is the same one; a call that has failed is no longer one of an
\* operation.
SameCall(a, d) ==
  /\ d.bill = a.bill /\ d.caller = a.caller
  /\ d.created = a.created /\ d.prior = a.prior

LEMMA PastKept ==
  ASSUME NEW a, NEW d, SameCall(a, d), d.acked \subseteq a.acked, PastInv(a)
  PROVE  PastInv(d)
BY DEF SameCall, PastInv

\* A step that reads nothing; the last one of a wait drops the start.
LEMMA GoesTo ==
  ASSUME NEW a \in Reads, CallInv(a), NEW pc \in {"row", "signal", "closeRow"},
         NEW start \in 0 .. MaxStarts, NEW d, d = [a EXCEPT !.pc = pc, !.start = start],
         Undisturbed(a.bill) =>
           /\ pc = "row" /\ a.created => Ended(a.bill)
           /\ pc = "signal" => starts[a.bill] > 0
           /\ pc = "closeRow" => Ended(a.bill)
  PROVE  d \in Reads /\ d.pc # "idle" /\ CallInv(d)
<1>1. d \in Reads /\ d.pc = pc /\ SameCall(a, d) /\ d.acked = a.acked
  BY DEF Reads, Steps, SameCall
<1>2. ~HasSummary(d)
  BY <1>1 DEF HasSummary
<1>3. ASSUME Undisturbed(d.bill)
      PROVE  PastInv(d) /\ PlaceInv(d)
  <2>1. Undisturbed(a.bill) /\ d.bill = a.bill /\ d.created = a.created
    BY <1>1, <1>3 DEF SameCall
  <2>2. PastInv(d)
    BY <1>1, <2>1, PastKept DEF CallInv
  <2>3. PlaceInv(d)
    BY <1>1, <2>1 DEF PlaceInv
  <2> QED
    BY <2>2, <2>3
<1> QED
  BY <1>1, <1>2, <1>3 DEF CallInv

LEMMA KeepsStart ==
  ASSUME NEW a \in Reads, CallInv(a), NEW pc \in {"row", "signal", "closeRow"},
         NEW d, d = [a EXCEPT !.pc = pc],
         Undisturbed(a.bill) =>
           /\ pc = "row" /\ a.created => Ended(a.bill)
           /\ pc = "signal" => starts[a.bill] > 0
           /\ pc = "closeRow" => Ended(a.bill)
  PROVE  d \in Reads /\ d.pc # "idle" /\ CallInv(d)
<1>1. a.start \in 0 .. MaxStarts
  BY ReadFields
<1>2. d = [a EXCEPT !.pc = pc, !.start = a.start]
  BY DEF Reads
<1> QED
  BY <1>1, <1>2, GoesTo

\* The signal was delivered, or the workflow to wait for was found.
LEMMA StartsWait ==
  ASSUME BillsInv, NEW a \in Reads, CallInv(a), starts[a.bill] > 0, NEW pc \in {"get", "wait"},
         NEW d, d = [a EXCEPT !.pc = pc, !.start = starts[a.bill]]
  PROVE  d \in Reads /\ d.pc # "idle" /\ CallInv(d)
<1>0. starts[a.bill] \in 0 .. MaxStarts
  BY ReadFields DEF BillsInv, Invariant, WellTyped, TypeOK
<1>1. /\ d \in Reads /\ d.pc = pc /\ d.start = starts[a.bill] /\ SameCall(a, d)
      /\ d.acked = a.acked
  BY <1>0 DEF Reads, Steps, SameCall
<1>2. ~HasSummary(d)
  BY <1>1 DEF HasSummary
<1>3. ASSUME Undisturbed(d.bill)
      PROVE  PastInv(d) /\ PlaceInv(d)
  <2>1. Undisturbed(a.bill) /\ d.bill = a.bill
    BY <1>1, <1>3 DEF SameCall
  <2>2. PastInv(d)
    BY <1>1, <2>1, PastKept DEF CallInv
  <2>3. PlaceInv(d)
    BY <1>1, <2>1 DEF PlaceInv
  <2> QED
    BY <2>2, <2>3
<1> QED
  BY <1>1, <1>2, <1>3 DEF CallInv

LEMMA NoSummaryType == NoSummary \in Summaries
BY TotalTypes DEF NoSummary, Summaries

\* The call ends with an error.
LEMMA EndsInError ==
  ASSUME NEW a \in Reads, CallInv(a), NEW code \in {"NotFound", "Unavailable", "Internal"},
         NEW d, d = Failed(a, code),
         Undisturbed(a.bill) /\ code = "NotFound" /\ a.created /\ a.caller = Owner[a.bill] =>
           wf[a.bill].phase = "failed"
  PROVE  d \in Reads /\ d.pc # "idle" /\ CallInv(d)
<1>0. 0 \in 0 .. MaxStarts
  BY WorkflowAssumption
<1>1. /\ d \in Reads /\ d.pc = "done" /\ d.code = code /\ SameCall(a, d)
      /\ d.acked \subseteq a.acked
  BY <1>0, NoSummaryType DEF Failed, Reads, Steps, SameCall
<1>2. ~HasSummary(d)
  BY <1>1 DEF HasSummary
<1>3. ASSUME Undisturbed(d.bill)
      PROVE  PastInv(d) /\ PlaceInv(d)
  <2>1. /\ Undisturbed(a.bill) /\ d.bill = a.bill /\ d.created = a.created
        /\ d.caller = a.caller
    BY <1>1, <1>3 DEF SameCall
  <2>2. PastInv(d)
    BY <1>1, <2>1, PastKept DEF CallInv
  <2>3. PlaceInv(d)
    BY <1>1, <2>1 DEF PlaceInv
  <2> QED
    BY <2>2, <2>3
<1> QED
  BY <1>1, <1>2, <1>3 DEF CallInv

\* What SummaryInv needs of a summary, wherever it was read.
LEMMA SummaryMeets ==
  ASSUME BillsInv, NEW a \in Reads, Undisturbed(a.bill), PastInv(a), starts[a.bill] > 0,
         NEW s \in Summaries,
         \A c \in Charges : s.total[c] > 0 =>
           s.total[c] = 1 /\ \E li \in ItemsOf(a.bill) : Charge(li) = c,
         a.created => \A c \in Charges : s.total[c] = wf[a.bill].total[c],
         a.created /\ wf[a.bill].phase \in EndPhases /\ wf[a.bill].phase # "failed" =>
           s.status = "CLOSED",
         s.status = "CLOSED" => wf[a.bill].phase \in EndPhases,
         a.op = "CloseBill" =>
           /\ Ended(a.bill)
           /\ s.status = "OPEN" => wf[a.bill].phase = "failed"
           /\ s.status = "CLOSED" =>
                /\ bills[a.bill].status = "CLOSED"
                /\ \A c \in Charges : s.total[c] =
                     IF \E li \in ItemsOf(a.bill) : Charge(li) = c THEN 1 ELSE 0,
         NEW d, d = [a EXCEPT !.pc = "items", !.summary = s]
  PROVE  d \in Reads /\ d.pc # "idle" /\ CallInv(d)
<1> DEFINE b == a.bill
<1>0. b \in Bills
  BY ReadFields
<1>1. /\ d \in Reads /\ d.pc = "items" /\ d.summary = s /\ SameCall(a, d)
      /\ d.acked = a.acked /\ d.op = a.op
  BY DEF Reads, Steps, SameCall
<1>2. d.bill = b /\ d.op = a.op /\ d.created = a.created /\ d.prior = a.prior
  BY <1>1 DEF SameCall
<1>3. PastInv(d)
  BY <1>1, PastKept
<1>4. PlaceInv(d)
  BY <1>1 DEF PlaceInv
<1>5. \A c \in Charges : s.total[c] \in Nat /\ wf[b].total[c] \in Nat
  <2>1. wf[b].total \in Total
    BY <1>0, ExecutionFields DEF BillsInv, Invariant, WellTyped, TypeOK
  <2> QED
    BY <2>1 DEF Summaries, Total
<1>6. ASSUME a.created
      PROVE  /\ a.prior.items \subseteq ItemsOf(b)
             /\ \A c \in Charges : a.prior.summary.total[c] <= s.total[c]
             /\ a.prior.summary.status = "CLOSED" /\ wf[b].phase # "failed" => s.status = "CLOSED"
             /\ \A key \in a.acked : \E li \in ItemsOf(b) :
                  li.id = key /\ s.total[Charge(li)] = 1
             /\ Covered(b, s, ItemsOf(b))
  <2>1. Covered(b, a.prior.summary, a.prior.items) /\ a.acked \subseteq wf[b].seen
    BY <1>6 DEF PastInv
  <2>2. /\ a.prior.items \subseteq ItemsOf(b)
        /\ \A c \in Charges : a.prior.summary.total[c] <= s.total[c]
        /\ a.prior.summary.status = "CLOSED" /\ wf[b].phase # "failed" => s.status = "CLOSED"
    BY <1>6, <2>1 DEF Covered
  <2>3. \A key \in a.acked : \E li \in ItemsOf(b) : li.id = key /\ s.total[Charge(li)] = 1
    BY <1>0, <1>6, <2>1, TotalsAgree
  <2>4. Covered(b, s, ItemsOf(b))
    BY <1>5, <1>6 DEF Covered
  <2> QED
    BY <2>2, <2>3, <2>4
<1>7. ASSUME ~a.created
      PROVE  /\ a.prior.items = {} /\ a.acked = {} /\ a.prior.summary.status = ""
             /\ \A c \in Charges : a.prior.summary.total[c] = 0
  <2>1. a.prior = NoAnswer /\ a.acked = {}
    BY <1>7 DEF PastInv
  <2>2. a.prior.items = {} /\ a.prior.summary = NoSummary
    BY <2>1 DEF NoAnswer
  <2>3. NoSummary.status = "" /\ NoSummary.total = ZeroTotal
    BY DEF NoSummary
  <2>4. \A c \in Charges : ZeroTotal[c] = 0
    BY DEF ZeroTotal
  <2> QED
    BY <2>1, <2>2, <2>3, <2>4
<1>8. a.created \in BOOLEAN
  BY ReadFields
<1>9. SummaryInv(d, ItemsOf(b))
  <2>1. d.prior.items \subseteq ItemsOf(b)
    BY <1>2, <1>6, <1>7, <1>8
  <2>2. \A c \in Charges : d.prior.summary.total[c] <= d.summary.total[c]
    <3>1. CASE a.created
      BY <1>1, <1>2, <1>6, <3>1
    <3>2. CASE ~a.created
      <4>1. \A c \in Charges : d.prior.summary.total[c] = 0
        BY <1>2, <1>7, <3>2
      <4>2. \A c \in Charges : d.summary.total[c] \in Nat
        BY <1>1, <1>5
      <4> QED
        BY <4>1, <4>2
    <3> QED
      BY <3>1, <3>2
  <2>3. d.prior.summary.status = "CLOSED" /\ wf[b].phase # "failed" => d.summary.status = "CLOSED"
    BY <1>1, <1>2, <1>6, <1>7, <1>8
  <2>4. \A key \in d.acked : \E li \in ItemsOf(b) : li.id = key /\ d.summary.total[Charge(li)] = 1
    <3>1. CASE a.created
      BY <1>1, <1>6, <3>1
    <3>2. CASE ~a.created
      BY <1>1, <1>7, <3>2
    <3> QED
      BY <3>1, <3>2
  <2>5. d.created => Covered(b, d.summary, ItemsOf(b))
    BY <1>1, <1>2, <1>6
  <2> HIDE DEF b
  <2>6. d.op = "CloseBill" =>
           /\ Ended(b)
           /\ d.summary.status = "OPEN" => wf[b].phase = "failed"
           /\ d.summary.status = "CLOSED" =>
                /\ bills[b].status = "CLOSED"
                /\ \A c \in Charges : d.summary.total[c] =
                     IF \E li \in ItemsOf(b) : Charge(li) = c THEN 1 ELSE 0
    BY <1>1, <1>2 DEF b
  <2>7. \A c \in Charges : d.summary.total[c] > 0 =>
           d.summary.total[c] = 1 /\ \E li \in ItemsOf(b) : Charge(li) = c
    BY <1>1 DEF b
  <2> QED
    BY <1>2, <2>1, <2>2, <2>3, <2>4, <2>5, <2>6, <2>7 DEF SummaryInv
<1> QED
  BY <1>1, <1>2, <1>3, <1>4, <1>9 DEF CallInv

\* A summary that agrees with the items, and with the workflow of a bill that
\* was created before the call.
Meets(a, s) ==
  /\ \A c \in Charges : s.total[c] > 0 =>
       s.total[c] = 1 /\ \E li \in ItemsOf(a.bill) : Charge(li) = c
  /\ a.created => \A c \in Charges : s.total[c] = wf[a.bill].total[c]
  /\ a.created /\ wf[a.bill].phase \in EndPhases /\ wf[a.bill].phase # "failed" =>
       s.status = "CLOSED"
  /\ s.status = "CLOSED" => wf[a.bill].phase \in EndPhases

\* The workflow's memory does.
LEMMA MemoryMeets ==
  ASSUME BillsInv, NEW a \in Reads,
         NEW s, s = [status |-> wf[a.bill].status, total |-> wf[a.bill].total]
  PROVE  s \in Summaries /\ (Undisturbed(a.bill) => Meets(a, s))
<1>1. a.bill \in Bills
  BY ReadFields
<1>2. wf[a.bill] \in Executions
  BY <1>1 DEF BillsInv, Invariant, WellTyped, TypeOK
<1>3. s \in Summaries
  BY <1>2 DEF Executions, Summaries
<1>4. s.status = wf[a.bill].status /\ s.total = wf[a.bill].total
  OBVIOUS
<1>5. StatusOK(wf[a.bill])
  BY <1>1 DEF BillsInv, EndsAgree, EndInv
<1>6. ASSUME Undisturbed(a.bill)
      PROVE  \A c \in Charges : s.total[c] > 0 =>
               s.total[c] = 1 /\ \E li \in ItemsOf(a.bill) : Charge(li) = c
  BY <1>1, <1>4, <1>6, TotalsAgree
<1> QED
  BY <1>3, <1>4, <1>5, <1>6 DEF Meets, StatusOK, EndPhases

\* The row does once the workflow has ended, or when the call came first.
LEMMA RowMeets ==
  ASSUME BillsInv, NEW a \in Reads, RowExists(a.bill), NEW s, s = RowOf(a.bill)
  PROVE  /\ s \in Summaries
         /\ Undisturbed(a.bill) /\ (a.created => Ended(a.bill)) => Meets(a, s)
         /\ Undisturbed(a.bill) /\ Ended(a.bill) =>
              /\ s.status = "OPEN" => wf[a.bill].phase = "failed"
              /\ s.status = "CLOSED" =>
                   /\ bills[a.bill].status = "CLOSED"
                   /\ \A c \in Charges : s.total[c] =
                        IF \E li \in ItemsOf(a.bill) : Charge(li) = c THEN 1 ELSE 0
<1> DEFINE b == a.bill
<1>1. b \in Bills
  BY ReadFields
<1>2. bills[b] \in Rows
  BY <1>1 DEF BillsInv, Invariant, WellTyped, TypeOK, DBTypeOK
<1>3. s \in Summaries
  BY <1>2 DEF Rows, Summaries, RowOf, RowExists
<1>4. s.status = bills[b].status /\ s.total = bills[b].total
  BY DEF RowOf
<1>5. ASSUME Undisturbed(b)
      PROVE  /\ \A c \in Charges :
                  s.total[c] = IF \E li \in ItemsOf(b) : Charge(li) = c THEN 1 ELSE 0
             /\ Ended(b) => \A c \in Charges : s.total[c] = wf[b].total[c]
             /\ Ended(b) /\ wf[b].phase # "failed" => s.status = "CLOSED"
             /\ s.status = "CLOSED" => wf[b].phase \in EndPhases
  <2>1. s.total = ItemsTotal(b)
    BY <1>1, <1>4, <1>5, TotalsAgree
  <2>2. \A c \in Charges : s.total[c] = IF \E li \in ItemsOf(b) : Charge(li) = c THEN 1 ELSE 0
    BY <2>1 DEF ItemsTotal, ItemsOf
  <2>3. /\ Ended(b) => \A c \in Charges : wf[b].total[c] = ItemsTotal(b)[c]
        /\ wf[b].phase = "completed" => bills[b].status = "CLOSED"
        /\ bills[b].status = "CLOSED" => wf[b].phase \in EndPhases
    BY <1>1, <1>5, TotalsAgree
  <2> QED
    BY <1>4, <2>1, <2>2, <2>3 DEF Ended
<1>6. Undisturbed(b) /\ Ended(b) =>
        /\ s.status = "OPEN" => wf[b].phase = "failed"
        /\ s.status = "CLOSED" =>
             /\ bills[b].status = "CLOSED"
             /\ \A c \in Charges :
                  s.total[c] = IF \E li \in ItemsOf(b) : Charge(li) = c THEN 1 ELSE 0
  BY <1>4, <1>5 DEF Ended
<1>7. ASSUME Undisturbed(b), a.created => Ended(b)
      PROVE  Meets(a, s)
  <2>1. \A c \in Charges : s.total[c] > 0 =>
          s.total[c] = 1 /\ \E li \in ItemsOf(b) : Charge(li) = c
    BY <1>5, <1>7
  <2>2. /\ a.created => \A c \in Charges : s.total[c] = wf[b].total[c]
        /\ a.created /\ wf[b].phase \in EndPhases /\ wf[b].phase # "failed" =>
             s.status = "CLOSED"
        /\ s.status = "CLOSED" => wf[b].phase \in EndPhases
    BY <1>5, <1>7
  <2> QED
    BY <2>1, <2>2 DEF Meets
<1> QED
  BY <1>3, <1>6, <1>7

\* The items are read.
LEMMA FetchesItems ==
  ASSUME BillsInv, NEW a \in Reads, CallInv(a), a.pc = "items",
         NEW d, d = [a EXCEPT !.pc = "done", !.code = "OK", !.start = 0,
                              !.items = ItemsOf(a.bill)]
  PROVE  d \in Reads /\ d.pc # "idle" /\ CallInv(d)
<1>0. 0 \in 0 .. MaxStarts /\ ItemsOf(a.bill) \in SUBSET LineItems
  BY WorkflowAssumption DEF BillsInv, Invariant, WellTyped, TypeOK, DBTypeOK, ItemsOf
<1>1. /\ d \in Reads /\ d.pc = "done" /\ d.code = "OK" /\ d.items = ItemsOf(a.bill)
      /\ SameCall(a, d) /\ d.acked = a.acked /\ d.summary = a.summary /\ d.op = a.op
  BY <1>0 DEF Reads, Steps, SameCall
<1>2. /\ d.bill = a.bill /\ d.op = a.op /\ d.created = a.created /\ d.prior = a.prior
  BY <1>1 DEF SameCall
<1>3. ASSUME Undisturbed(a.bill)
      PROVE  PastInv(d) /\ PlaceInv(d) /\ starts[d.bill] > 0 /\ SummaryInv(d, d.items)
  <2>1. PastInv(a) /\ starts[a.bill] > 0 /\ SummaryInv(a, ItemsOf(a.bill))
    BY <1>3 DEF CallInv, HasSummary
  <2>2. PastInv(d)
    BY <1>1, <2>1, PastKept
  <2>3. PlaceInv(d)
    BY <1>1 DEF PlaceInv
  <2>4. SummaryInv(d, d.items)
    BY <1>1, <1>2, <2>1 DEF SummaryInv
  <2> QED
    BY <1>2, <2>1, <2>2, <2>3, <2>4
<1> QED
  BY <1>1, <1>2, <1>3 DEF CallInv

-----------------------------------------------------------------------------
(* The steps of a call *)

\* Client q's call becomes d, of which everything holds that held of the call.
Moves(q, d) ==
  /\ read' = [read EXCEPT ![q] = d]
  /\ d \in Reads /\ d.pc # "idle" /\ CallInv(d)

\* A call that is on its way.
Calling(q, a) ==
  /\ a = read[q] /\ a \in Reads /\ a.pc # "idle" /\ CallInv(a)

LEMMA CallingFound ==
  ASSUME EInv, NEW q \in Readers, read[q].pc # "idle"
  PROVE  \E a : Calling(q, a)
<1>1. read[q] \in Reads \cup {[pc |-> "idle"]}
  BY DEF EInv, EndpointsTypeOK
<1>2. read[q] \in Reads /\ CallInv(read[q])
  BY <1>1 DEF EInv, CallsInv
<1> QED
  BY <1>2 DEF Calling

\* The shapes in which the steps write the call.
LEMMA Writes ==
  ASSUME EInv, NEW q \in Readers, NEW a, Calling(q, a)
  PROVE  /\ \A pc : Goto(q, pc) => read' = [read EXCEPT ![q] = [a EXCEPT !.pc = pc]]
         /\ \A code : Fails(q, code) => read' = [read EXCEPT ![q] = Failed(a, code)]
BY DEF EInv, EndpointsTypeOK, Calling, Goto, Fails

LEMMA OwnerChecked ==
  ASSUME EInv, NEW q \in Readers, NEW a, Calling(q, a), NEW s \in Summaries, CheckOwner(q, s),
         Undisturbed(a.bill) => starts[a.bill] > 0 /\ Meets(a, s)
  PROVE  \E d : Moves(q, d)
<1>0. a = read[q] /\ a \in Reads /\ CallInv(a) /\ BillsInv
  BY DEF Calling, EInv
<1>1. CASE a.caller # Owner[a.bill] /\ Fails(q, "NotFound")
  <2>1. PICK d : d = Failed(a, "NotFound")
    OBVIOUS
  <2>2. d \in Reads /\ d.pc # "idle" /\ CallInv(d)
    BY <1>0, <1>1, <2>1, EndsInError
  <2> QED
    BY <1>1, <2>1, <2>2, Writes DEF Moves
<1>2. CASE Goto(q, "signal")
  <2>1. PICK d : d = [a EXCEPT !.pc = "signal"]
    OBVIOUS
  <2>2. d \in Reads /\ d.pc # "idle" /\ CallInv(d)
    BY <1>0, <2>1, KeepsStart
  <2>3. read' = [read EXCEPT ![q] = d]
    BY <1>2, <2>1, Writes
  <2> QED
    BY <2>2, <2>3 DEF Moves
<1>3. CASE a.op = "GetBill" /\ read' = [read EXCEPT ![q].pc = "items", ![q].summary = s]
  <2>1. PICK d : d = [a EXCEPT !.pc = "items", !.summary = s]
    OBVIOUS
  <2>2. read' = [read EXCEPT ![q] = d]
    BY <1>0, <1>3, <2>1 DEF EInv, EndpointsTypeOK
  <2>3. CASE Undisturbed(a.bill)
    <3>1. PastInv(a) /\ Meets(a, s)
      BY <1>0, <2>3 DEF CallInv
    <3>2. d \in Reads /\ d.pc # "idle" /\ CallInv(d)
      BY <1>0, <1>3, <2>1, <2>3, <3>1, SummaryMeets DEF Meets
    <3> QED
      BY <2>2, <3>2 DEF Moves
  <2>4. CASE ~Undisturbed(a.bill)
    <3>1. d \in Reads /\ d.pc # "idle" /\ d.bill = a.bill
      BY <1>0, <2>1 DEF Reads, Steps
    <3>2. CallInv(d)
      BY <2>4, <3>1 DEF CallInv
    <3> QED
      BY <2>2, <3>1, <3>2 DEF Moves
  <2> QED
    BY <2>3, <2>4
<1> QED
  BY <1>0, <1>1, <1>2, <1>3 DEF CheckOwner

\* Temporal has dropped the history of a workflow only after its end.
LEMMA NotRetained ==
  ASSUME EInv, NEW b \in Bills, ~Retained(b), starts[b] > 0
  PROVE  Ended(b)
<1>1. wf[b].phase = "none" <=> starts[b] = 0
  BY DEF EInv, BillsInv, Invariant, WellTyped, WellFormed, StartedOK
<1>2. starts[b] # 0
  BY DEF EInv, BillsInv, Invariant, WellTyped, TypeOK
<1>3. forgotten[b] = starts[b]
  BY <1>1, <1>2 DEF Retained
<1> QED
  BY <1>2, <1>3 DEF EInv, ForgottenInv

LEMMA StartedMeans ==
  ASSUME BillsInv, NEW b \in Bills
  PROVE  starts[b] \in Nat /\ (wf[b].phase # "none" <=> starts[b] > 0)
<1>1. wf[b].phase = "none" <=> starts[b] = 0
  BY DEF BillsInv, Invariant, WellTyped, WellFormed, StartedOK
<1>2. starts[b] \in Nat
  BY DEF BillsInv, Invariant, WellTyped, TypeOK
<1> QED
  BY <1>1, <1>2

LEMMA QueryMoves ==
  ASSUME EInv, NEW q \in Readers, QueryBillState(q)
  PROVE  \E d : Moves(q, d)
<1>1. PICK a : Calling(q, a)
  BY CallingFound DEF QueryBillState
<1>2. a = read[q] /\ a \in Reads /\ CallInv(a) /\ BillsInv /\ a.bill \in Bills
  BY <1>1, ReadFields DEF Calling, EInv
<1>3. CASE ~Retained(a.bill) /\ Goto(q, "row")
  <2>1. PICK d : d = [a EXCEPT !.pc = "row"]
    OBVIOUS
  <2>2. Undisturbed(a.bill) /\ a.created => Ended(a.bill)
    BY <1>2, <1>3, NotRetained DEF CallInv, PastInv
  <2>3. d \in Reads /\ d.pc # "idle" /\ CallInv(d)
    BY <1>2, <2>1, <2>2, KeepsStart
  <2>4. read' = [read EXCEPT ![q] = d]
    BY <1>1, <1>3, <2>1, Writes
  <2> QED
    BY <2>3, <2>4 DEF Moves
<1>4. CASE /\ Retained(a.bill)
           /\ CheckOwner(q, [status |-> wf[a.bill].status, total |-> wf[a.bill].total])
  <2>1. PICK s : s = [status |-> wf[a.bill].status, total |-> wf[a.bill].total]
    OBVIOUS
  <2>2. s \in Summaries /\ (Undisturbed(a.bill) => Meets(a, s))
    BY <1>2, <2>1, MemoryMeets
  <2>3. starts[a.bill] > 0
    BY <1>2, <1>4, StartedMeans DEF Retained
  <2> QED
    BY <1>1, <1>4, <2>1, <2>2, <2>3, OwnerChecked
<1>5. CASE Fails(q, "Unavailable")
  <2>1. PICK d : d = Failed(a, "Unavailable")
    OBVIOUS
  <2>2. d \in Reads /\ d.pc # "idle" /\ CallInv(d)
    BY <1>2, <2>1, EndsInError
  <2> QED
    BY <1>1, <1>5, <2>1, <2>2, Writes DEF Moves
<1> QED
  BY <1>2, <1>3, <1>4, <1>5 DEF QueryBillState

\* A bill that was created and has no row has failed, if it has ended.
LEMMA MissingRow ==
  ASSUME BillsInv, NEW b \in Bills, Undisturbed(b), Ended(b), ~RowExists(b)
  PROVE  wf[b].phase = "failed"
BY TotalsAgree DEF Ended, RowExists

LEMMA LoadRowMoves ==
  ASSUME EInv, NEW q \in Readers, LoadRow(q)
  PROVE  \E d : Moves(q, d)
<1>1. PICK a : Calling(q, a)
  BY CallingFound DEF LoadRow
<1>2. a = read[q] /\ a \in Reads /\ CallInv(a) /\ BillsInv /\ a.bill \in Bills
  BY <1>1, ReadFields DEF Calling, EInv
<1>3. Undisturbed(a.bill) /\ a.created => Ended(a.bill)
  BY <1>2 DEF LoadRow, CallInv, PlaceInv
<1>4. CASE ~RowExists(a.bill) /\ Fails(q, "NotFound")
  <2>1. PICK d : d = Failed(a, "NotFound")
    OBVIOUS
  <2>2. Undisturbed(a.bill) /\ a.created => wf[a.bill].phase = "failed"
    BY <1>2, <1>3, <1>4, MissingRow
  <2>3. d \in Reads /\ d.pc # "idle" /\ CallInv(d)
    BY <1>2, <2>1, <2>2, EndsInError
  <2> QED
    BY <1>1, <1>4, <2>1, <2>3, Writes DEF Moves
<1>5. CASE RowExists(a.bill) /\ CheckOwner(q, RowOf(a.bill))
  <2>1. PICK s : s = RowOf(a.bill)
    OBVIOUS
  <2>2. s \in Summaries /\ (Undisturbed(a.bill) => Meets(a, s))
    BY <1>2, <1>3, <1>5, <2>1, RowMeets
  <2>3. Undisturbed(a.bill) => starts[a.bill] > 0
    BY <1>2, <1>5, TotalsAgree
  <2> QED
    BY <1>1, <1>5, <2>1, <2>2, <2>3, OwnerChecked
<1> QED
  BY <1>2, <1>4, <1>5 DEF LoadRow

LEMMA SignalMoves ==
  ASSUME EInv, NEW q \in Readers, SignalCloseBill(q)
  PROVE  (\E d : Moves(q, d)) /\ [Next]_vars
<1>1. PICK a : Calling(q, a)
  BY CallingFound DEF SignalCloseBill
<1>2. a = read[q] /\ a \in Reads /\ CallInv(a) /\ BillsInv /\ a.bill \in Bills
  BY <1>1, ReadFields DEF Calling, EInv
<1>3. CASE /\ CloseBill(a.bill)
           /\ read' = [read EXCEPT ![q].pc = "get", ![q].start = starts[a.bill]]
  <2>1. PICK d : d = [a EXCEPT !.pc = "get", !.start = starts[a.bill]]
    OBVIOUS
  <2>2. starts[a.bill] > 0
    BY <1>2, <1>3, StartedMeans DEF CloseBill, Running
  <2>3. d \in Reads /\ d.pc # "idle" /\ CallInv(d)
    BY <1>2, <2>1, <2>2, StartsWait
  <2>4. read' = [read EXCEPT ![q] = d]
    BY <1>2, <1>3, <2>1 DEF EInv, EndpointsTypeOK
  <2>5. Next
    BY <1>2, <1>3 DEF Next
  <2> QED
    BY <2>3, <2>4, <2>5 DEF Moves
<1>4. CASE ~Running(a.bill) /\ Goto(q, "closeRow") /\ UNCHANGED vars
  <2>1. PICK d : d = [a EXCEPT !.pc = "closeRow"]
    OBVIOUS
  <2>2. Undisturbed(a.bill) => Ended(a.bill)
    <3>1. Undisturbed(a.bill) => starts[a.bill] > 0
      BY <1>2 DEF SignalCloseBill, CallInv, PlaceInv
    <3> QED
      BY <1>2, <1>4, <3>1, StartedMeans DEF Running
  <2>3. d \in Reads /\ d.pc # "idle" /\ CallInv(d)
    BY <1>2, <2>1, <2>2, KeepsStart
  <2>4. read' = [read EXCEPT ![q] = d]
    BY <1>1, <1>4, <2>1, Writes
  <2> QED
    BY <1>4, <2>3, <2>4 DEF Moves
<1> QED
  BY <1>2, <1>3, <1>4 DEF SignalCloseBill

LEMMA GetMoves ==
  ASSUME EInv, NEW q \in Readers, GetWorkflow(q)
  PROVE  \E d : Moves(q, d)
<1>1. PICK a : Calling(q, a)
  BY CallingFound DEF GetWorkflow
<1>2. a = read[q] /\ a \in Reads /\ CallInv(a) /\ BillsInv /\ a.bill \in Bills
  BY <1>1, ReadFields DEF Calling, EInv
<1>3. CASE /\ Retained(a.bill)
           /\ read' = [read EXCEPT ![q].pc = "wait", ![q].start = starts[a.bill]]
  <2>1. PICK d : d = [a EXCEPT !.pc = "wait", !.start = starts[a.bill]]
    OBVIOUS
  <2>2. starts[a.bill] > 0
    BY <1>2, <1>3, StartedMeans DEF Retained
  <2>3. d \in Reads /\ d.pc # "idle" /\ CallInv(d)
    BY <1>2, <2>1, <2>2, StartsWait
  <2>4. read' = [read EXCEPT ![q] = d]
    BY <1>2, <1>3, <2>1 DEF EInv, EndpointsTypeOK
  <2> QED
    BY <2>3, <2>4 DEF Moves
<1>4. CASE Fails(q, "Internal")
  <2>1. PICK d : d = Failed(a, "Internal")
    OBVIOUS
  <2>2. d \in Reads /\ d.pc # "idle" /\ CallInv(d)
    BY <1>2, <2>1, EndsInError
  <2>3. read' = [read EXCEPT ![q] = d]
    BY <1>1, <1>4, <2>1, Writes
  <2> QED
    BY <2>2, <2>3 DEF Moves
<1> QED
  BY <1>2, <1>3, <1>4 DEF GetWorkflow

LEMMA AwaitMoves ==
  ASSUME EInv, NEW q \in Readers, AwaitResult(q)
  PROVE  \E d : Moves(q, d)
<1>1. PICK a : Calling(q, a)
  BY CallingFound DEF AwaitResult
<1>2. a = read[q] /\ a \in Reads /\ CallInv(a) /\ BillsInv /\ a.bill \in Bills
  BY <1>1, ReadFields DEF Calling, EInv
<1>3. CASE /\ starts[a.bill] # a.start \/ wf[a.bill].phase = "completed"
           /\ read' = [read EXCEPT ![q].pc = "closeRow", ![q].start = 0]
  <2>1. PICK d : d = [a EXCEPT !.pc = "closeRow", !.start = 0]
    OBVIOUS
  <2>2. Undisturbed(a.bill) => Ended(a.bill)
    BY <1>2, <1>3 DEF AwaitResult, CallInv, PlaceInv, Ended
  <2>3. 0 \in 0 .. MaxStarts
    BY WorkflowAssumption
  <2>4. d \in Reads /\ d.pc # "idle" /\ CallInv(d)
    BY <1>2, <2>1, <2>2, <2>3, GoesTo
  <2>5. read' = [read EXCEPT ![q] = d]
    BY <1>2, <1>3, <2>1 DEF EInv, EndpointsTypeOK
  <2> QED
    BY <2>4, <2>5 DEF Moves
<1>4. CASE Fails(q, "Internal")
  <2>1. PICK d : d = Failed(a, "Internal")
    OBVIOUS
  <2>2. d \in Reads /\ d.pc # "idle" /\ CallInv(d)
    BY <1>2, <2>1, EndsInError
  <2>3. read' = [read EXCEPT ![q] = d]
    BY <1>1, <1>4, <2>1, Writes
  <2> QED
    BY <2>2, <2>3 DEF Moves
<1> QED
  BY <1>2, <1>3, <1>4 DEF AwaitResult

LEMMA CloseRowMoves ==
  ASSUME EInv, NEW q \in Readers, closeBillFromDB(q)
  PROVE  \E d : Moves(q, d)
<1>1. PICK a : Calling(q, a)
  BY CallingFound DEF closeBillFromDB
<1>2. a = read[q] /\ a \in Reads /\ CallInv(a) /\ BillsInv /\ a.bill \in Bills
  BY <1>1, ReadFields DEF Calling, EInv
<1>3. Undisturbed(a.bill) => Ended(a.bill)
  BY <1>2 DEF closeBillFromDB, CallInv, PlaceInv
<1>4. CASE RowExists(a.bill)
  <2>1. PICK s : s = RowOf(a.bill)
    OBVIOUS
  <2>2. PICK d : d = [a EXCEPT !.pc = "items", !.summary = s]
    OBVIOUS
  <2>3. read' = [read EXCEPT ![q] = d]
    BY <1>2, <1>4, <2>1, <2>2 DEF closeBillFromDB, EInv, EndpointsTypeOK
  <2>4. s \in Summaries
    BY <1>2, <1>4, <2>1, RowMeets
  <2>5. CASE Undisturbed(a.bill)
    <3>1. Ended(a.bill) /\ PastInv(a) /\ starts[a.bill] > 0
      BY <1>2, <1>3, <1>4, <2>5, TotalsAgree DEF CallInv
    <3>2. Meets(a, s)
      BY <1>2, <1>4, <2>1, <2>5, <3>1, RowMeets
    <3>3. /\ s.status = "OPEN" => wf[a.bill].phase = "failed"
          /\ s.status = "CLOSED" =>
               /\ bills[a.bill].status = "CLOSED"
               /\ \A c \in Charges : s.total[c] =
                    IF \E li \in ItemsOf(a.bill) : Charge(li) = c THEN 1 ELSE 0
      BY <1>2, <1>4, <2>1, <2>5, <3>1, RowMeets
    <3>4. d \in Reads /\ d.pc # "idle" /\ CallInv(d)
      BY <1>2, <2>2, <2>4, <2>5, <3>1, <3>2, <3>3, SummaryMeets DEF Meets
    <3> QED
      BY <2>3, <3>4 DEF Moves
  <2>6. CASE ~Undisturbed(a.bill)
    <3>1. d \in Reads /\ d.pc # "idle" /\ d.bill = a.bill
      BY <1>2, <2>2, <2>4 DEF Reads, Steps
    <3>2. CallInv(d)
      BY <2>6, <3>1 DEF CallInv
    <3> QED
      BY <2>3, <3>1, <3>2 DEF Moves
  <2> QED
    BY <2>5, <2>6
<1>5. CASE ~RowExists(a.bill)
  <2>1. PICK d : d = Failed(a, "NotFound")
    OBVIOUS
  <2>2. Undisturbed(a.bill) => wf[a.bill].phase = "failed"
    BY <1>2, <1>3, <1>5, MissingRow
  <2>3. d \in Reads /\ d.pc # "idle" /\ CallInv(d)
    BY <1>2, <2>1, <2>2, EndsInError
  <2>4. read' = [read EXCEPT ![q] = d]
    BY <1>2, <1>5, <2>1 DEF closeBillFromDB, EInv, EndpointsTypeOK
  <2> QED
    BY <2>3, <2>4 DEF Moves
<1> QED
  BY <1>4, <1>5

LEMMA FetchMoves ==
  ASSUME EInv, NEW q \in Readers, fetchLineItems(q)
  PROVE  \E d : Moves(q, d)
<1>1. PICK a : Calling(q, a)
  BY CallingFound DEF fetchLineItems
<1>2. a = read[q] /\ a \in Reads /\ CallInv(a) /\ BillsInv /\ a.pc = "items"
  BY <1>1 DEF Calling, EInv, fetchLineItems
<1>3. PICK d : d = [a EXCEPT !.pc = "done", !.code = "OK", !.start = 0, !.items = ItemsOf(a.bill)]
  OBVIOUS
<1>4. d \in Reads /\ d.pc # "idle" /\ CallInv(d)
  BY <1>2, <1>3, FetchesItems
<1>5. read' = [read EXCEPT ![q] = d]
  BY <1>2, <1>3 DEF fetchLineItems, EInv, EndpointsTypeOK
<1> QED
  BY <1>4, <1>5 DEF Moves

LEMMA FailMoves ==
  ASSUME EInv, NEW q \in Readers, ReadFails(q)
  PROVE  \E d : Moves(q, d)
<1>1. PICK a : Calling(q, a)
  BY CallingFound DEF ReadFails
<1>2. a = read[q] /\ a \in Reads /\ CallInv(a)
  BY <1>1 DEF Calling
<1>3. PICK code \in {"Unavailable", "Internal"} : Fails(q, code)
  BY DEF ReadFails
<1>4. PICK d : d = Failed(a, code)
  OBVIOUS
<1>5. d \in Reads /\ d.pc # "idle" /\ CallInv(d)
  BY <1>2, <1>3, <1>4, EndsInError
<1>6. read' = [read EXCEPT ![q] = d]
  BY <1>1, <1>3, <1>4, Writes
<1> QED
  BY <1>5, <1>6 DEF Moves

\* Before the client has heard of the bill there is nothing to cover.
LEMMA NothingKnown ==
  ASSUME BillsInv, NEW b \in Bills
  PROVE  /\ NoAnswer \in [summary : Summaries, items : SUBSET LineItems]
         /\ Covered(b, NoAnswer.summary, NoAnswer.items)
<1>1. wf[b].total \in Total
  BY ExecutionFields DEF BillsInv, Invariant, WellTyped, TypeOK
<1>2. NoAnswer.summary = NoSummary /\ NoAnswer.items = {}
  BY DEF NoAnswer
<1>3. NoSummary.status = "" /\ NoSummary.total = ZeroTotal
  BY DEF NoSummary
<1>4. \A c \in Charges : ZeroTotal[c] <= wf[b].total[c]
  BY <1>1 DEF ZeroTotal, Total
<1>5. Covered(b, NoAnswer.summary, NoAnswer.items)
  BY <1>2, <1>3, <1>4 DEF Covered
<1> QED
  BY <1>5, NoSummaryType DEF NoAnswer

\* What Prior hands to the next call.
LEMMA PriorMeans ==
  ASSUME EInv, NEW q \in Readers, NEW b \in Bills
  PROVE  /\ Prior(q, b) \in [summary : Summaries, items : SUBSET LineItems]
         /\ Undisturbed(b) /\ starts[b] > 0 =>
              Covered(b, Prior(q, b).summary, Prior(q, b).items)
         /\ Undisturbed(b) /\ ~(starts[b] > 0) => Prior(q, b) = NoAnswer
<1>0. BillsInv
  BY DEF EInv
<1>1. CASE read[q].pc = "idle" \/ read[q].bill # b
  <2>1. Prior(q, b) = NoAnswer
    BY <1>1 DEF Prior, NoAnswer
  <2> QED
    BY <1>0, <2>1, NothingKnown
<1>2. CASE read[q].pc # "idle" /\ read[q].bill = b
  <2>1. PICK a : Calling(q, a)
    BY <1>2, CallingFound
  <2>2. a = read[q] /\ a \in Reads /\ CallInv(a) /\ a.bill = b
    BY <1>2, <2>1 DEF Calling
  <2>3. /\ a.created \in BOOLEAN /\ a.summary \in Summaries /\ a.items \in SUBSET LineItems
        /\ a.prior \in [summary : Summaries, items : SUBSET LineItems]
    BY <2>2, ReadFields
  <2>4. CASE a.pc = "done" /\ a.code = "OK" /\ a.created
    <3>1. PICK p : p = Prior(q, b)
      OBVIOUS
    <3>2. p = [summary |-> a.summary, items |-> a.items]
      BY <1>2, <2>2, <2>4, <3>1 DEF Prior, Answered
    <3>3. p.summary = a.summary /\ p.items = a.items
          /\ p \in [summary : Summaries, items : SUBSET LineItems]
      BY <2>3, <3>2
    <3>4. Undisturbed(b) => starts[b] > 0 /\ Covered(b, a.summary, a.items)
      BY <2>2, <2>4 DEF CallInv, HasSummary, SummaryInv
    <3> QED
      BY <3>1, <3>3, <3>4
  <2>5. CASE ~(a.pc = "done" /\ a.code = "OK" /\ a.created)
    <3>1. Prior(q, b) = a.prior
      BY <1>2, <2>2, <2>5 DEF Prior, Answered
    <3>2. CASE a.created
      <4>1. Undisturbed(b) => starts[b] > 0 /\ Covered(b, a.prior.summary, a.prior.items)
        BY <2>2, <3>2 DEF CallInv, PastInv
      <4> QED
        BY <2>3, <3>1, <4>1
    <3>3. CASE ~a.created
      <4>1. Undisturbed(b) => a.prior = NoAnswer
        BY <2>2, <3>3 DEF CallInv, PastInv
      <4> QED
        BY <1>0, <2>3, <3>1, <4>1, NothingKnown
    <3> QED
      BY <3>2, <3>3
  <2> QED
    BY <2>4, <2>5
<1> QED
  BY <1>1, <1>2

LEMMA BeginMoves ==
  ASSUME EInv, NEW q \in Readers, NEW op \in {"GetBill", "CloseBill"}, NEW b \in Bills,
         NEW caller \in Accounts, Begin(q, op, b, caller)
  PROVE  \E d : Moves(q, d)
<1>0. BillsInv
  BY DEF EInv
<1>1. PICK p : p = Prior(q, b)
  OBVIOUS
<1>2. PICK keys : keys = {upd[u].in.id : u \in {v \in Updates :
                            upd[v].code = "OK" /\ upd[v].in.bill = b}}
  OBVIOUS
<1>3. PICK created : created = (starts[b] > 0)
  OBVIOUS
<1>4. PICK d : d = [op |-> op, bill |-> b, caller |-> caller, pc |-> "query",
                    summary |-> NoSummary, items |-> {}, start |-> 0, code |-> "",
                    created |-> created, acked |-> keys, prior |-> p]
  OBVIOUS
<1>5. read' = [read EXCEPT ![q] = d]
  BY <1>1, <1>2, <1>3, <1>4 DEF Begin
<1>6. \A u \in Updates : upd[u].code = "OK" =>
        /\ upd[u].in \in Requests /\ starts[upd[u].in.bill] > 0
        /\ starts[upd[u].in.bill] <= 1 => upd[u].in.id \in wf[upd[u].in.bill].seen
  BY <1>0 DEF BillsInv, Invariant, WellTyped, WellFormed, HandlersOK, EndsAgree, AckedSeen
<1>7. keys \subseteq Items
  BY <1>2, <1>6, RequestTypes
<1>8. 0 \in 0 .. MaxStarts
  BY WorkflowAssumption
<1>9. p \in [summary : Summaries, items : SUBSET LineItems] /\ created \in BOOLEAN
  BY <1>1, <1>3, PriorMeans
<1>10. d \in Reads
  BY <1>4, <1>7, <1>8, <1>9, NoSummaryType DEF Reads, Steps
<1>11. d.bill = b /\ d.pc = "query" /\ d.created = created /\ d.acked = keys /\ d.prior = p
  BY <1>4
<1>12. ASSUME Undisturbed(b)
       PROVE  PastInv(d)
  <2>1. CASE starts[b] > 0
    <3>1. Covered(b, p.summary, p.items)
      BY <1>1, <1>12, <2>1, PriorMeans
    <3>2. keys \subseteq wf[b].seen
      BY <1>2, <1>6, <1>12 DEF Undisturbed
    <3> QED
      BY <1>3, <1>11, <2>1, <3>1, <3>2 DEF PastInv
  <2>2. CASE ~(starts[b] > 0)
    <3>1. p = NoAnswer
      BY <1>1, <1>12, <2>2, PriorMeans
    <3>2. keys = {}
      BY <1>2, <1>6, <2>2
    <3> QED
      BY <1>3, <1>11, <2>2, <3>1, <3>2 DEF PastInv
  <2> QED
    BY <2>1, <2>2
<1>13. PlaceInv(d) /\ ~HasSummary(d)
  BY <1>11 DEF PlaceInv, HasSummary
<1>14. CallInv(d)
  BY <1>11, <1>12, <1>13 DEF CallInv
<1> QED
  BY <1>5, <1>10, <1>11, <1>14 DEF Moves

-----------------------------------------------------------------------------
(* Every step of the service and its clients *)

\* What a step of a client comes to: the bills take a step of their own, or
\* none, and at most one call moves.
LEMMA StepMoves ==
  ASSUME EInv, [ENext]_evars
  PROVE  /\ [Next]_vars
         /\ read' = read \/ \E q \in Readers : \E d : Moves(q, d)
         /\ forgotten' = forgotten \/ (UNCHANGED <<vars, read>> /\ \E b \in Bills : Forget(b))
<1>1. CASE Next /\ UNCHANGED <<read, forgotten>>
  BY <1>1
<1>2. ASSUME NEW q \in Readers, NEW op \in {"GetBill", "CloseBill"}, NEW b \in Bills,
             NEW a \in Accounts, Begin(q, op, b, a)
      PROVE  (\E d : Moves(q, d)) /\ UNCHANGED <<vars, forgotten>>
  BY <1>2, BeginMoves DEF Begin
<1>3. ASSUME NEW q \in Readers, ReadStep(q) \/ ReadFails(q)
      PROVE  (\E d : Moves(q, d)) /\ [Next]_vars /\ forgotten' = forgotten
  <2>1. CASE QueryBillState(q)
    BY <2>1, QueryMoves DEF QueryBillState
  <2>2. CASE LoadRow(q)
    BY <2>2, LoadRowMoves DEF LoadRow
  <2>3. CASE SignalCloseBill(q)
    BY <2>3, SignalMoves DEF SignalCloseBill
  <2>4. CASE AwaitResult(q)
    BY <2>4, AwaitMoves DEF AwaitResult
  <2>5. CASE closeBillFromDB(q)
    BY <2>5, CloseRowMoves DEF closeBillFromDB
  <2>6. CASE fetchLineItems(q)
    BY <2>6, FetchMoves DEF fetchLineItems
  <2>7. CASE ReadFails(q)
    BY <2>7, FailMoves DEF ReadFails
  <2>8. CASE GetWorkflow(q)
    BY <2>8, GetMoves DEF GetWorkflow
  <2> QED
    BY <1>3, <2>1, <2>2, <2>3, <2>4, <2>5, <2>6, <2>7, <2>8 DEF ReadStep
<1>4. ASSUME NEW b \in Bills, Forget(b)
      PROVE  UNCHANGED <<vars, read>>
  BY <1>4 DEF Forget
<1>5. CASE UNCHANGED evars
  BY <1>5 DEF evars
<1> QED
  BY <1>1, <1>2, <1>3, <1>4, <1>5 DEF ENext

LEMMA ForgottenStep ==
  ASSUME EInv, [ENext]_evars
  PROVE  ForgottenInv' /\ forgotten' \in [Bills -> 0 .. MaxStarts]
<1>1. BillsInv /\ WellTyped /\ forgotten \in [Bills -> 0 .. MaxStarts] /\ [Next]_vars
  BY StepMoves DEF EInv, EndpointsTypeOK, BillsInv, Invariant
<1>2. \A b \in Bills : starts[b] \in 0 .. MaxStarts /\ starts'[b] \in 0 .. MaxStarts
  BY <1>1, WellTypedStep DEF WellTyped, TypeOK
<1>3. \A b \in Bills : starts[b] \in Nat /\ starts'[b] \in Nat /\ forgotten[b] \in Nat
  BY <1>1, <1>2
<1>4. CASE forgotten' = forgotten
  <2> SUFFICES ASSUME NEW b \in Bills
               PROVE  /\ forgotten[b] <= starts'[b]
                      /\ forgotten[b] # 0 /\ forgotten[b] = starts'[b] => Ended(b)'
    BY <1>1, <1>4 DEF ForgottenInv
  <2>1. forgotten[b] <= starts[b] /\ (forgotten[b] # 0 /\ forgotten[b] = starts[b] => Ended(b))
    BY DEF EInv, ForgottenInv
  <2>2. CASE starts'[b] = starts[b]
    <3>1. Ended(b) => wf'[b] = wf[b]
      BY <1>1, <2>2, EndsStep DEF PhaseMoves
    <3> QED
      BY <2>1, <2>2, <3>1 DEF Ended
  <2>3. CASE starts'[b] = starts[b] + 1
    BY <1>3, <2>1, <2>3
  <2> QED
    BY <1>1, <2>2, <2>3, MovesStep DEF WorkflowMoves
<1>5. ASSUME NEW b \in Bills, Forget(b), UNCHANGED <<vars, read>>
      PROVE  ForgottenInv' /\ forgotten' \in [Bills -> 0 .. MaxStarts]
  <2>1. forgotten' = [forgotten EXCEPT ![b] = starts[b]] /\ Ended(b)
    BY <1>5 DEF Forget
  <2>2. starts' = starts /\ wf' = wf
    BY <1>5 DEF vars
  <2>3. forgotten' \in [Bills -> 0 .. MaxStarts]
    BY <1>1, <1>2, <2>1
  <2>4. ASSUME NEW c \in Bills
        PROVE  /\ forgotten'[c] <= starts[c]
               /\ forgotten'[c] # 0 /\ forgotten'[c] = starts[c] => Ended(c)
    <3>1. CASE c = b
      BY <1>1, <1>3, <2>1, <3>1
    <3>2. CASE c # b
      BY <1>1, <2>1, <3>2 DEF EInv, ForgottenInv
    <3> QED
      BY <3>1, <3>2
  <2> QED
    BY <2>2, <2>3, <2>4 DEF ForgottenInv, Ended
<1> QED
  BY <1>1, <1>4, <1>5, StepMoves

LEMMA CallsStep ==
  ASSUME EInv, [ENext]_evars
  PROVE  CallsInv' /\ read' \in [Readers -> Reads \cup {[pc |-> "idle"]}]
<1>1. BillsInv /\ [Next]_vars /\ read \in [Readers -> Reads \cup {[pc |-> "idle"]}]
  BY StepMoves DEF EInv, EndpointsTypeOK
<1>2. ASSUME NEW q \in Readers, read'[q] = read[q], read[q].pc # "idle"
      PROVE  CallInv(read[q])'
  <2>1. PICK a : Calling(q, a)
    BY <1>2, CallingFound
  <2>2. a = read'[q] /\ a \in Reads /\ CallInv(a)
    BY <1>2, <2>1 DEF Calling
  <2>3. CallInv(a)'
    BY <1>1, <2>2, CallStays
  <2> QED
    BY <2>2, <2>3
<1>3. CASE read' = read
  <2>1. CallsInv'
    BY <1>2, <1>3 DEF CallsInv
  <2> QED
    BY <1>1, <1>3, <2>1
<1>4. ASSUME NEW q \in Readers, NEW d, Moves(q, d)
      PROVE  CallsInv' /\ read' \in [Readers -> Reads \cup {[pc |-> "idle"]}]
  <2>1. read' = [read EXCEPT ![q] = d] /\ d \in Reads /\ CallInv(d)
    BY <1>4 DEF Moves
  <2>2. read' \in [Readers -> Reads \cup {[pc |-> "idle"]}]
    BY <1>1, <2>1
  <2>3. read'[q] = d /\ \A p \in Readers \ {q} : read'[p] = read[p]
    BY <1>1, <2>1
  <2>4. CallInv(d)'
    BY <1>1, <2>1, CallStays
  <2>5. CallInv(read[q])'
    BY <2>3, <2>4
  <2>6. CallsInv'
    BY <1>2, <2>3, <2>5 DEF CallsInv
  <2> QED
    BY <2>2, <2>6
<1> QED
  BY <1>3, <1>4, StepMoves

LEMMA EInvInit == EInit => EInv
<1> SUFFICES ASSUME EInit PROVE EInv
  OBVIOUS
<1>1. BillsInv
  BY BillsInit DEF EInit
<1>2. 0 \in 0 .. MaxStarts
  BY WorkflowAssumption
<1>3. EndpointsTypeOK
  BY <1>2 DEF EInit, EndpointsTypeOK
<1>4. \A b \in Bills : forgotten[b] = 0 /\ starts[b] = 0
  BY DEF EInit, Init
<1>5. ForgottenInv
  <2>0. 0 <= 0
    OBVIOUS
  <2>1. \A b \in Bills : forgotten[b] <= starts[b]
    BY <1>4, <2>0, Zenon
  <2>2. \A b \in Bills : ~(forgotten[b] # 0 /\ forgotten[b] = starts[b])
    BY <1>4
  <2> QED
    BY <2>1, <2>2 DEF ForgottenInv
<1>6. CallsInv
  BY DEF EInit, CallsInv
<1> QED
  BY <1>1, <1>3, <1>5, <1>6 DEF EInv

LEMMA EInvStep == EInv /\ [ENext]_evars => EInv'
<1> SUFFICES ASSUME EInv, [ENext]_evars PROVE EInv'
  OBVIOUS
<1>1. BillsInv'
  BY StepMoves, BillsStep DEF EInv
<1> QED
  BY <1>1, ForgottenStep, CallsStep DEF EInv, EndpointsTypeOK

LEMMA EInvHolds == ESpec => []EInv
BY EInvInit, EInvStep, PTL DEF ESpec

\* What an answer to a call on an undisturbed bill satisfies.
LEMMA AnswerMeans ==
  ASSUME EInv, NEW q \in Readers, Answered(q), Undisturbed(read[q].bill)
  PROVE  SummaryInv(read[q], read[q].items)
<1>1. PICK a : Calling(q, a)
  BY CallingFound DEF Answered
<1> QED
  BY <1>1 DEF Calling, Answered, CallInv, HasSummary

-----------------------------------------------------------------------------
(* Theorems *)

\* Types: a call only reads summaries and items that the tables or the
\* workflow have, and retention names a start there was.
THEOREM EndpointsTypeCorrect == ESpec => []EndpointsTypeOK
<1>1. EInv => EndpointsTypeOK
  BY DEF EInv
<1> QED
  BY <1>1, EInvHolds, PTL

\* GetBill and CloseBill return every item that AddLineItem had acknowledged
\* before the call, in the items and in the total.
THEOREM ReadYourWritesTheorem == ESpec => []ReadYourWrites
<1>1. EInv => ReadYourWrites
  BY AnswerMeans DEF ReadYourWrites, SummaryInv
<1> QED
  BY <1>1, EInvHolds, PTL

\* Every charge in the total of an answer is among its items, once, although
\* loadBillSummary and fetchLineItems read at different times.
THEOREM ItemsCoverTheorem == ESpec => []ItemsCoverTotal
<1>1. EInv => ItemsCoverTotal
  BY AnswerMeans DEF ItemsCoverTotal, SummaryInv
<1> QED
  BY <1>1, EInvHolds, PTL

\* Successive answers to one client never go back, whether the workflow or
\* the row was read.
THEOREM MonotonicTheorem == ESpec => []MonotonicReads
<1>1. EInv => MonotonicReads
  BY AnswerMeans DEF MonotonicReads, SummaryInv
<1> QED
  BY <1>1, EInvHolds, PTL

\* CloseBill answers only after the workflow has ended, with a closed bill
\* whose total is the sum of the items it returns, or after a failed close.
THEOREM CloseAnswersTheorem == ESpec => []CloseAnswersClosed
<1>1. EInv => CloseAnswersClosed
  BY AnswerMeans DEF CloseAnswersClosed, SummaryInv
<1> QED
  BY <1>1, EInvHolds, PTL

\* The fallback of loadBillSummary to the row does not tell the owner of a
\* bill that is being created that there is none.
THEOREM NotFoundTheorem == ESpec => []NotFoundIsTrue
<1>1. EInv => NotFoundIsTrue
  <2> SUFFICES ASSUME EInv, NEW q \in Readers, read[q].pc = "done", read[q].code = "NotFound",
                      read[q].created, read[q].caller = Owner[read[q].bill],
                      Undisturbed(read[q].bill)
               PROVE  wf[read[q].bill].phase = "failed"
    BY DEF NotFoundIsTrue
  <2>1. PICK a : Calling(q, a)
    BY CallingFound
  <2> QED
    BY <2>1 DEF Calling, CallInv, PlaceInv
<1> QED
  BY <1>1, EInvHolds, PTL
=============================================================================
