---------------------------- MODULE BillWorkflow ----------------------------
(***************************************************************************)
(* BillingWorkflow (bill/workflow.go), the activities it runs              *)
(* (bill/activities.go) and the calls that reach it through Temporal       *)
(* (CreateBill, AddLineItem and CloseBill of bill/endpoints.go).           *)
(*                                                                         *)
(* A Temporal workflow runs in workflow tasks: one event (an update, a     *)
(* signal, a timer, an activity result) is applied and every coroutine     *)
(* runs until all block.  A workflow task is one step here.  An activity   *)
(* is not: its attempts start, commit or abort a transaction, report, time *)
(* out and are retried, each in a step of its own, and a transaction of an *)
(* attempt that Temporal has given up may still commit.                    *)
(***************************************************************************)
EXTENDS BillDB, FiniteSets

CONSTANTS
  Periods,      \* per bill, the period ends CreateBill may be given
  Updates,      \* AddLineItem calls
  Requests,     \* what such a call may ask for
  Threshold,    \* continueAsNewThreshold
  MaxAttempts,  \* MaximumAttempts of shortActivityOpts
  Faults,       \* whether attempts may fail, time out or lose their result
  KeyedBills,   \* bills created with an Idempotency-Key
  MaxStarts     \* bound: how often CreateBill starts a workflow for one bill

RequestRecords ==
  [bill : Bills, id : Items, amount : Amounts, currency : Currencies,
   caller : Accounts, described : BOOLEAN]

ASSUME WorkflowAssumption ==
  /\ Periods \in [Bills -> SUBSET {"none", "pending", "over"}]
  /\ Updates \cap Bills = {}
  /\ Requests \subseteq RequestRecords
  /\ Threshold \in Nat \ {0}
  /\ MaxAttempts \in Nat \ {0}
  /\ MaxStarts \in Nat \ {0}
  /\ Faults \in BOOLEAN
  /\ KeyedBills \subseteq Bills

VARIABLES
  wf,      \* per bill, the workflow execution with id "bill-<id>"
  starts,  \* per bill, how often such a workflow was started
  upd,     \* AddLineItem calls and the update handlers that serve them
  act,     \* the pending activity of a bill's main coroutine or of a handler
  open,    \* database transactions of activity attempts, not yet ended
  hazard   \* history: what happened to a bill that the code does not guard

vars == <<bills, lineItems, billEvents, wf, starts, upd, act, open, hazard>>

-----------------------------------------------------------------------------
(* State *)

Phases == {"none",      \* no workflow was started
           "start",     \* started, the first workflow task is pending
           "creating",  \* waits for CreateBillActivity
           "await",     \* waits in awaitCloseOrThreshold
           "drain",     \* waits for AllHandlersFinished
           "resume",    \* continued as new, the first task is pending
           "closing",   \* waits for CloseBillActivity
           "completed", "failed"}

Executions ==
  [phase : Phases, status : {"OPEN", "CLOSED"}, currency : Currencies \cup {""},
   total : Total, itemCount : Nat, seen : SUBSET Items,
   reason : CloseReasons \cup {""}, signal : BOOLEAN,
   period : {"none", "pending", "over"}, run : {0, 1}]

Tasks == Bills \cup Updates

NoInput == [kind |-> "none"]

NoTask == [st |-> "idle", try |-> 0, in |-> NoInput]

Activities == [st : {"idle", "scheduled", "started", "committed", "failed"},
               try : 0 .. MaxAttempts, in : Inputs \cup {NoInput}]

Codes == {"", "OK", "NotFound", "FailedPrecondition", "InvalidArgument", "Failed"}

Calls == [st : {"idle", "running", "done"}, in : Requests \cup {NoInput},
          code : Codes]

\* An attempt's transaction: whose attempt, of which start of the workflow.
Attempts == [task : Tasks, start : 1 .. MaxStarts, try : 1 .. MaxAttempts,
             in : Inputs]

Hazards == {"sameKey", "late", "lostAck", "sharedKey"}

TypeOK ==
  /\ DBTypeOK
  /\ wf \in [Bills -> Executions]
  /\ starts \in [Bills -> 0 .. MaxStarts]
  /\ upd \in [Updates -> Calls]
  /\ act \in [Tasks -> Activities]
  /\ open \subseteq Attempts
  /\ hazard \in [Bills -> SUBSET Hazards]

\* initialBill and initialSeen of a run without a snapshot.
initialBill(phase, currency, period) ==
  [phase |-> phase, status |-> "OPEN", currency |-> currency,
   total |-> ZeroTotal, itemCount |-> 0, seen |-> {}, reason |-> "",
   signal |-> FALSE, period |-> period, run |-> 0]

Init ==
  /\ DBInit
  /\ wf = [b \in Bills |-> initialBill("none", "", "none")]
  /\ starts = [b \in Bills |-> 0]
  /\ upd = [u \in Updates |-> [st |-> "idle", in |-> NoInput, code |-> ""]]
  /\ act = [t \in Tasks |-> NoTask]
  /\ open = {}
  /\ hazard = [b \in Bills |-> {}]

Ended(b) == wf[b].phase \in {"completed", "failed"}

Running(b) == wf[b].phase # "none" /\ ~Ended(b)

\* Update handlers that have not finished (workflow.AllHandlersFinished).
Handlers(b) == {u \in Updates : upd[u].st = "running" /\ upd[u].in.bill = b}

-----------------------------------------------------------------------------
(* One workflow task of the main coroutine *)

\* Mutant: no timer branch.
SelectIgnoresTimer(w) ==
  [w EXCEPT !.reason = IF w.phase # "await" THEN @
                       ELSE IF w.signal THEN "SIGNAL" ELSE ""]

\* The selector coroutine of awaitCloseOrThreshold runs in every task while
\* the main coroutine waits there; the signal's case comes first.
Select(w) ==
  [w EXCEPT !.reason = IF w.phase # "await" THEN @
                       ELSE IF w.signal THEN "SIGNAL"
                       ELSE IF w.period = "over" THEN "PERIOD_END" ELSE ""]

\* The first task of awaitCloseOrThreshold.  At the threshold the main
\* coroutine leaves before the selector coroutine has run; otherwise a period
\* end that has passed is taken before the signal channel is looked at.
awaitCloseOrThreshold(w) ==
  [w EXCEPT !.phase = "await",
            !.reason = IF w.itemCount >= Threshold THEN ""
                       ELSE IF w.period = "over" THEN "PERIOD_END"
                       ELSE IF w.signal THEN "SIGNAL" ELSE ""]

\* Mutant: the seen set is not handed over.
continueAsNewForgets(w) ==
  [w EXCEPT !.phase = "resume", !.signal = FALSE, !.run = 1 - @, !.seen = {}]

\* The next run starts from the snapshot and the seen set.  Signals received
\* by the old run are not part of the hand-over.
continueAsNew(w) ==
  [w EXCEPT !.phase = "resume", !.signal = FALSE, !.run = 1 - @]

finalize(w) == [w EXCEPT !.phase = "closing", !.status = "CLOSED"]

\* Mutant: the owner is recorded for every close.
CloseInputOwner(b, w) ==
  [kind |-> "close", bill |-> b, total |-> w.total, reason |-> w.reason,
   actor |-> Owner[b]]

CloseInput(b, w) ==
  [kind |-> "close", bill |-> b, total |-> w.total, reason |-> w.reason,
   actor |-> IF w.reason = "SIGNAL" THEN Owner[b] ELSE SystemActor]

Schedule(in) == [st |-> "scheduled", try |-> 1, in |-> in]

Waits(w) ==
  \/ w.phase = "closing"
  \/ w.phase = "await" /\ w.reason = "" /\ w.itemCount < Threshold

\* Mutant: handlers in flight are not waited for.
ProceedWithoutDrain(w, busy) ==
  IF Waits(w) THEN w
  ELSE IF w.reason = "" THEN continueAsNew(w)
  ELSE finalize(w)

\* The main coroutine of BillingWorkflow from where it waits to where it waits
\* next; busy says whether some update handler has not finished.
Proceed(w, busy) ==
  IF Waits(w) THEN w
  ELSE IF busy THEN [w EXCEPT !.phase = "drain"]
  ELSE IF w.reason = "" THEN continueAsNew(w)
  ELSE finalize(w)

\* A task of b's workflow in which the coroutines other than the main one
\* leave the execution at w and the pending activities at a.
RunTask(b, w, busy, a) ==
  LET p == Proceed(w, busy) IN
  /\ wf' = [wf EXCEPT ![b] = p]
  /\ act' = IF p.phase = "closing" /\ w.phase # "closing"
            THEN [a EXCEPT ![b] = Schedule(CloseInput(b, p))]
            ELSE a

-----------------------------------------------------------------------------
(* Calls of the endpoints *)

\* ExecuteWorkflow on a workflow id that is running changes nothing; on one
\* that has ended it starts a new workflow (reuse policy AllowDuplicate).
CreateBill(b, currency, period) ==
  /\ currency \in Registered
  /\ \/ wf[b].phase = "none"
     \/ Ended(b) /\ b \in KeyedBills
  /\ starts[b] < MaxStarts
  /\ starts' = [starts EXCEPT ![b] = @ + 1]
  /\ wf' = [wf EXCEPT ![b] = initialBill("start", currency, period)]
  /\ UNCHANGED <<dbVars, upd, act, open, hazard>>

\* CloseBill signals the workflow once assertOwnsBill has loaded the bill: from
\* the workflow, which answers after CreateBillActivity has returned, or, when
\* the query was made before CreateBill, from the row that this activity has
\* committed.  So the signal may arrive before the activity's result does.
CloseBill(b) ==
  /\ RowExists(b)
  /\ Running(b)
  /\ wf' = [wf EXCEPT ![b].signal = TRUE]
  /\ UNCHANGED <<dbVars, starts, upd, act, open, hazard>>

\* The checks of the endpoint before it sends the update.
EndpointRejects(r) ==
  \/ ~r.described
  \/ r.amount = 0
  \/ r.currency \notin Registered

\* Mutant: the bill's currency is not enforced.
ValidateAnyCurrency(b, r) ==
  IF r.caller # Owner[b] THEN "NotFound"
  ELSE IF r.amount = 0 \/ ~r.described THEN "InvalidArgument"
  ELSE "OK"

\* Mutant: the caller is not compared with the owner.
ValidateAnyCaller(b, r) ==
  IF r.currency # wf[b].currency THEN "FailedPrecondition"
  ELSE IF r.amount = 0 \/ ~r.described THEN "InvalidArgument"
  ELSE "OK"

\* The validator of the update, with the code classifyUpdateError gives it.
Validate(b, r) ==
  IF r.caller # Owner[b] THEN "NotFound"
  ELSE IF r.currency # wf[b].currency THEN "FailedPrecondition"
  ELSE IF r.amount = 0 \/ ~r.described THEN "InvalidArgument"
  ELSE "OK"

Answer(u, r, code) ==
  upd' = [upd EXCEPT ![u] = [st |-> "done", in |-> r, code |-> code]]

\* The endpoint's own rejection, no workflow to update, or a first run whose
\* update handler is not registered before CreateBillActivity has returned.
AddLineItemRefused(u, r) ==
  /\ upd[u].st = "idle"
  /\ \/ EndpointRejects(r) /\ Answer(u, r, "InvalidArgument")
     \/ /\ ~EndpointRejects(r)
        /\ ~Running(r.bill)
        /\ Answer(u, r, "NotFound")
     \/ /\ ~EndpointRejects(r)
        /\ wf[r.bill].phase = "creating"
        /\ Answer(u, r, "InvalidArgument")
  /\ UNCHANGED <<dbVars, wf, starts, act, open, hazard>>

Accepts(b) == wf[b].phase \in {"await", "drain", "closing"}

\* The validator rejects, or the handler finds the item id in the seen set.
AddLineItemAnswered(u, r) ==
  LET b == r.bill
      code == Validate(b, r)
  IN /\ upd[u].st = "idle"
     /\ ~EndpointRejects(r)
     /\ Accepts(b)
     /\ code = "OK" => r.id \in wf[b].seen
     /\ Answer(u, r, code)
     /\ RunTask(b, Select(wf[b]), Handlers(b) # {}, act)
     /\ UNCHANGED <<dbVars, starts, open, hazard>>

AppendInput(r) ==
  [kind |-> "append", bill |-> r.bill, id |-> r.id, amount |-> r.amount,
   currency |-> r.currency, actor |-> r.caller]

\* Mutant: the item is counted before it is persisted.
AddLineItemCountsFirst(u, r) ==
  LET b == r.bill IN
  /\ upd[u].st = "idle"
  /\ ~EndpointRejects(r)
  /\ Accepts(b)
  /\ Validate(b, r) = "OK"
  /\ r.id \notin wf[b].seen
  /\ upd' = [upd EXCEPT ![u] = [st |-> "running", in |-> r, code |-> ""]]
  /\ RunTask(b, [Select(wf[b]) EXCEPT !.total = AddTo(@, Charge(r))], TRUE,
             [act EXCEPT ![u] = Schedule(AppendInput(r))])
  /\ UNCHANGED <<dbVars, starts, open, hazard>>

\* The handler runs up to AppendLineItemActivity.
AddLineItemStarted(u, r) ==
  LET b == r.bill
      sameKey == {v \in Handlers(b) : upd[v].in.id = r.id}
  IN /\ upd[u].st = "idle"
     /\ ~EndpointRejects(r)
     /\ Accepts(b)
     /\ Validate(b, r) = "OK"
     /\ r.id \notin wf[b].seen
     /\ upd' = [upd EXCEPT ![u] = [st |-> "running", in |-> r, code |-> ""]]
     /\ RunTask(b, Select(wf[b]), TRUE, [act EXCEPT ![u] = Schedule(AppendInput(r))])
     /\ hazard' = [hazard EXCEPT ![b] = @
                     \cup (IF sameKey # {} THEN {"sameKey"} ELSE {})
                     \cup (IF wf[b].phase = "closing" THEN {"late"} ELSE {})]
     /\ UNCHANGED <<dbVars, starts, open>>

-----------------------------------------------------------------------------
(* Workflow tasks *)

CreateInput(b) == [kind |-> "create", bill |-> b, currency |-> wf[b].currency]

FirstTask(b) ==
  /\ wf[b].phase = "start"
  /\ wf' = [wf EXCEPT ![b].phase = "creating"]
  /\ act' = [act EXCEPT ![b] = Schedule(CreateInput(b))]
  /\ UNCHANGED <<dbVars, starts, upd, open, hazard>>

CreateDone(b) ==
  /\ wf[b].phase = "creating"
  /\ act[b].st = "committed"
  /\ RunTask(b, awaitCloseOrThreshold(wf[b]), FALSE, [act EXCEPT ![b] = NoTask])
  /\ UNCHANGED <<dbVars, starts, upd, open, hazard>>

CreateFailed(b) ==
  /\ wf[b].phase = "creating"
  /\ act[b].st = "failed"
  /\ wf' = [wf EXCEPT ![b].phase = "failed"]
  /\ act' = [act EXCEPT ![b] = NoTask]
  /\ UNCHANGED <<dbVars, starts, upd, open, hazard>>

ResumeTask(b) ==
  /\ wf[b].phase = "resume"
  /\ RunTask(b, awaitCloseOrThreshold(wf[b]), FALSE, act)
  /\ UNCHANGED <<dbVars, starts, upd, open, hazard>>

\* The task of a signal or of the timer.
SelectorTask(b) ==
  /\ wf[b].phase = "await"
  /\ wf[b].signal \/ wf[b].period = "over"
  /\ RunTask(b, Select(wf[b]), Handlers(b) # {}, act)
  /\ UNCHANGED <<dbVars, starts, upd, open, hazard>>

PeriodPasses(b) ==
  /\ wf[b].period = "pending"
  /\ Running(b)
  /\ wf' = [wf EXCEPT ![b].period = "over"]
  /\ UNCHANGED <<dbVars, starts, upd, act, open, hazard>>

Counted(w, r) ==
  [w EXCEPT !.total = AddTo(@, Charge(r)), !.itemCount = @ + 1,
            !.seen = @ \cup {r.id}]

\* Mutant: the error of the activity is not looked at.
HandlerIgnoresError(u) ==
  LET r == upd[u].in
      b == r.bill
  IN /\ upd[u].st = "running"
     /\ act[u].st \in {"committed", "failed"}
     /\ Answer(u, r, "OK")
     /\ RunTask(b, Counted(Select(wf[b]), r), Handlers(b) \ {u} # {},
                [act EXCEPT ![u] = NoTask])
     /\ UNCHANGED <<dbVars, starts, open, hazard>>

HandlerDone(u) ==
  LET r == upd[u].in
      b == r.bill
  IN /\ upd[u].st = "running"
     /\ act[u].st = "committed"
     /\ Answer(u, r, "OK")
     /\ RunTask(b, Counted(Select(wf[b]), r), Handlers(b) \ {u} # {},
                [act EXCEPT ![u] = NoTask])
     /\ UNCHANGED <<dbVars, starts, open, hazard>>

\* The item of a failed activity may be in the table, or get there later.
MayPersist(r) ==
  \/ \E li \in lineItems : li.id = r.id /\ li.bill = r.bill
  \/ \E x \in open : x.in.kind = "append" /\ x.in.id = r.id /\ x.in.bill = r.bill

\* The error is an ApplicationError: classifyUpdateError says InvalidArgument.
HandlerFailed(u) ==
  LET r == upd[u].in
      b == r.bill
  IN /\ upd[u].st = "running"
     /\ act[u].st = "failed"
     /\ Answer(u, r, "InvalidArgument")
     /\ RunTask(b, Select(wf[b]), Handlers(b) \ {u} # {},
                [act EXCEPT ![u] = NoTask])
     /\ hazard' = [hazard EXCEPT ![b] = @
                     \cup (IF MayPersist(r) THEN {"lostAck"} ELSE {})]
     /\ UNCHANGED <<dbVars, starts, open>>

\* Mutant: callers of abandoned handlers are left waiting.
EndWorkflowSilently(b, phase) ==
  /\ wf' = [wf EXCEPT ![b].phase = phase]
  /\ act' = [t \in Tasks |-> IF t = b \/ t \in Handlers(b) THEN NoTask ELSE act[t]]
  /\ UNCHANGED <<dbVars, starts, upd, open, hazard>>

\* The workflow ends: handlers still running are abandoned, their callers told.
EndWorkflow(b, phase) ==
  /\ wf' = [wf EXCEPT ![b].phase = phase]
  /\ upd' = [u \in Updates |->
               IF u \in Handlers(b) THEN [upd[u] EXCEPT !.st = "done", !.code = "Failed"]
               ELSE upd[u]]
  /\ act' = [t \in Tasks |-> IF t = b \/ t \in Handlers(b) THEN NoTask ELSE act[t]]
  /\ UNCHANGED <<dbVars, starts, open, hazard>>

CloseDone(b) ==
  /\ wf[b].phase = "closing"
  /\ act[b].st = "committed"
  /\ EndWorkflow(b, "completed")

CloseFailed(b) ==
  /\ wf[b].phase = "closing"
  /\ act[b].st = "failed"
  /\ EndWorkflow(b, "failed")

-----------------------------------------------------------------------------
(* Activity attempts *)

Attempt(t) ==
  [task |-> t, start |-> starts[act[t].in.bill], try |-> act[t].try,
   in |-> act[t].in]

IsCurrent(x) == act[x.task].st = "started" /\ Attempt(x.task) = x

\* Mutant: one attempt too many.
RetryOnceMore(a) ==
  IF a.try <= MaxAttempts THEN [a EXCEPT !.st = "scheduled", !.try = @ + 1]
  ELSE [a EXCEPT !.st = "failed"]

RetryOrFail(a) ==
  IF a.try < MaxAttempts THEN [a EXCEPT !.st = "scheduled", !.try = @ + 1]
  ELSE [a EXCEPT !.st = "failed"]

\* inTx begins the transaction of an attempt.
StartAttempt(t) ==
  /\ act[t].st = "scheduled"
  /\ act' = [act EXCEPT ![t].st = "started"]
  /\ open' = open \cup {Attempt(t)}
  /\ UNCHANGED <<dbVars, wf, starts, upd, hazard>>

\* A line item whose id another bill, or another charge, already has.
SharesKey(in) ==
  /\ in.kind = "append"
  /\ \E li \in lineItems : li.id = in.id /\ li # LineItem(in)

CommitTx(x) ==
  /\ x \in open
  /\ Execute(x.in)
  /\ open' = open \ {x}
  /\ act' = IF IsCurrent(x) THEN [act EXCEPT ![x.task].st = "committed"] ELSE act
  /\ hazard' = [hazard EXCEPT ![x.in.bill] = @
                  \cup (IF SharesKey(x.in) THEN {"sharedKey"} ELSE {})]
  /\ UNCHANGED <<wf, starts, upd>>

AbortTx(x) ==
  /\ x \in open
  /\ Faults \/ ~SchemaAccepts(x.in)
  /\ open' = open \ {x}
  /\ act' = IF IsCurrent(x) THEN [act EXCEPT ![x.task] = RetryOrFail(@)] ELSE act
  /\ UNCHANGED <<dbVars, wf, starts, upd, hazard>>

\* StartToCloseTimeout, a crashed worker or a lost result: Temporal gives up
\* the attempt, whose transaction may be open or even committed.
LoseAttempt(t) ==
  /\ Faults
  /\ act[t].st \in {"started", "committed"}
  /\ act' = [act EXCEPT ![t] = RetryOrFail(@)]
  /\ UNCHANGED <<dbVars, wf, starts, upd, open, hazard>>

\* ScheduleToCloseTimeout: Temporal gives up the activity.
ExpireActivity(t) ==
  /\ Faults
  /\ act[t].st \in {"scheduled", "started", "committed"}
  /\ act' = [act EXCEPT ![t].st = "failed"]
  /\ UNCHANGED <<dbVars, wf, starts, upd, open, hazard>>

-----------------------------------------------------------------------------

WorkflowTask(b) ==
  \/ FirstTask(b)
  \/ CreateDone(b)
  \/ CreateFailed(b)
  \/ ResumeTask(b)
  \/ SelectorTask(b)
  \/ CloseDone(b)
  \/ CloseFailed(b)

HandlerTask(u) == HandlerDone(u) \/ HandlerFailed(u)

EndAttempt(t) == \E x \in open : x.task = t /\ (CommitTx(x) \/ AbortTx(x))

Next ==
  \/ \E b \in Bills, c \in Currencies : \E p \in Periods[b] : CreateBill(b, c, p)
  \/ \E b \in Bills : CloseBill(b) \/ WorkflowTask(b) \/ PeriodPasses(b)
  \/ \E u \in Updates, r \in Requests :
       AddLineItemRefused(u, r) \/ AddLineItemAnswered(u, r) \/ AddLineItemStarted(u, r)
  \/ \E u \in Updates : HandlerTask(u)
  \/ \E t \in Tasks :
       StartAttempt(t) \/ EndAttempt(t) \/ LoseAttempt(t) \/ ExpireActivity(t)

Spec == Init /\ [][Next]_vars

\* Temporal delivers every workflow task and every activity task, a worker
\* that takes one ends it, and time passes.  Nothing is assumed of callers.
Fairness ==
  /\ \A b \in Bills : WF_vars(WorkflowTask(b)) /\ WF_vars(PeriodPasses(b))
  /\ \A u \in Updates : WF_vars(HandlerTask(u))
  /\ \A t \in Tasks : WF_vars(StartAttempt(t)) /\ WF_vars(EndAttempt(t))

FairSpec == Spec /\ Fairness
=============================================================================
