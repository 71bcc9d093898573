---------------------------- MODULE BillEndpoints ----------------------------
(***************************************************************************)
(* GetBill and CloseBill (bill/endpoints.go) beside the workflow.  A call  *)
(* asks the workflow, falls back to the row, checks the owner, signals,    *)
(* waits for the workflow and reads the row and the items, each in a step  *)
(* of its own between which the workflow and its activities go on.         *)
(***************************************************************************)
EXTENDS BillProperties

CONSTANT Readers  \* clients that call GetBill and CloseBill, one call at a time

VARIABLES
  read,      \* per client, where its call is and what it has read
  forgotten  \* per bill, the last start whose history Temporal has dropped

evars == <<vars, read, forgotten>>

-----------------------------------------------------------------------------
(* State *)

\* The part of type Bill the properties look at.
Summaries == [status : {"", "OPEN", "CLOSED"}, total : Total]

NoSummary == [status |-> "", total |-> ZeroTotal]

Steps == {"idle", "query", "row", "signal", "get", "wait", "closeRow", "items",
          "done"}

Reads ==
  [op : {"", "GetBill", "CloseBill"}, bill : Bills, caller : Accounts, pc : Steps,
   summary : Summaries, items : SUBSET LineItems,
   start : 0 .. MaxStarts,    \* the workflow signalled, then the one waited for
   code : {"", "OK", "NotFound", "Unavailable", "Internal"},
   created : BOOLEAN,         \* history: CreateBill came before the call
   acked : SUBSET Items,      \* history: keys acknowledged before the call
   prior : [summary : Summaries, items : SUBSET LineItems]]
                              \* history: the client's last answer on the bill

EndpointsTypeOK ==
  /\ read \in [Readers -> Reads \cup {[pc |-> "idle"]}]
  /\ forgotten \in [Bills -> 0 .. MaxStarts]

EInit ==
  /\ Init
  /\ read = [q \in Readers |-> [pc |-> "idle"]]
  /\ forgotten = [b \in Bills |-> 0]

\* Temporal still has the history of the bill's last workflow.
Retained(b) == wf[b].phase # "none" /\ forgotten[b] # starts[b]

\* SetQueryHandler was reached: after CreateBillActivity in a first run.
QueryRegistered(b) ==
  \/ wf[b].phase \in {"await", "drain", "closing", "completed"}
  \/ wf[b].phase = "failed" /\ wf[b].status = "CLOSED"

Goto(q, pc) == read' = [read EXCEPT ![q].pc = pc]

Failed(c, code) ==
  [c EXCEPT !.op = "", !.pc = "done", !.code = code, !.summary = NoSummary,
            !.acked = {}, !.start = 0]

Fails(q, code) == read' = [read EXCEPT ![q] = Failed(@, code)]

Answered(q) == read[q].pc = "done" /\ read[q].code = "OK"

\* What the client has learned of the bill from the answers to earlier calls,
\* those apart that were made before the workflow was there to be asked: they
\* may read a row that is ahead of the workflow's memory.
Prior(q, b) ==
  IF read[q].pc = "idle" \/ read[q].bill # b
  THEN [summary |-> NoSummary, items |-> {}]
  ELSE IF Answered(q) /\ read[q].created
       THEN [summary |-> read[q].summary, items |-> read[q].items]
  ELSE read[q].prior

-----------------------------------------------------------------------------
(* The steps of a call; none but the signal touches the workflow's state. *)

Begin(q, op, b, caller) ==
  /\ read[q].pc \in {"idle", "done"}
  /\ read' = [read EXCEPT ![q] =
       [op |-> op, bill |-> b, caller |-> caller, pc |-> "query",
        summary |-> NoSummary, items |-> {}, start |-> 0, code |-> "",
        created |-> starts[b] > 0,
        acked |-> {upd[u].in.id : u \in {v \in Updates :
                     upd[v].code = "OK" /\ upd[v].in.bill = b}},
        prior |-> Prior(q, b)]]
  /\ UNCHANGED <<vars, forgotten>>

\* What loadBillSummary returned meets the caller: assertOwnsBill, or the same
\* comparison in GetBill.
CheckOwner(q, summary) ==
  LET c == read[q] IN
  \/ c.caller # Owner[c.bill] /\ Fails(q, "NotFound")
  \/ /\ c.caller = Owner[c.bill]
     /\ c.op = "CloseBill"
     /\ Goto(q, "signal")
  \/ /\ c.caller = Owner[c.bill]
     /\ c.op = "GetBill"
     /\ read' = [read EXCEPT ![q].pc = "items", ![q].summary = summary]

\* Mutant: any error of the query degrades to the row.
QueryOrRow(q) ==
  LET b == read[q].bill
      w == wf[b]
  IN /\ read[q].pc = "query"
     /\ \/ Goto(q, "row")
        \/ /\ Retained(b)
           /\ QueryRegistered(b)
           /\ CheckOwner(q, [status |-> w.status, total |-> w.total])
     /\ UNCHANGED <<vars, forgotten>>

\* queryBillState: the workflow's bill as it is in memory.  Temporal holds a
\* query back until the run's first task is done.  The error of a workflow
\* without the handler is not a NotFound.
QueryBillState(q) ==
  LET b == read[q].bill
      w == wf[b]
  IN /\ read[q].pc = "query"
     /\ \/ ~Retained(b) /\ Goto(q, "row")
        \/ /\ Retained(b)
           /\ QueryRegistered(b)
           /\ CheckOwner(q, [status |-> w.status, total |-> w.total])
        \/ /\ Retained(b)
           /\ ~QueryRegistered(b) /\ w.phase \notin {"start", "resume"}
           /\ Fails(q, "Unavailable")
     /\ UNCHANGED <<vars, forgotten>>

RowOf(b) == [status |-> bills[b].status, total |-> bills[b].total]

\* Mutant: the error of a missing row is not looked at.
LoadAnyRow(q) ==
  /\ read[q].pc = "row"
  /\ CheckOwner(q, RowOf(read[q].bill))
  /\ UNCHANGED <<vars, forgotten>>

\* The fallback of loadBillSummary.
LoadRow(q) ==
  LET b == read[q].bill IN
  /\ read[q].pc = "row"
  /\ \/ ~RowExists(b) /\ Fails(q, "NotFound")
     \/ RowExists(b) /\ CheckOwner(q, RowOf(b))
  /\ UNCHANGED <<vars, forgotten>>

\* Mutant: the answer does not wait for the workflow.
SignalAndGo(q) ==
  LET b == read[q].bill IN
  /\ read[q].pc = "signal"
  /\ Goto(q, "closeRow")
  /\ IF Running(b) THEN CloseBill(b) ELSE UNCHANGED vars
  /\ UNCHANGED forgotten

\* SignalWorkflow reaches the workflow if it runs and is a NotFound otherwise.
SignalCloseBill(q) ==
  LET b == read[q].bill IN
  /\ read[q].pc = "signal"
  /\ \/ /\ CloseBill(b)
        /\ read' = [read EXCEPT ![q].pc = "get", ![q].start = starts[b]]
     \/ ~Running(b) /\ Goto(q, "closeRow") /\ UNCHANGED vars
  /\ UNCHANGED forgotten

\* GetWorkflow names no run: the workflow waited for is the one that is there
\* when Get asks, which need not be the one that was signalled.
GetWorkflow(q) ==
  LET b == read[q].bill IN
  /\ read[q].pc = "get"
  /\ \/ /\ Retained(b)
        /\ read' = [read EXCEPT ![q].pc = "wait", ![q].start = starts[b]]
     \/ ~Retained(b) /\ Fails(q, "Internal")
  /\ UNCHANGED <<vars, forgotten>>

\* Mutant: a workflow that failed is polled for ever.
AwaitCompleted(q) ==
  /\ read[q].pc = "wait"
  /\ wf[read[q].bill].phase = "completed"
  /\ Goto(q, "closeRow")
  /\ UNCHANGED <<vars, forgotten>>

\* run.Get follows ContinueAsNew to the end of that workflow.  When another one
\* was started meanwhile, the one waited for ended one way or the other.
AwaitResult(q) ==
  LET b == read[q].bill
      other == starts[b] # read[q].start
  IN /\ read[q].pc = "wait"
     /\ \/ /\ other \/ (Retained(b) /\ wf[b].phase = "completed")
           /\ read' = [read EXCEPT ![q].pc = "closeRow", ![q].start = 0]
        \/ /\ other \/ wf[b].phase = "failed" \/ ~Retained(b)
           /\ Fails(q, "Internal")
     /\ UNCHANGED <<vars, forgotten>>

\* getBillRowFromDB in closeBillFromDB.
closeBillFromDB(q) ==
  LET b == read[q].bill IN
  /\ read[q].pc = "closeRow"
  /\ read' = [read EXCEPT ![q] =
       IF RowExists(b) THEN [@ EXCEPT !.pc = "items", !.summary = RowOf(b)]
       ELSE Failed(@, "NotFound")]
  /\ UNCHANGED <<vars, forgotten>>

fetchLineItems(q) ==
  /\ read[q].pc = "items"
  /\ read' = [read EXCEPT ![q].pc = "done", ![q].code = "OK", ![q].start = 0,
                          ![q].items = ItemsOf(read[q].bill)]
  /\ UNCHANGED <<vars, forgotten>>

\* Temporal or the database cannot be reached, or the caller's context ends.
\* A signal whose error is seen may have reached the workflow: a step of CloseBill.
ReadFails(q) ==
  LET pc == read[q].pc
  IN /\ Faults
     /\ pc \notin {"idle", "done"}
     /\ Fails(q, IF pc \in {"query", "signal"} THEN "Unavailable" ELSE "Internal")
     /\ UNCHANGED <<vars, forgotten>>

\* Retention: Temporal drops the history of a workflow that has ended.
Forget(b) ==
  /\ Ended(b)
  /\ forgotten' = [forgotten EXCEPT ![b] = starts[b]]
  /\ UNCHANGED <<vars, read>>

-----------------------------------------------------------------------------

ReadStep(q) ==
  \/ QueryBillState(q)
  \/ LoadRow(q)
  \/ SignalCloseBill(q)
  \/ GetWorkflow(q)
  \/ AwaitResult(q)
  \/ closeBillFromDB(q)
  \/ fetchLineItems(q)

ENext ==
  \/ Next /\ UNCHANGED <<read, forgotten>>
  \/ \E q \in Readers, op \in {"GetBill", "CloseBill"}, b \in Bills, a \in Accounts :
       Begin(q, op, b, a)
  \/ \E q \in Readers : ReadStep(q) \/ ReadFails(q)
  \/ \E b \in Bills : Forget(b)

ESpec == EInit /\ [][ENext]_evars

\* A call that can go on goes on: Temporal and the database answer.
EFairSpec == ESpec /\ Fairness /\ \A q \in Readers : WF_evars(ReadStep(q))

-----------------------------------------------------------------------------
(* Properties *)

\* A call to GetBill or CloseBill that began after AddLineItem acknowledged a
\* key finds it in its items and in its total, wherever the summary came from:
\* the workflow's memory before or after it ended, or the row.
ReadYourWrites ==
  \A q \in Readers :
    LET a == read[q] IN
    Answered(q) /\ Undisturbed(a.bill) =>
      \A key \in a.acked : \E li \in a.items :
        li.id = key /\ a.summary.total[Charge(li)] = 1

\* The summary and the items of an answer are read at different times, but a
\* charge in the total is always among the items: the handler counts an item
\* only after its transaction committed, and the items are read last.
ItemsCoverTotal ==
  \A q \in Readers :
    LET a == read[q] IN
    Answered(q) /\ Undisturbed(a.bill) =>
      \A c \in Charges : a.summary.total[c] > 0 =>
        a.summary.total[c] = 1 /\ \E li \in a.items : Charge(li) = c

\* Of two answers to a client (to calls made after CreateBill) the second one's
\* total and items include the first one's, although one may come from the workflow and the other from the
\* row, and CLOSED is not taken back unless the close failed.
MonotonicReads ==
  \A q \in Readers :
    LET old == read[q].prior
        new == read[q]
    IN Answered(q) /\ Undisturbed(new.bill) =>
         /\ \A c \in Charges : old.summary.total[c] <= new.summary.total[c]
         /\ old.items \subseteq new.items
         /\ old.summary.status = "CLOSED" /\ wf[new.bill].phase # "failed"
              => new.summary.status = "CLOSED"

\* CloseBill answers with the closed bill, and its total is the sum of the
\* items in the same answer, also for a retry after the bill was closed; only
\* a close that failed leaves an OPEN row for a later CloseBill to return.
CloseAnswersClosed ==
  \A q \in Readers :
    LET a == read[q] IN
    Answered(q) /\ a.op = "CloseBill" /\ Undisturbed(a.bill) =>
      /\ Ended(a.bill)
      /\ a.summary.status = "OPEN" => wf[a.bill].phase = "failed"
      /\ a.summary.status = "CLOSED" => \A c \in Charges :
           a.summary.total[c] = IF \E li \in a.items : Charge(li) = c THEN 1 ELSE 0

\* An owner who calls after CreateBill has started the workflow is told
\* NotFound only if creating the bill failed, never because the bill still
\* lives in the workflow alone (loadBillSummary falls back to the row on
\* NotFound only).
NotFoundIsTrue ==
  \A q \in Readers :
    LET a == read[q] IN
    a.pc = "done" /\ a.code = "NotFound" /\ a.created
    /\ a.caller = Owner[a.bill] /\ Undisturbed(a.bill)
      => wf[a.bill].phase = "failed"

\* CloseBill has signalled a workflow, and CreateBill has started another one
\* before GetWorkflow looks for the one to wait for.
Overtaken(q) == read[q].pc = "get" /\ starts[read[q].bill] # read[q].start

\* Every call returns, CloseBill too, which waits until the workflow has
\* closed the bill (below the ContinueAsNew threshold), unless it is overtaken:
\* then it waits for a workflow that nobody may ever close.
CallReturns ==
  \A q \in Readers : read[q].pc = "query" ~> read[q].pc = "done" \/ Overtaken(q)
=============================================================================
