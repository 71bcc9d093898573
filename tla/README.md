# A TLA+ model of the bill service

The bill service (`bill/`) keeps bills for client accounts. A Temporal workflow
per bill takes line items by synchronous updates, persists each one through an
activity, and closes the bill on a signal or at its period end. Postgres holds
the rows, the line items and an append-only audit log. This directory models
the parts that carry the service's logic, checks them with TLC on small
instances, and proves with TLAPS, for every value of the constants, every safety
property the runs check and the refinement of the abstract ledger.

## The system

| Part | State it keeps | Operations | What makes it correct |
| --- | --- | --- | --- |
| Billing workflow (`workflow.go`, `signals.go`) | status, running total, item count, seen set, close reason | create, add line item (validator + handler), close signal, period-end timer, drain, ContinueAsNew, finalize | an accepted item is counted once; nothing counted is lost at a roll-over; the total written at close is the sum of the items; every update is answered and every bill ends |
| Activities (`activities.go`, `migrations/`) | tables `bills`, `line_items`, `bill_events` | three transactions, retried by Temporal | retries and late commits have no second effect; row, items and log agree |
| Mutating endpoints (`endpoints.go`) | none | CreateBill, AddLineItem, CloseBill | only valid, owned requests reach a bill; a refused call left nothing; CloseBill returns, with the closed bill |
| Read endpoints (`endpoints.go`) | none (opaque cursors) | GetBill, ListBills, ListLineItems, ListBillEvents | an answer holds what was acknowledged before and takes nothing back; a listing skips and repeats nothing |
| Authentication (`auth.go`, `clients.go`, `middleware.go`) | LRU cache with TTL, singleflight group | AuthHandler, lookupClient, invalidateClient, RequireActiveCaller | an answer is never staler than the TTL; one load per miss; nobody hangs |
| Currency registry (`registry.go`, `admin.go`) | one cached map with TTL, singleflight group | getCurrencies, refreshCurrencies, setCurrencies | fail closed; one read per expiry; a refresh takes effect |
| Lifecycle, views, metrics | wiring, presentation, counters | | |

How they interact: endpoints talk to workflows only through Temporal (start,
update, signal, query); workflows write only through activities; the endpoints
read both the workflow's memory and the tables. The registry and the client
cache are shared by all requests of a process.

What is hard here: update handlers interleave with the main coroutine at every
wait for an activity; an activity may run several times, and one that Temporal
has given up may still commit; a workflow can be started again under the same
id; caches are filled from reads that race changes and refreshes. The
`hazards` list of `PROJECT.json` names each place and the property that watches
it.

## Modules

| Module | Models | |
| --- | --- | --- |
| `BillDB` | tables, schema checks and the three transactions | extended by `BillWorkflow` |
| `BillWorkflow` | workflow, activity attempts, endpoint calls | composes `BillDB` with Temporal's behaviour |
| `BillProperties` | what a bill is promised: invariants, action and liveness properties | |
| `BillClaims` | statements of README, comments and migrations that the code does not keep | |
| `BillLedger` | abstract specification: a bill is opened, takes each charge once while open, is closed once | |
| `BillRefinement` | the mapping under which `BillWorkflow` implements `BillLedger` | `INSTANCE BillLedger WITH` |
| `BillEndpoints`, `MCEndpoints` | GetBill and CloseBill as processes of several steps | composes `BillWorkflow` with its readers |
| `BillInvariant` | the inductive invariant `IInv` | |
| `BillProofs` | proofs of `TypeOK` and `OpenTotalIsItems` | |
| `BillCountProofs` | proofs of `ClosedTotalExact`, `ClosedIsFrozen`, `AckedIsPersisted` | extends `BillProofs` |
| `BillLedgerProofs` | proofs of `IInv`, of the log, currency, attribution and hand-over, and of the refinement `LedgerSpec` | extends `BillCountProofs` |
| `BillEndpointsProofs` | proofs of what GetBill and CloseBill answer | extends `BillLedgerProofs` |
| `MCBill` | instances of all of the above for TLC | |
| `ClientCache`, `ClientCacheProofs` | authentication and client cache, and its proofs | |
| `CurrencyRegistry`, `CurrencyRegistryProofs` | currency registry, and its proofs | |
| `KeysetPaging`, `KeysetPagingProofs`, `MCKeysetPaging` | the three listings, and their proofs | |
| `BillAmounts`, `BillAmountsProofs`, `MCBillAmounts` | decimal amounts in memory and in NUMERIC(30,10), and the proofs | |

### BillDB

A transaction takes effect in one step, at its commit: the row lock of
`UPDATE bills` and the unique index behind `ON CONFLICT` make transactions that
touch one bill or one item serial. Amounts are only ever added, exactly, so a
total is the bag of the charges added to it (`Total`, `AddTo`); two totals are
equal exactly when the same charges were counted equally often, which is finer
than comparing sums. `SchemaAccepts` holds the column types, the CHECK on
amounts and the foreign keys (all but the one of `bills` into `clients`, which
an account that has passed AuthHandler meets: no code deletes clients); the order matters in one place: a conflicting id
is skipped before its foreign keys are looked at, but a key that is no UUID
fails first.

### BillWorkflow

* `wf[b]` is the execution with id `bill-<id>`: the fields of `Bill`, the seen
  set, the signal channel (`signal`), the timer (`period`), the local `reason`,
  and in `phase` the line at which the main coroutine waits.
* `upd[u]` is an AddLineItem call and its update handler, `act[t]` the pending
  activity of a handler or of a bill's main coroutine, `open` the transactions
  of attempts that have begun and not ended.
* A workflow task applies one event and runs all coroutines until they block.
  It is one action: `FirstTask`, `CreateDone`, `CreateFailed`, `ResumeTask`,
  `SelectorTask`, `CloseDone`, `CloseFailed` for the main coroutine,
  `AddLineItemAnswered`, `AddLineItemStarted`, `HandlerDone`, `HandlerFailed`
  for update handlers. `RunTask` and `Proceed` carry the main coroutine from
  its wait to its next one, so the drain, the roll-over and the scheduling of
  the close happen in the same step as the event that releases them.
* `awaitCloseOrThreshold` and `Select` keep the order of the code: in the first
  task the threshold is looked at before the selector coroutine has run, and a
  period that is over is taken before the signal; in later tasks the signal's
  case is the selector's first.
* An activity attempt begins (`StartAttempt`), commits or aborts (`CommitTx`,
  `AbortTx`), is given up by a timeout, a crash or a lost report
  (`LoseAttempt`), or the whole activity is (`ExpireActivity`). A given-up
  attempt stays in `open` and may commit at any later time, even after its
  workflow has ended. That is what at-least-once activities with
  StartToCloseTimeout amount to.
* `CreateBill` starts a workflow when none runs; for a bill with an
  Idempotency-Key also after one has ended (reuse policy AllowDuplicate).
  `CloseBill` signals, at any time from the start of the workflow to its end:
  a call that read the row just committed may signal before the result of
  CreateBillActivity has arrived. The RPCs themselves are reliable here.
* `Periods[b]` says which periods CreateBill may be given for a bill: none, one
  that ends later, one that is over already.
* `hazard[b]` is a history variable. It records the four things that the code
  does not guard against: two handlers with one key (`sameKey`), an update
  accepted while the bill closes (`late`), a failure reported for an append
  that is or may yet be written (`lostAck`), and a key taken by another bill or
  charge (`sharedKey`). `Undisturbed(b)` says that none of them happened and
  that the workflow was started once.

Temporal itself is external: it is modelled from how the code uses it.

### BillLedger and BillRefinement

`BillLedger` is what the service promises the owner of a bill, without
workflows, attempts and transactions. A call is asked, its charge gets on the
bill, and only then is it acknowledged; it is refused only if the charge is not
and will never be there; a bill closes when all its calls are decided, with
the charges and the total it has. `BillRefinement` maps the row and its items
to a ledger entry and the state of a handler and its transaction to a call
(`LedgerCall`). The commit of an append is the ledger's `Add`, whichever
attempt it is of; every other step of retries, timeouts, drains and roll-overs
must leave the ledger alone. A bill to which one of the four hazards happens is
`FORSAKEN`: the ledger promises nothing more of it. That happens in `Forsake`,
so the promise holds up to the very step in which the hazard occurs.

### BillEndpoints

A client `q` makes one call after another; `read[q].pc` is the line at which
its call waits: the query of `loadBillSummary`, its fallback to the row, the
signal, `GetWorkflow`, `run.Get`, `closeBillFromDB`, `fetchLineItems`. Between any two of them
the workflow and its activities go on. `Forget` is Temporal's retention: the
history of an ended workflow is dropped, and from then on the row answers
instead of the workflow's memory. `QueryRegistered` is the time before
`SetQueryHandler` in which a query fails without being NotFound. `ReadFails` is
an unreachable Temporal or database or an ended context at any step; the codes
Canceled and DeadlineExceeded are not told from Unavailable. `created`, `acked`
and `prior` are history: what was true when the call began.

What the module shows besides its properties: CloseBill on a bill whose close
failed returns the OPEN row without an error (endpoints.go:374-376), the
exception that `CloseAnswersClosed` names; and a call that began before
CreateBill may fall back to a row that is ahead of the workflow's memory, so
that the next answer, from memory, has less in it. `MonotonicReads` is about
calls made after CreateBill.

GetWorkflow is given no run id, so `GetWorkflow(q)` binds the call to the
workflow that is there when it asks. If the signalled workflow has ended by
then and a keyed CreateBill has started another one (`Overtaken`), CloseBill
waits for a workflow that nobody signalled; `CallReturns` exempts that call, and
TLC shows it waiting for ever without the exemption.

### KeysetPaging

A page is one SQL statement. A row's `created_at` is taken (`Stamp`) before its
transaction commits (`Commit`), with any number of pages in between. Ids are
numbers because their order matters; a cursor keeps the second and the fraction
of RFC3339Nano apart, as the text does. The two orders of the code are
`Follows`: ascending for line items and events, descending for bills, which can
also be filtered by status and closed between pages. A row that commits behind
the cursor is never listed; `due` holds the rows that some page's query saw.
The ownership check before a listing is `assertOwnsBill`, modelled in
`BillEndpoints`.

### BillAmounts

Amounts are integers in units `1/Scale` of the last digit of the column, which
is enough to have amounts that round down, up, to nothing, or exactly. The
memory adds exactly; an append rounds the item and the sum of the row; the
close writes the rounded total of memory over the row. Amounts that round to
zero fail the CHECK, sums beyond the column fail the transaction. A total that
does not fit fails every attempt of the close, so the bill stays OPEN with its
workflow failed (status `STUCK`). The repository's README (lines 120-121 and
254-255) calls amounts exact. `StorableIsExact` shows it for amounts of at most
ten decimals, and that it fails for a single item with more: the amount stored
is not the one counted, a disagreement recorded among the findings.
`DriftIsBounded` says how far off the closed total can be then.

### ClientCache

One request per process `q`, split where other requests may run: the first look
at the cache, `Do`, the second look, the query, the Add. A singleflight leader
completes its followers with its own outcome, errors of its own context
included. Time is in ticks: `age` of an entry and `since` of the last change of
an account are compared by `StalenessBounded`. `Horizon` is TTL plus the time a
row may take from the query to the Add. `Admit` is AuthHandler followed by the
middleware, `Panic` the nil dereference of a client that `lookupClient` returned
without an error. `StalenessBounded` is about the answers that judge the caller
(`Judges`); that an unknown account is judged at all is
`UnknownIsUnauthenticated`, which the code does not keep.

### CurrencyRegistry

The same split for lookups; a refresh goes past the singleflight group. The
table grows. `floor` records the codes that a refresh has published and that
every load then in flight had read; `reads` counts the lookups' reads since the
entry last expired that brought a registry; a load that fails is a round trip
too, but leaves no entry and is not counted. A load without rows is a failure in
the code, so `TypeOK` says that an empty registry is never cached.

## Runs

Passing runs:

| Run | Instance | Shows | distinct states |
| --- | --- | --- | --- |
| `BillRetries` | 1 bill in USD or GEL, 2 items, 2 calls in USD, of the owner, of another account or without a positive amount, 2 attempts, all faults | tables, log and acknowledgements agree under every retry, late commit, roll-over and close; only checked calls leave items; the ledger is implemented | 0.7 M |
| `BillShared` | 2 bills, 2 calls with a shared key or one that is no UUID, 2 attempts, threshold 1, fairness | the race for a key and the roll-over keep `IInv`, the ledger and what was counted; accepted calls are answered; signalled or expired bills end or roll over | 0.1 M |
| `BillEndpoints` | 1 keyed bill started twice, 1 item, 1 client calling for ever, faults, fairness | answers hold what was acknowledged, cover their total, take nothing back; CloseBill answers the closed bill; the log replays to the row of a reopened bill; calls return unless overtaken | 0.7 M |
| `ClientCache` | 2 requests, 2 accounts, cache of 1, TTL 2, fairness | staleness is bounded, one load per miss, nobody hangs | 0.7 M |
| `CurrencyRegistry` | 2 lookups, 2 refreshes, 3 codes | refresh stays, fail closed, one read per expiry | 0.1 M |
| `KeysetPaging` | 4 rows, 3 instants, pages of 1 to 3 rows, a rejected limit | pages advance, nothing that was there is skipped | 1.0 M |
| `BillAmounts` | up to 8 items, quarter units, a column of 12 units | open row is its items; drift is bounded and absent for storable amounts | 2 k |

`IInv` implies `OpenTotalIsItems`, `ClosedTotalExact` and `AckedIsPersisted`
(that is proved), so `BillShared` checks these through it. That `IInv`,
`LedgerSpec` and the other properties of a bill survive a second start under the
same id is proved; the run that starts a bill twice is `BillEndpoints`, with
`LogReplaysToRow` and the properties of the readers.

Runs that exhibit an execution against something the repository says (the
`findings` of `PROJECT.json` quote the line and explain the execution):

| Run | What the execution does |
| --- | --- |
| `ClaimDoubleCount` | two overlapping calls with one key are both counted, and the close writes the double count |
| `ClaimTotalsReflect` | an item acknowledged while `CloseBillActivity` is pending is missing from the closed total |
| `ClaimClosedTotal` | a keyed CreateBill after the close starts a second workflow, whose close overwrites the total |
| `ClaimAutoClose` | a bill at the threshold continues as new for ever and never closes |
| `ClaimUnknownClient` | a request of an unknown account finds its absence cached on the second look, gets a nil client without an error, and the auth handler panics |

A further finding has no execution against it, because the passing run
`BillAmounts` states it: by the second conjunct of `StorableIsExact` an amount
of more than ten decimals is stored as another one, where the repository's
README promises full precision.

Smaller disagreements were met while modelling and are visible in the model
without a run of their own:

* a key that is no UUID (README.md:182 shows one) fails in the column after it
  was accepted;
* the failure of an exhausted activity reaches the caller as InvalidArgument
  (`HandlerFailed`, against endpoints.go:297-299);
* a key used on two bills is acknowledged on the second although nothing is
  stored there (`sharedKey`);
* a lookup that read the currencies before an INSERT can overwrite the registry
  of a later refresh (`RefreshStays` promises only what no load in flight had
  missed);
* a `CloseBillActivity` retried after its commit logs a second, identical CLOSED
  event (`LogReplaysToRow` and `CloseAttribution` hold nevertheless);
* CloseBill may wait for a workflow that it has not signalled (endpoints.go:380,
  `Overtaken`).

Bounds. Two calls are enough for every race of the workflow: same key, two
keys, one before and one during the drain or the close, one accepted and one
rejected. Two attempts give a first attempt that
is lost or late and a second that overtakes it. `Threshold` (the code's 1000) is
2 in `BillRetries`, so that a roll-over happens with two items, and 1 in
`BillShared`, where each bill rolls over with its first item; a bill at the
threshold never ends (`ClaimAutoClose`), so `CloseIsReached` follows a bill to
its end or to its roll-over, and in `BillEndpoints` the one item stays below the
threshold. `BillShared` has no faults: its retries are those of the key that the
column refuses, whose call fails after two attempts and must still be answered.
`Periods` keeps its state space small: one bill has a period, the other none.
`MaxStarts` bounds how often one id is started: once in the runs of the bills,
twice in `BillEndpoints`. In `ClientCache` a TTL of two
ticks and loads of one tick let a load straddle a change and an expiry.
`BillEndpoints` has one call of each
kind at a time and one item: its races are between a call's steps and the
workflow's, and its client goes on calling, so that any two answers are
compared. In `KeysetPaging` three instants of which two share a second, and
four rows, give ties within and across page boundaries and cursors that differ
in the fraction only. In `BillAmounts` a scale of four is the coarsest with
amounts on both sides of a rounding tie.
`CHECK_DEADLOCK FALSE` in the bill runs: calls are finite and an ended
workflow rests. `BillRetries` alone uses symmetry: its updates are
interchangeable, and so are its keys, since each comes with the same requests.
It checks no liveness property (`LedgerSpec` states no fairness); the runs that
do use no symmetry.

Fairness. `FairSpec` of `BillWorkflow`: Temporal delivers every workflow task
and activity task to a worker, a worker that has begun a transaction ends it,
and time passes. Nothing is assumed of callers, and faults need not stop: it is
MaximumAttempts that bounds them. `EFairSpec` of `BillEndpoints` adds that
a call that can go on goes on, each of its RPCs and statements being answered
or failing; it need not fail for `CallReturns` to hold. `FairSpec` of `ClientCache`: a goroutine that
has entered `lookupClient` runs; each wait in it has a timeout.

## Proofs

Every invariant and every action property of a passing run, and the refinement
`LedgerSpec`, is a theorem (`theorems` of `PROJECT.json`). None of the
invariants is inductive by itself; each proof module states its inductive
invariant and proves that the initial states satisfy it and that every action
keeps it.

### The bills: `BillProofs`, `BillCountProofs`, `BillLedgerProofs`

For any sets of bills, accounts, items and calls, any threshold, number of
attempts and starts, with or without faults. The assumptions are `DBAssumption`
and `WorkflowAssumption`: constants have the right shape, the system actor is no
account, calls and bills are distinct. The argument, as the conjuncts of `IInv`
(`BillInvariant`), which TLC checks too (`BillShared`):

1. `WellFormed`: who waits for what. A handler that runs has its own append
   pending, the main coroutine its own create or close.
2. `TablesAgree`: an append adds to an OPEN row exactly when it inserts, so the
   total is the sum of the items; uniqueness of ids makes the insertion visible
   to every later attempt. This needs nothing of the workflow, which is why it
   holds under every hazard.
3. `CountsAgree`, for undisturbed bills: an item in the table is counted or has
   a handler that will count it (`CountInv`); an open append has such a handler
   or its item is already there (`AppendsInv`); handlers run only before the
   close and never for a seen key (`HandlersInv`). At the end of the drain no
   handler is left, so the counted total is the sum of the items, and no open
   transaction can change that sum; the close carries it (`CloseInv`), and so
   does every later attempt of the close, which is why the row is frozen.
4. `AcksAgree`: what is seen, or committed and not yet counted, is in the table.
5. `OriginsAgree`: every open append and every item comes from a call of the
   owner that the validator let pass; hence `ItemsWereRequested` and the actor
   of the ITEM_ADDED events.
6. `LogsAgree`: the log mirrors the items. `BirthInv` says that before the first
   start there is neither row nor transaction, without which a late create could
   carry a currency of its own; `CurrencyInv` follows the currency from the
   workflow through handler, transaction and item; `AttributionInv` follows the
   close from `CloseInput` through a transaction, current or given up, into the
   log.

`LogReplaysToRow` is about a recursion over a sequence. Its proof needs no
induction over data: `ReplaysTo(log, row)` says that some function satisfies the
recursion on the log and ends in the row, appending one event extends that
function (`ReplayAppend`), and the transactions append one event at a time, so
the induction is the one over behaviours.

`RefinementTheorem` shows `Spec => LedgerSpec` action by action. The commit of
an append is `Add` if it inserts and a stutter otherwise, the first commit of a
create `Open`, the first commit of a close `Close` (whose guard, that every call
is decided, is `CountsAgree` at the end of the drain), later ones stutters;
`HandlerDone` is `Acknowledge`; `HandlerFailed` is `Refuse`, or `Forsake` when
the item may yet be there; steps in which a hazard is first recorded are
`Forsake`. The proof uses `IInv` in the old state only. In an earlier form
`CallState` was a CASE whose arms overlapped for a disturbed bill with a running
handler, so that TLC's first match was one reading among others; it is now a
chain of conditions.

### The readers: `BillEndpointsProofs`

For any number of clients beside the bills, from the same assumptions. A reader
does nothing to the bills but signal them, which is a step of `Next`
(`StepMoves`), so the invariant of the bills holds beside readers too. `EInv`
adds to it:

* `EndsAgree`: an execution is CLOSED from finalize on and not before; one that
  completed left a CLOSED row; an acknowledged key is in the seen set of the
  bill's only workflow.
* `ForgottenInv`: retention drops only the history of a workflow that ended. So
  a call on a created bill that falls back to the row finds a workflow that has
  ended, and the row then has the total of the workflow's memory.
* `CallInv(a)`, for a call on an undisturbed bill: what the client knew before
  the call is still covered by the workflow and the table (`PastInv`); a call
  reads the row only after the end of the workflow, or began before CreateBill,
  and waits for the workflow it signalled (`PlaceInv`); from the moment the summary is read, it covers the earlier
  answers and is covered by the items, whichever source it came from
  (`SummaryInv`).

A step of a call is shown in the state before it (one lemma per step), and
`CallStays` shows that any step of the bills keeps what a call knows: totals,
seen sets and items only grow, ended workflows and closed rows stay.

### The other modules

* `ClientCacheProofs`, from `CacheAssumption`, for any number of requests and
  accounts, any capacity, TTL and load timeout: an entry is younger than the
  TTL and says what the table says unless the account changed after the row was
  read, at most `LoadTicks` before the entry was added (`EntryInv`); a row in
  flight is the table's unless the account changed since (`RequestInv`). The two
  clocks add up to `Horizon`. One request leads per account, and a leader that
  loads has found a miss that only it may fill.
* `KeysetPagingProofs`, from `PagingAssumption`, for any finite table, any
  limits and number of clients: `(created_at, id)` is a strict total order in
  both directions; a cursor decodes to the key of a committed row that no row
  listed so far comes after; so a page lies behind everything listed. That a
  full page holds exactly the first rows ahead of the cursor needs that every
  number below the size of a set is some row's rank (`RankReached`), which is
  the pigeonhole theorem of `FiniteSetTheorems` and no induction.
* `BillAmountsProofs`, from `AmountsAssumption`, for any scale, column width,
  set of amounts and number of items: rounding is off by at most half a unit, so
  after `n` items row and memory differ by at most `n` halves; memory stays
  strictly below the upper bound, because halves are rounded up, and that is
  why rounding the total once more at the close adds nothing. Storable amounts
  are not changed by rounding, nor are their sums; an amount that is not a whole
  number of units differs from every stored one (`Inexact`).
* `CurrencyRegistryProofs`, from `RegistryAssumption`, for any number of lookups,
  refreshes and codes: one lookup at a time runs the function of `Do`, and while
  it has yet to read, nothing was read since the entry went.

### Only model-checked

The liveness properties `UpdateIsAnswered`, `CloseIsReached`, `CallReturns` and
`LookupReturns`: fairness and ENABLED are out of the prover's reach. The five
`Claim` runs exhibit executions, which is TLC's task.

## Not modelled

* CreateBill's answers: a call that started the workflow returns its request; a
  repeated one, if Temporal's client reports that the workflow has started
  already, what `loadBillSummary` says of it, and the request again when that
  fails (`createBillReplayResponse`). Neither changes any state.
* Amount parsing beyond positivity, JSON, views, metrics.
* Failing RPCs of CreateBill and AddLineItem to Temporal: a caller that gives up
  and calls again is another call with the same key. Workflow-level timeouts and
  terminations by an operator: the code sets none.
* A currency that disappears from the registry between the endpoint's check
  and the insert: `Registered` is constant in `BillWorkflow`, as no code
  deletes currencies.
* Dialling Temporal, starting and stopping the worker; down-migrations,
  backfills, and the triggers that keep `bill_events` append-only.

## Plan

Done: the workflow with its transactions and its abstract ledger, the
endpoints that change and read a bill, the listings, the amounts and the two
caches; the runs; the proofs of all their safety properties. What is left:

1. The step properties behind the liveness runs: an attempt number only grows
   while its activity is pending, and a bill that is closing returns to no
   earlier phase of the same workflow.
2. The two caches composed with the endpoints behind them: an admitted call carries an account that the client cache
   vouches for, and a currency that the registry knows.
