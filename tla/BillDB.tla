------------------------------- MODULE BillDB -------------------------------
(***************************************************************************)
(* The Postgres tables of the bill service and the three transactions that *)
(* write them (bill/activities.go, bill/migrations).  A transaction is one *)
(* step: it takes effect at its commit.  Row locks and ON CONFLICT make     *)
(* concurrent transactions on one bill or one item serial in commit order.  *)
(*                                                                         *)
(* Amounts are added by exact decimal arithmetic (shopspring/decimal and   *)
(* NUMERIC), so a total is represented by what was added to it: a bag that *)
(* says how often each charge <<item id, amount>> was counted.             *)
(***************************************************************************)
EXTENDS Naturals, Sequences

CONSTANTS
  Bills,       \* bill ids
  Accounts,    \* client account ids
  Owner,       \* the account whose CreateBill derives the bill's id
  Items,       \* item ids: idempotency keys of AddLineItem, or fresh UUIDs
  UuidItems,   \* the item ids the UUID column line_items.id accepts
  Amounts,     \* amounts a request may carry
  Currencies,  \* currency codes a request may carry
  Registered   \* the codes in the currencies table

SystemActor == "system"

ASSUME DBAssumption ==
  /\ Owner \in [Bills -> Accounts]
  /\ SystemActor \notin Accounts
  /\ UuidItems \subseteq Items
  /\ Amounts \subseteq Nat
  /\ Registered \subseteq Currencies

VARIABLES
  bills,       \* table bills: one row per id, status "NONE" when absent
  lineItems,   \* table line_items
  billEvents   \* table bill_events, per bill, in commit order

dbVars == <<bills, lineItems, billEvents>>

CloseReasons == {"SIGNAL", "PERIOD_END"}

-----------------------------------------------------------------------------
(* Totals *)

Charges == [id : Items, amount : Amounts]

Total == [Charges -> Nat]

ZeroTotal == [c \in Charges |-> 0]

AddTo(total, c) == [total EXCEPT ![c] = @ + 1]

Charge(in) == [id |-> in.id, amount |-> in.amount]

-----------------------------------------------------------------------------
(* Rows, events and the inputs of the activities *)

Rows == [status : {"NONE", "OPEN", "CLOSED"}, currency : Currencies \cup {""},
         total : Total, reason : CloseReasons \cup {""}]

NoRow == [status |-> "NONE", currency |-> "", total |-> ZeroTotal, reason |-> ""]

LineItems == [id : Items, bill : Bills, amount : Amounts, currency : Currencies]

Actors == Accounts \cup {SystemActor}

Events == [kind : {"OPENED"}, actor : Actors, currency : Currencies]
     \cup [kind : {"ITEM_ADDED"}, actor : Actors, item : LineItems]
     \cup [kind : {"CLOSED"}, actor : Actors, total : Total, reason : CloseReasons]

CreateInputs == [kind : {"create"}, bill : Bills, currency : Currencies]

AppendInputs == [kind : {"append"}, bill : Bills, id : Items, amount : Amounts,
                 currency : Currencies, actor : Accounts]

CloseInputs == [kind : {"close"}, bill : Bills, total : Total,
                reason : CloseReasons, actor : Actors]

Inputs == CreateInputs \cup AppendInputs \cup CloseInputs

LineItem(in) == [id |-> in.id, bill |-> in.bill, amount |-> in.amount,
                 currency |-> in.currency]

RowExists(b) == bills[b].status # "NONE"

HasItem(id) == \E li \in lineItems : li.id = id

-----------------------------------------------------------------------------
(* The transactions *)

DBInit ==
  /\ bills = [b \in Bills |-> NoRow]
  /\ lineItems = {}
  /\ billEvents = [b \in Bills |-> <<>>]

appendEvent(b, event) == billEvents' = [billEvents EXCEPT ![b] = Append(@, event)]

\* Mutant: ON CONFLICT DO UPDATE instead of DO NOTHING.
CreateBillUpserts(in) ==
  /\ bills' = [bills EXCEPT ![in.bill] =
                 [NoRow EXCEPT !.status = "OPEN", !.currency = in.currency]]
  /\ IF RowExists(in.bill) THEN UNCHANGED billEvents
     ELSE appendEvent(in.bill, [kind |-> "OPENED", actor |-> Owner[in.bill],
                                currency |-> in.currency])
  /\ UNCHANGED lineItems

CreateBillActivity(in) ==
  \/ /\ RowExists(in.bill)                  \* ON CONFLICT DO NOTHING, no event
     /\ UNCHANGED dbVars
  \/ /\ ~RowExists(in.bill)
     /\ bills' = [bills EXCEPT ![in.bill] =
                    [NoRow EXCEPT !.status = "OPEN", !.currency = in.currency]]
     /\ appendEvent(in.bill, [kind |-> "OPENED", actor |-> Owner[in.bill],
                              currency |-> in.currency])
     /\ UNCHANGED lineItems

\* Mutant: the total is raised although nothing was inserted.
AppendAlwaysAdds(in) ==
  /\ bills' = [bills EXCEPT ![in.bill].total = AddTo(@, Charge(in))]
  /\ IF HasItem(in.id) THEN UNCHANGED <<lineItems, billEvents>>
     ELSE /\ lineItems' = lineItems \cup {LineItem(in)}
          /\ appendEvent(in.bill, [kind |-> "ITEM_ADDED", actor |-> in.actor,
                                   item |-> LineItem(in)])

\* Mutant: the event is written although nothing was inserted.
AppendAlwaysLogs(in) ==
  /\ lineItems' = IF HasItem(in.id) THEN lineItems ELSE lineItems \cup {LineItem(in)}
  /\ bills' = IF HasItem(in.id) THEN bills
              ELSE [bills EXCEPT ![in.bill].total = AddTo(@, Charge(in))]
  /\ appendEvent(in.bill, [kind |-> "ITEM_ADDED", actor |-> in.actor,
                           item |-> LineItem(in)])

\* Mutant: the conflict is looked for among the bill's own items only.
AppendConflictsPerBill(in) ==
  IF \E li \in lineItems : li.id = in.id /\ li.bill = in.bill THEN UNCHANGED dbVars
  ELSE /\ lineItems' = lineItems \cup {LineItem(in)}
       /\ bills' = [bills EXCEPT ![in.bill].total = AddTo(@, Charge(in))]
       /\ appendEvent(in.bill, [kind |-> "ITEM_ADDED", actor |-> in.actor,
                                item |-> LineItem(in)])

AppendLineItemActivity(in) ==
  \/ /\ HasItem(in.id)                      \* ON CONFLICT DO NOTHING, no event
     /\ UNCHANGED dbVars
  \/ /\ ~HasItem(in.id)
     /\ lineItems' = lineItems \cup {LineItem(in)}
     /\ bills' = [bills EXCEPT ![in.bill].total = AddTo(@, Charge(in))]
     /\ appendEvent(in.bill, [kind |-> "ITEM_ADDED", actor |-> in.actor,
                              item |-> LineItem(in)])

CloseBillActivity(in) ==
  /\ bills' = [bills EXCEPT ![in.bill] =
                 [@ EXCEPT !.status = "CLOSED", !.total = in.total,
                           !.reason = in.reason]]
  /\ appendEvent(in.bill, [kind |-> "CLOSED", actor |-> in.actor,
                           total |-> in.total, reason |-> in.reason])
  /\ UNCHANGED lineItems

\* What the schema accepts: the UUID column types, the CHECK on amount and the
\* foreign keys to bills and currencies.  The one to clients always holds: an
\* owner has passed AuthHandler and no code deletes clients.  A conflicting id is
\* skipped before any foreign key is looked at, but only a value of the column's
\* type can conflict.
SchemaAccepts(in) ==
  \/ in.kind = "create" /\ in.currency \in Registered
  \/ /\ in.kind = "append"
     /\ in.id \in UuidItems
     /\ in.amount > 0
     /\ HasItem(in.id) \/ (RowExists(in.bill) /\ in.currency \in Registered)
  \/ in.kind = "close" /\ RowExists(in.bill)

Execute(in) ==
  /\ SchemaAccepts(in)
  /\ \/ in.kind = "create" /\ CreateBillActivity(in)
     \/ in.kind = "append" /\ AppendLineItemActivity(in)
     \/ in.kind = "close" /\ CloseBillActivity(in)

-----------------------------------------------------------------------------
(* What the tables say about a bill *)

\* The charges of the bill's line items.  line_items.id is the primary key, so
\* a charge occurs at most once.
ItemsTotal(b) ==
  [c \in Charges |->
     IF \E li \in lineItems : li.bill = b /\ Charge(li) = c THEN 1 ELSE 0]

DBTypeOK ==
  /\ bills \in [Bills -> Rows]
  /\ lineItems \subseteq LineItems
  /\ billEvents \in [Bills -> Seq(Events)]
=============================================================================
