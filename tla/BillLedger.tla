----------------------------- MODULE BillLedger -----------------------------
(***************************************************************************)
(* What the bill service promises to the owner of a bill, without          *)
(* workflows, activities, attempts or transactions: a bill is opened, takes *)
(* each charge at most once while it is open, is closed once, and a call    *)
(* that adds a charge is acknowledged only after the charge is on the bill  *)
(* and refused only if it never gets there.  The promise to a bill may be   *)
(* forsaken; nothing is said of it from then on.                            *)
(***************************************************************************)
EXTENDS Naturals

CONSTANTS
  Bills,    \* bill ids
  Calls,    \* calls that add a charge
  Charges   \* records with at least the field id, the charge's key

VARIABLES
  ledger,   \* per bill, its status, the charges on it and its total
  call      \* per call, the bill, the charge and how far it got

vars == <<ledger, call>>

-----------------------------------------------------------------------------

Entry(status) ==
  [status |-> status, charges |-> {}, total |-> [c \in Charges |-> 0]]

Forsaken == Entry("FORSAKEN")

Call(st, b, c) == [st |-> st, bill |-> b, charge |-> c]

Idle == [st |-> "idle"]

IsOn(u, b) == call[u] # Idle /\ call[u].bill = b

OnBill(b, key) == \E c \in ledger[b].charges : c.id = key

Init ==
  /\ ledger = [b \in Bills |-> Entry("NONE")]
  /\ call = [u \in Calls |-> Idle]

-----------------------------------------------------------------------------

Open(b) ==
  /\ ledger[b].status = "NONE"
  /\ ledger' = [ledger EXCEPT ![b].status = "OPEN"]
  /\ UNCHANGED call

\* A call is accepted, or refused or acknowledged at once; it is acknowledged
\* at once only if its key is already on the bill.
Ask(u, b, c) ==
  /\ call[u] = Idle
  /\ \E st \in {"asked", "refused", "acked", "void"} :
       /\ st = "void" <=> ledger[b] = Forsaken
       /\ st = "acked" => OnBill(b, c.id)
       /\ call' = [call EXCEPT ![u] = Call(st, b, c)]
  /\ UNCHANGED ledger

\* The charge of an accepted call gets on the bill: once, and while it is open.
Add(u) ==
  LET b == call[u].bill
      c == call[u].charge
  IN /\ call[u].st = "asked"
     /\ ledger[b].status = "OPEN"
     /\ ~OnBill(b, c.id)
     /\ ledger' = [ledger EXCEPT ![b].charges = @ \cup {c},
                                 ![b].total[c] = @ + 1]
     /\ call' = [call EXCEPT ![u].st = "added"]

Acknowledge(u) ==
  /\ call[u].st = "added"
  /\ call' = [call EXCEPT ![u].st = "acked"]
  /\ UNCHANGED ledger

Refuse(u) ==
  /\ call[u].st = "asked"
  /\ call' = [call EXCEPT ![u].st = "refused"]
  /\ UNCHANGED ledger

\* The charges and the total of a closed bill are those it had when open, and
\* every accepted call has been decided.
Close(b) ==
  /\ ledger[b].status = "OPEN"
  /\ \A u \in Calls : IsOn(u, b) => call[u].st \in {"acked", "refused"}
  /\ ledger' = [ledger EXCEPT ![b].status = "CLOSED"]
  /\ UNCHANGED call

\* The promise to b is given up, maybe because of a call u that just arrived.
Forsake(b) ==
  LET voided == [u \in Calls |-> IF IsOn(u, b) THEN [call[u] EXCEPT !.st = "void"]
                                 ELSE call[u]]
  IN /\ ledger[b] # Forsaken
     /\ ledger' = [ledger EXCEPT ![b] = Forsaken]
     /\ \/ call' = voided
        \/ \E u \in Calls, c \in Charges :
             /\ call[u] = Idle
             /\ call' = [voided EXCEPT ![u] = Call("void", b, c)]

\* Next allows stuttering by itself, before any other step is tried.
Next ==
  \/ UNCHANGED vars
  \/ \E b \in Bills : Open(b) \/ Close(b) \/ Forsake(b)
  \/ \E u \in Calls, b \in Bills, c \in Charges : Ask(u, b, c)
  \/ \E u \in Calls : call[u] # Idle /\ (Add(u) \/ Acknowledge(u) \/ Refuse(u))

Spec == Init /\ [][Next]_vars
=============================================================================
