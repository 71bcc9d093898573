----------------------------- MODULE BillAmounts -----------------------------
(***************************************************************************)
(* The arithmetic of one bill.  The workflow adds amounts of any number of *)
(* digits exactly (shopspring/decimal); the columns line_items.amount and  *)
(* bills.total_amount are NUMERIC(30, 10), which round to ten digits and   *)
(* reject what has too many before the point.  Each item is rounded on its *)
(* own, the total written at the close is rounded once, and it is the      *)
(* workflow's, so the two can differ.                                      *)
(*                                                                         *)
(* An amount is counted in fine units, Scale of which make a unit of the   *)
(* columns (10^-10).  Interleavings are the matter of BillWorkflow: here an *)
(* addition or a close is one step.                                        *)
(***************************************************************************)
EXTENDS Integers

CONSTANTS
  Inputs,    \* amounts a request may carry, in fine units
  Scale,     \* fine units in a unit of the columns
  MaxUnits,  \* the largest value of the columns, in their units
  MaxItems   \* bound on the number of items

ASSUME AmountsAssumption ==
  /\ Inputs \subseteq Int
  /\ Scale \in Nat \ {0}
  /\ MaxUnits \in Nat
  /\ MaxItems \in Nat

VARIABLES
  status,  \* of the bill: OPEN, CLOSED, or STUCK after a close that failed
  total,   \* TotalAmount in the workflow, in fine units
  row,     \* bills.total_amount, in units
  stored,  \* the sum of line_items.amount, in units
  items,   \* the number of line items
  fits,    \* history: every amount was a whole number of units
  code     \* the last answer of AddLineItem

vars == <<status, total, row, stored, items, fits, code>>

-----------------------------------------------------------------------------

\* Mutant: the digits beyond the tenth are cut off.
Truncate(amount) == amount \div Scale

\* Mutant: a column with one digit less.
RoundCoarse(amount) == 2 * ((amount + Scale) \div (2 * Scale))

\* Assignment to NUMERIC(30, 10): to the nearest unit, a half away from zero.
Round(amount) == (2 * amount + Scale) \div (2 * Scale)

Storable(amount) == Round(amount) <= MaxUnits

TypeOK ==
  /\ status \in {"OPEN", "CLOSED", "STUCK"}
  /\ total \in Nat
  /\ row \in 0 .. MaxUnits
  /\ stored \in Nat
  /\ items \in 0 .. MaxItems
  /\ fits \in BOOLEAN
  /\ code \in {"", "OK", "InvalidArgument"}

Init ==
  /\ status = "OPEN"
  /\ total = 0 /\ row = 0 /\ stored = 0 /\ items = 0
  /\ fits = TRUE
  /\ code = ""

\* parseAmount and the validator accept what is positive.
Positive(amount) == amount > 0

\* The transaction of AppendLineItemActivity goes through: the column accepts
\* the amount, its CHECK (amount > 0) looks at the rounded one, and the sum of
\* the row and the amount as it was sent is rounded to the row's column.
Accepts(amount) ==
  /\ Storable(amount)
  /\ Round(amount) > 0
  /\ Storable(row * Scale + amount)

\* Mutant: neither column has a limit.
AddLineItemUnchecked(amount) ==
  /\ status = "OPEN"
  /\ Positive(amount)
  /\ items < MaxItems
  /\ total' = total + amount
  /\ stored' = stored + Round(amount)
  /\ row' = row + Round(amount)
  /\ items' = items + 1
  /\ fits' = (fits /\ amount % Scale = 0)
  /\ code' = "OK"
  /\ UNCHANGED status

\* Mutant: the workflow's total is written to the row.
AddLineItemOverwrites(amount) ==
  /\ status = "OPEN"
  /\ Positive(amount)
  /\ Accepts(amount)
  /\ items < MaxItems
  /\ total' = total + amount
  /\ stored' = stored + Round(amount)
  /\ row' = Round(total + amount)
  /\ items' = items + 1
  /\ fits' = (fits /\ amount % Scale = 0)
  /\ code' = "OK"
  /\ UNCHANGED status

AddLineItem(amount) ==
  /\ status = "OPEN"
  /\ Positive(amount)
  /\ Accepts(amount)
  /\ items < MaxItems
  /\ total' = total + amount
  /\ stored' = stored + Round(amount)
  /\ row' = Round(row * Scale + amount)
  /\ items' = items + 1
  /\ fits' = (fits /\ amount % Scale = 0)
  /\ code' = "OK"
  /\ UNCHANGED status

\* The endpoint rejects the amount, or every attempt of the activity fails.
AddLineItemRejected(amount) ==
  /\ status = "OPEN"
  /\ ~Positive(amount) \/ ~Accepts(amount)
  /\ code' = "InvalidArgument"
  /\ UNCHANGED <<status, total, row, stored, items, fits>>

\* CloseBillActivity writes the workflow's total over the row's.  If it does
\* not fit every attempt fails, and so does the workflow: the row stays OPEN.
CloseBill ==
  /\ status = "OPEN"
  /\ \/ /\ Storable(total)
        /\ status' = "CLOSED"
        /\ row' = Round(total)
     \/ /\ ~Storable(total)
        /\ status' = "STUCK"
        /\ UNCHANGED row
  /\ UNCHANGED <<total, stored, items, fits, code>>

Next ==
  \/ \E amount \in Inputs : AddLineItem(amount) \/ AddLineItemRejected(amount)
  \/ CloseBill

Spec == Init /\ [][Next]_vars

-----------------------------------------------------------------------------
(* Properties *)

Distance(m, n) == IF m < n THEN n - m ELSE m - n

\* Until the close the row is the sum of the items as they are stored, although
\* the row is rounded after the addition and the item before it.
OpenRowIsItems == status # "CLOSED" => row = stored

\* The total in memory, which AddLineItem and GetBill answer while the bill is
\* open, is off the sum of the stored items by at most half a unit for each of
\* them, and so is the total that the close writes: rounding it once more adds
\* nothing.
DriftIsBounded ==
  /\ 2 * Distance(total, stored * Scale) <= items * Scale
  /\ 2 * Distance(row, stored) <= items

\* As long as no amount has more than ten digits after the point, the close
\* changes nothing and never fails for want of digits before the point; and only
\* so long: a single item with more digits is stored as another amount, although
\* "full decimal precision is preserved end-to-end" (README).
StorableIsExact ==
  /\ fits => total = stored * Scale /\ row = stored /\ status # "STUCK"
  /\ items = 1 /\ ~fits => total # stored * Scale
=============================================================================
