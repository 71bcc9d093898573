------------------------- MODULE BillAmountsProofs --------------------------
(***************************************************************************)
(* Proofs about the rounding of BillAmounts, for every scale and width of  *)
(* the columns, every set of amounts and every number of items.            *)
(***************************************************************************)
EXTENDS BillAmounts, TLAPS

(* Multiplication by the scale, and rounding *)

\* The order of multiples of the scale is that of their factors.
LEMMA ScaleOrder ==
  ASSUME NEW p \in Int, NEW q \in Int
  PROVE  /\ Scale * p \in Int /\ Scale * p = p * Scale
         /\ p <= q => Scale * p <= Scale * q
         /\ Scale * p < Scale * q => p < q
         /\ Scale * (p + q) = Scale * p + Scale * q
         /\ Scale * (p + 1) = Scale * p + Scale
BY AmountsAssumption

\* Division by a positive number rounds down.
LEMMA DivMeans ==
  ASSUME NEW n \in Int, NEW d \in Nat \ {0}
  PROVE  n \div d \in Int /\ d * (n \div d) <= n /\ n < d * (n \div d) + d
OBVIOUS

\* A rounded amount is off by at most half a unit, upwards by less.
LEMMA RoundMeans ==
  ASSUME NEW a \in Int
  PROVE  /\ Round(a) \in Int
         /\ 2 * (Scale * Round(a)) <= 2 * a + Scale
         /\ 2 * a + Scale < 2 * (Scale * Round(a)) + 2 * Scale
<1>1. 2 * a + Scale \in Int /\ 2 * Scale \in Nat \ {0}
  BY AmountsAssumption
<1>2. /\ Round(a) \in Int
      /\ (2 * Scale) * Round(a) <= 2 * a + Scale
      /\ 2 * a + Scale < (2 * Scale) * Round(a) + 2 * Scale
  BY <1>1, DivMeans DEF Round
<1>3. (2 * Scale) * Round(a) = 2 * (Scale * Round(a))
  BY <1>2, AmountsAssumption
<1> QED
  BY <1>2, <1>3

\* No other whole number of units is that close.
LEMMA RoundIs ==
  ASSUME NEW a \in Int, NEW q \in Int, 2 * (Scale * q) <= 2 * a + Scale,
         2 * a + Scale < 2 * (Scale * q) + 2 * Scale
  PROVE  Round(a) = q
<1> DEFINE r == Round(a)
<1>1. r \in Int /\ 2 * (Scale * r) <= 2 * a + Scale /\ 2 * a + Scale < 2 * (Scale * r) + 2 * Scale
  BY RoundMeans
<1> HIDE DEF r
<1>2. Scale \in Int /\ Scale * q \in Int /\ Scale * r \in Int
  BY <1>1, AmountsAssumption
<1>3. Scale * q < Scale * r + Scale /\ Scale * r < Scale * q + Scale
  BY <1>1, <1>2
<1>4. q < r + 1 /\ r < q + 1
  BY <1>1, <1>3, ScaleOrder
<1> QED
  BY <1>1, <1>4 DEF r

\* Rounding after the addition to a whole number of units, as the row is, or
\* before it, as an item is, makes no difference.
LEMMA RoundAdds ==
  ASSUME NEW n \in Int, NEW a \in Int
  PROVE  Round(n * Scale + a) = n + Round(a)
<1> DEFINE r == Round(a)
<1>1. r \in Int /\ 2 * (Scale * r) <= 2 * a + Scale /\ 2 * a + Scale < 2 * (Scale * r) + 2 * Scale
  BY RoundMeans
<1> HIDE DEF r
<1>2. /\ Scale * (n + r) = Scale * n + Scale * r /\ n * Scale = Scale * n
      /\ Scale \in Int /\ Scale * n \in Int /\ Scale * r \in Int
  BY <1>1, ScaleOrder, AmountsAssumption
<1>3. /\ 2 * (Scale * (n + r)) <= 2 * (n * Scale + a) + Scale
      /\ 2 * (n * Scale + a) + Scale < 2 * (Scale * (n + r)) + 2 * Scale
  BY <1>1, <1>2
<1>4. n * Scale + a \in Int /\ n + r \in Int
  BY <1>1, <1>2
<1> QED
  BY <1>3, <1>4, RoundIs DEF r

\* A whole number of units is stored as it is.
LEMMA RoundExact ==
  ASSUME NEW n \in Int
  PROVE  Round(n * Scale) = n /\ Round(0) = 0
<1>1. /\ Scale \in Nat /\ Scale > 0 /\ Scale * n \in Int /\ n * Scale = Scale * n /\ Scale * 0 = 0
  BY AmountsAssumption
<1>2. Round(n * Scale) = n
  BY <1>1, RoundIs
<1>3. Round(0) = 0
  BY <1>1, RoundIs
<1> QED
  BY <1>2, <1>3

\* Nothing below zero comes out of rounding.
LEMMA RoundNat ==
  ASSUME NEW a \in Nat
  PROVE  Round(a) \in Nat
<1> DEFINE r == Round(a)
<1>1. r \in Int /\ 2 * a + Scale < 2 * (Scale * r) + 2 * Scale
  BY RoundMeans
<1> HIDE DEF r
<1>2. Scale \in Nat /\ Scale > 0 /\ Scale * r \in Int /\ Scale * 0 = 0
      /\ Scale * (r + 1) = Scale * r + Scale
  BY <1>1, ScaleOrder, AmountsAssumption
<1>3. Scale * 0 < Scale * (r + 1)
  BY <1>1, <1>2
<1>4. 0 < r + 1
  BY <1>1, <1>3, ScaleOrder
<1> QED
  BY <1>1, <1>4 DEF r

-----------------------------------------------------------------------------
(* The inductive invariant *)

\* How far the exact total is from the stored items: at most half a unit for
\* each, and below that upwards since halves are rounded up.
Drift ==
  /\ 2 * (Scale * stored) <= 2 * total + Scale * items
  /\ 2 * total <= 2 * (Scale * stored) + Scale * items
  /\ items > 0 => 2 * total < 2 * (Scale * stored) + Scale * items

Exact == fits => total = Scale * stored

\* A first item with more digits than the columns have is stored as another
\* amount; until there is one nothing was added up.
Inexact ==
  /\ items = 0 => total = 0 /\ stored = 0 /\ fits
  /\ items = 1 /\ ~fits => total # Scale * stored

IInv ==
  /\ TypeOK
  /\ OpenRowIsItems
  /\ status = "CLOSED" => row = Round(total)
  /\ Drift
  /\ Exact
  /\ Inexact
  /\ fits => status # "STUCK"

\* Initially all amounts are zero.
LEMMA InitIInv == Init => IInv
<1> SUFFICES ASSUME Init PROVE IInv
  OBVIOUS
<1>1. Scale \in Nat /\ Scale * 0 = 0
  BY AmountsAssumption
<1>0. status = "OPEN" /\ code = "" /\ fits \in BOOLEAN /\ fits
  BY DEF Init
<1>2. total = 0 /\ row = 0 /\ stored = 0 /\ items = 0
  BY DEF Init
<1>3. TypeOK
  <2>1. row \in 0 .. MaxUnits /\ items \in 0 .. MaxItems /\ total \in Nat /\ stored \in Nat
    BY <1>2, AmountsAssumption
  <2> QED
    BY <1>0, <1>2, <2>1 DEF TypeOK
<1>4. Drift /\ Exact
  <2>1. Scale * stored = 0 /\ Scale * items = 0
    BY <1>1, <1>2
  <2>2. Drift
    BY <1>2, <2>1 DEF Drift
  <2> QED
    BY <1>2, <2>1, <2>2 DEF Exact
<1>5. Inexact
  BY <1>0, <1>2 DEF Inexact
<1> QED
  BY <1>0, <1>2, <1>3, <1>4, <1>5 DEF IInv, OpenRowIsItems

\* One more item adds less than half a unit to the drift, or nothing.
LEMMA AddStep ==
  ASSUME IInv, NEW amount \in Inputs, AddLineItem(amount)
  PROVE  IInv'
<1> DEFINE r == Round(amount)
<1>1. amount \in Int /\ amount > 0 /\ Scale \in Nat /\ Scale > 0
  BY AmountsAssumption DEF AddLineItem, Positive
<1>2. /\ r \in Int /\ 2 * (Scale * r) <= 2 * amount + Scale
      /\ 2 * amount + Scale < 2 * (Scale * r) + 2 * Scale
  BY <1>1, RoundMeans
<1>3. /\ total \in Nat /\ stored \in Nat /\ items \in 0 .. MaxItems /\ row \in 0 .. MaxUnits
      /\ MaxUnits \in Nat /\ MaxItems \in Nat /\ fits \in BOOLEAN /\ row = stored
  BY AmountsAssumption DEF IInv, TypeOK, OpenRowIsItems, AddLineItem
<1>4. /\ status' = "OPEN" /\ total' = total + amount /\ stored' = stored + r
      /\ row' = Round(row * Scale + amount) /\ items' = items + 1 /\ items < MaxItems
      /\ fits' = (fits /\ amount % Scale = 0) /\ code' = "OK"
      /\ r > 0 /\ Round(row * Scale + amount) <= MaxUnits
  BY DEF AddLineItem, Accepts, Storable
<1>5. row' = row + r
  BY <1>1, <1>3, <1>4, RoundAdds
<1> HIDE DEF r
<1>6. TypeOK'
  <2>1. fits' \in BOOLEAN
    BY <1>4
  <2> QED
    BY <1>1, <1>2, <1>3, <1>4, <1>5, <2>1 DEF TypeOK
<1>7. /\ Scale * (stored + r) = Scale * stored + Scale * r
      /\ Scale * (items + 1) = Scale * items + Scale
      /\ Scale * stored \in Int /\ Scale * r \in Int /\ Scale * items \in Int
  <2>1. stored \in Int /\ items \in Int
    BY <1>3
  <2> QED
    BY <1>2, <2>1, ScaleOrder
<1>8. Drift'
  <2>1. /\ 2 * (Scale * stored) <= 2 * total + Scale * items
        /\ 2 * total <= 2 * (Scale * stored) + Scale * items
    BY DEF IInv, Drift
  <2> QED
    BY <1>1, <1>2, <1>3, <1>4, <1>7, <2>1 DEF Drift
<1>9. Exact'
  <2>1. SUFFICES ASSUME fits, amount % Scale = 0 PROVE total + amount = Scale * (stored + r)
    BY <1>4 DEF Exact
  <2>2. total = Scale * stored
    BY <2>1 DEF IInv, Exact
  <2>3. PICK k \in Int : amount = k * Scale
    <3>1. amount = (amount \div Scale) * Scale /\ amount \div Scale \in Int
      BY <1>1, <2>1
    <3> QED
      BY <3>1
  <2>4. r = k
    BY <2>3, RoundExact DEF r
  <2> QED
    BY <1>3, <1>7, <2>2, <2>3, <2>4, ScaleOrder
<1>10. Inexact'
  <2>1. SUFFICES ASSUME items = 0, ~fits' PROVE total + amount # Scale * (stored + r)
    BY <1>3, <1>4 DEF Inexact
  <2>2. total = 0 /\ stored = 0 /\ fits
    BY <2>1 DEF IInv, Inexact
  <2>3. amount % Scale # 0
    BY <1>4, <2>1, <2>2
  <2>4. amount # Scale * r
    <3>1. \A n \in Int : (Scale * n) % Scale = 0
      BY <1>1
    <3> QED
      BY <1>2, <2>3, <3>1
  <2> QED
    BY <1>1, <1>2, <2>2, <2>4
<1> QED
  BY <1>3, <1>4, <1>5, <1>6, <1>8, <1>9, <1>10 DEF IInv, OpenRowIsItems

\* The close rounds the exact total once; it fits if every amount did.
LEMMA CloseStep ==
  ASSUME IInv, CloseBill
  PROVE  IInv'
<1>1. /\ total \in Nat /\ stored \in Nat /\ row \in 0 .. MaxUnits /\ MaxUnits \in Nat
      /\ row = stored /\ fits \in BOOLEAN
  BY AmountsAssumption DEF IInv, TypeOK, OpenRowIsItems, CloseBill
<1>2. UNCHANGED <<total, stored, items, fits, code>>
  BY DEF CloseBill
<1>3. Drift' /\ Exact' /\ Inexact'
  BY <1>2 DEF IInv, Drift, Exact, Inexact
<1>4. CASE Storable(total) /\ status' = "CLOSED" /\ row' = Round(total)
  <2>1. row' \in 0 .. MaxUnits
    BY <1>1, <1>4, RoundNat DEF Storable
  <2>2. Round(total)' = Round(total)
    BY <1>2 DEF Round
  <2> QED
    BY <1>2, <1>3, <1>4, <2>1, <2>2 DEF IInv, TypeOK, OpenRowIsItems
<1>5. CASE ~Storable(total) /\ status' = "STUCK" /\ row' = row
  <2>1. ~fits
    <3>1. SUFFICES ASSUME fits PROVE FALSE
      OBVIOUS
    <3>2. total = stored * Scale
      BY <1>1, <3>1, ScaleOrder DEF IInv, Exact
    <3>3. Round(total) = stored
      BY <1>1, <3>2, RoundExact
    <3> QED
      BY <1>1, <1>5, <3>3 DEF Storable
  <2> QED
    BY <1>1, <1>2, <1>3, <1>5, <2>1 DEF IInv, TypeOK, OpenRowIsItems
<1> QED
  BY <1>4, <1>5 DEF CloseBill

\* The invariant is inductive.
LEMMA Invariance == Spec => []IInv
<1>1. IInv /\ [Next]_vars => IInv'
  <2> SUFFICES ASSUME IInv, [Next]_vars PROVE IInv'
    OBVIOUS
  <2>1. ASSUME NEW amount \in Inputs, AddLineItemRejected(amount) PROVE IInv'
    BY <2>1 DEF AddLineItemRejected, IInv, TypeOK, OpenRowIsItems, Drift, Exact, Inexact, Round
  <2>2. CASE UNCHANGED vars
    BY <2>2 DEF vars, IInv, TypeOK, OpenRowIsItems, Drift, Exact, Inexact, Round
  <2> QED
    BY <2>1, <2>2, AddStep, CloseStep DEF Next
<1> QED
  BY InitIInv, <1>1, PTL DEF Spec

-----------------------------------------------------------------------------
(* Theorems *)

\* Type correctness: no row holds more than its column can, whatever is added
\* and however the close rounds (AppendLineItemActivity, CloseBillActivity).
THEOREM TypeCorrect == Spec => []TypeOK
<1>1. IInv => TypeOK
  BY DEF IInv
<1> QED
  BY <1>1, Invariance, PTL

\* Until the close, bills.total_amount is the sum of line_items.amount, though
\* one is rounded after the addition and the other before it.
THEOREM OpenRowTheorem == Spec => []OpenRowIsItems
<1>1. IInv => OpenRowIsItems
  BY DEF IInv
<1> QED
  BY <1>1, Invariance, PTL

\* The workflow's exact total, and the row the close writes, are off the sum of
\* the stored items by at most half a unit for each item.
THEOREM DriftTheorem == Spec => []DriftIsBounded
<1>1. IInv => DriftIsBounded
  <2> SUFFICES ASSUME IInv PROVE DriftIsBounded
    OBVIOUS
  <2>1. /\ total \in Nat /\ stored \in Nat /\ items \in Nat /\ row \in Nat
        /\ Scale \in Nat /\ Scale > 0
    <3>1. TypeOK
      BY DEF IInv
    <3>2. total \in Nat /\ stored \in Nat /\ items \in 0 .. MaxItems /\ row \in 0 .. MaxUnits
      BY <3>1 DEF TypeOK
    <3> QED
      BY <3>2, AmountsAssumption
  <2>2. /\ Scale * stored \in Int /\ Scale * items \in Int
        /\ stored * Scale = Scale * stored /\ items * Scale = Scale * items
    BY <2>1, ScaleOrder
  <2>3. 2 * Distance(total, stored * Scale) <= items * Scale
    BY <2>1, <2>2 DEF IInv, Drift, Distance
  <2>4. 2 * Distance(row, stored) <= items
    <3>1. CASE status # "CLOSED"
      <4>1. row = stored
        BY <3>1 DEF IInv, OpenRowIsItems
      <4> QED
        BY <2>1, <4>1 DEF Distance
    <3>2. CASE status = "CLOSED"
      <4>1. /\ 2 * (Scale * row) <= 2 * total + Scale
            /\ 2 * total + Scale < 2 * (Scale * row) + 2 * Scale
        BY <2>1, <3>2, RoundMeans DEF IInv
      <4>2. /\ Scale * (2 * row) = 2 * (Scale * row) /\ Scale * (2 * stored) = 2 * (Scale * stored)
            /\ Scale * (2 * stored - 1) = 2 * (Scale * stored) - Scale
            /\ Scale * row \in Int
        BY <2>1
      <4>3. Scale * (2 * stored) < Scale * (2 * row + items + 1)
        <5>1. Scale * (2 * row + items + 1) = 2 * (Scale * row) + Scale * items + Scale
          BY <2>1
        <5> QED
          BY <2>1, <2>2, <4>1, <4>2, <5>1 DEF IInv, Drift
      <4>4. items > 0 => Scale * (2 * row) < Scale * (2 * stored + items + 1)
        <5>1. Scale * (2 * stored + items + 1) = 2 * (Scale * stored) + Scale * items + Scale
          BY <2>1
        <5> QED
          BY <2>1, <2>2, <4>1, <4>2, <5>1 DEF IInv, Drift
      <4>5. 2 * stored < 2 * row + items + 1
        BY <2>1, <4>3, ScaleOrder
      <4>6. items > 0 => 2 * row < 2 * stored + items + 1
        BY <2>1, <4>4, ScaleOrder
      <4>7. items = 0 => row = stored
        <5>1. SUFFICES ASSUME items = 0 PROVE row = stored
          OBVIOUS
        <5>2. total = stored * Scale
          <6>1. Scale * items = 0
            BY <2>1, <5>1
          <6> QED
            BY <2>1, <2>2, <6>1 DEF IInv, Drift
        <5> QED
          BY <2>1, <3>2, <5>2, RoundExact DEF IInv
      <4> QED
        BY <2>1, <4>5, <4>6, <4>7 DEF Distance
    <3> QED
      BY <3>1, <3>2
  <2> QED
    BY <2>3, <2>4 DEF DriftIsBounded
<1> QED
  BY <1>1, Invariance, PTL

\* With at most ten digits after the point everything is exact, and a close
\* never fails for want of digits before it; one item with more digits is
\* stored as another amount than the workflow counts.
THEOREM ExactTheorem == Spec => []StorableIsExact
<1>1. IInv => StorableIsExact
  <2> SUFFICES ASSUME IInv PROVE StorableIsExact
    OBVIOUS
  <2>0. total \in Nat /\ stored \in Nat /\ stored * Scale = Scale * stored
    <3>1. total \in Nat /\ stored \in Nat
      BY DEF IInv, TypeOK
    <3> QED
      BY <3>1, ScaleOrder
  <2>1. ASSUME fits PROVE total = stored * Scale /\ row = stored /\ status # "STUCK"
    <3>1. total = Scale * stored /\ status # "STUCK"
      BY <2>1 DEF IInv, Exact
    <3>2. Round(total) = stored
      BY <2>0, <3>1, RoundExact
    <3>3. row = stored
      BY <3>2 DEF IInv, OpenRowIsItems
    <3> QED
      BY <2>0, <3>1, <3>3
  <2>2. ASSUME items = 1, ~fits PROVE total # stored * Scale
    BY <2>0, <2>2 DEF IInv, Inexact
  <2> QED
    BY <2>1, <2>2 DEF StorableIsExact
<1> QED
  BY <1>1, Invariance, PTL
=============================================================================
