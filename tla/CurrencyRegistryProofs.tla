----------------------- MODULE CurrencyRegistryProofs -----------------------
(***************************************************************************)
(* Proofs that the invariants of CurrencyRegistry hold for every number of *)
(* lookups and refreshes and every set of codes.                           *)
(***************************************************************************)
EXTENDS CurrencyRegistry, TLAPS

\* Nothing read, cached or promised goes beyond the table, which only grows.
WithinTable ==
  /\ entry \subseteq table
  /\ floor \subseteq table
  /\ \A c \in Calls : call[c].got \subseteq table

\* Do lets one lookup at a time run its function; refreshes never enter Do.
OneLeader ==
  /\ \A c, d \in Lookups : Leads(c) /\ Leads(d) => c = d
  /\ \A c \in Refreshes : call[c].pc \in {"idle", "load", "fill", "done"}

\* While a lookup has yet to read the table nothing was read since the entry
\* went; a read whose result is not in the cache is still on its way there.
ReadsInv ==
  /\ reads <= 1
  /\ \A c \in Lookups : call[c].pc = "load" => reads = 0
  /\ ~cached /\ reads # 0 => \E c \in Lookups : call[c].pc = "fill"

IInv == TypeOK /\ WithinTable /\ RefreshStays /\ OneLeader /\ ReadsInv

\* Type correctness is inductive.
LEMMA TypeStep == TypeOK /\ [Next]_vars => TypeOK'
<1> SUFFICES ASSUME TypeOK, [Next]_vars PROVE TypeOK'
  OBVIOUS
<1> USE DEF TypeOK, At, Free
<1>1. ASSUME NEW c \in Lookups, getCurrencies(c) PROVE TypeOK'
  BY <1>1 DEF getCurrencies, Calls, PCs
<1>2. ASSUME NEW c \in Refreshes, refreshCurrencies(c) PROVE TypeOK'
  BY <1>2 DEF refreshCurrencies, Calls, PCs
<1>3. ASSUME NEW c \in Calls, Do(c) PROVE TypeOK'
  BY <1>3 DEF Do, PCs
<1>4. ASSUME NEW c \in Calls, CheckAgain(c) PROVE TypeOK'
  BY <1>4 DEF CheckAgain, Complete, PCs
<1>5. ASSUME NEW c \in Calls, loadCurrenciesFromDB(c) PROVE TypeOK'
  BY <1>5 DEF loadCurrenciesFromDB, PCs
<1>6. ASSUME NEW c \in Calls, LoadFails(c) PROVE TypeOK'
  BY <1>6 DEF LoadFails, Complete, PCs
<1>7. ASSUME NEW c \in Calls, Fill(c) PROVE TypeOK'
  BY <1>7 DEF Fill, Complete, setCurrencies, PCs
<1>8. ASSUME NEW c \in Calls, FinishRefresh(c) PROVE TypeOK'
  BY <1>8 DEF FinishRefresh, setCurrencies, PCs
<1>9. ASSUME NEW x \in Codes, InsertCurrency(x) PROVE TypeOK'
  BY <1>9 DEF InsertCurrency
<1>10. CASE Expire
  BY <1>10 DEF Expire
<1>11. CASE UNCHANGED vars
  BY <1>11 DEF vars
<1> QED
  BY <1>1, <1>2, <1>3, <1>4, <1>5, <1>6, <1>7, <1>8, <1>9, <1>10, <1>11
     DEF Next, Proceed

\* What is known stays within the table, and above the floor.
LEMMA RegistryStep ==
  TypeOK /\ WithinTable /\ RefreshStays /\ [Next]_vars => (WithinTable /\ RefreshStays)'
<1> SUFFICES ASSUME TypeOK, WithinTable, RefreshStays, [Next]_vars
             PROVE  (WithinTable /\ RefreshStays)'
  OBVIOUS
<1> USE DEF TypeOK, WithinTable, RefreshStays, At, Free
<1>1. ASSUME NEW c \in Lookups, getCurrencies(c) PROVE (WithinTable /\ RefreshStays)'
  BY <1>1 DEF getCurrencies, Calls
<1>2. ASSUME NEW c \in Refreshes, refreshCurrencies(c) PROVE (WithinTable /\ RefreshStays)'
  BY <1>2 DEF refreshCurrencies, Calls
<1>3. ASSUME NEW c \in Calls, Do(c) PROVE (WithinTable /\ RefreshStays)'
  BY <1>3 DEF Do
<1>4. ASSUME NEW c \in Calls, CheckAgain(c) PROVE (WithinTable /\ RefreshStays)'
  BY <1>4 DEF CheckAgain, Complete
<1>5. ASSUME NEW c \in Calls, loadCurrenciesFromDB(c) PROVE (WithinTable /\ RefreshStays)'
  BY <1>5 DEF loadCurrenciesFromDB
<1>6. ASSUME NEW c \in Calls, LoadFails(c) PROVE (WithinTable /\ RefreshStays)'
  BY <1>6 DEF LoadFails, Complete
<1>7. ASSUME NEW c \in Calls, Fill(c) PROVE (WithinTable /\ RefreshStays)'
  BY <1>7 DEF Fill, Complete, setCurrencies
<1>8. ASSUME NEW c \in Calls, FinishRefresh(c) PROVE (WithinTable /\ RefreshStays)'
  \* The refresh itself is among the registries in flight, so the floor rises
  \* to codes that it, and every other call about to fill, knows.
  <2>1. \A d \in Calls : call[d].pc = "fill" => call[d].got \in InFlight
    BY DEF InFlight
  <2>2. \A d \in Calls : call[d].pc = "fill" => floor' \subseteq call[d].got
    BY <1>8, <2>1 DEF FinishRefresh
  <2>3. call[c].pc = "fill" /\ entry' = call[c].got /\ table' = table
    BY <1>8 DEF FinishRefresh, setCurrencies
  <2>4. call' = [call EXCEPT ![c].pc = "done"]
    BY <1>8 DEF FinishRefresh
  <2> QED
    BY <2>2, <2>3, <2>4
<1>9. ASSUME NEW x \in Codes, InsertCurrency(x) PROVE (WithinTable /\ RefreshStays)'
  BY <1>9 DEF InsertCurrency
<1>10. CASE Expire
  BY <1>10 DEF Expire
<1>11. CASE UNCHANGED vars
  BY <1>11 DEF vars
<1> QED
  BY <1>1, <1>2, <1>3, <1>4, <1>5, <1>6, <1>7, <1>8, <1>9, <1>10, <1>11
     DEF Next, Proceed

\* One lookup at a time loads, and it reads the table once per expiry.
LEMMA ReadsStep ==
  TypeOK /\ OneLeader /\ ReadsInv /\ [Next]_vars => (OneLeader /\ ReadsInv)'
<1> SUFFICES ASSUME TypeOK, OneLeader, ReadsInv, [Next]_vars
             PROVE  (OneLeader /\ ReadsInv)'
  OBVIOUS
<1> USE RegistryAssumption DEF TypeOK, OneLeader, ReadsInv, Leads, At, Free, Calls
<1>1. ASSUME NEW c \in Lookups, getCurrencies(c) PROVE (OneLeader /\ ReadsInv)'
  BY <1>1 DEF getCurrencies
<1>2. ASSUME NEW c \in Refreshes, refreshCurrencies(c) PROVE (OneLeader /\ ReadsInv)'
  BY <1>2 DEF refreshCurrencies
<1>3. ASSUME NEW c \in Calls, Do(c) PROVE (OneLeader /\ ReadsInv)'
  BY <1>3 DEF Do
<1>4. ASSUME NEW c \in Calls, CheckAgain(c) PROVE (OneLeader /\ ReadsInv)'
  BY <1>4 DEF CheckAgain, Complete
<1>5. ASSUME NEW c \in Calls, loadCurrenciesFromDB(c) PROVE (OneLeader /\ ReadsInv)'
  BY <1>5 DEF loadCurrenciesFromDB
<1>6. ASSUME NEW c \in Calls, LoadFails(c) PROVE (OneLeader /\ ReadsInv)'
  BY <1>6 DEF LoadFails, Complete
<1>7. ASSUME NEW c \in Calls, Fill(c) PROVE (OneLeader /\ ReadsInv)'
  BY <1>7 DEF Fill, Complete, setCurrencies
<1>8. ASSUME NEW c \in Calls, FinishRefresh(c) PROVE (OneLeader /\ ReadsInv)'
  BY <1>8 DEF FinishRefresh, setCurrencies
<1>9. ASSUME NEW x \in Codes, InsertCurrency(x) PROVE (OneLeader /\ ReadsInv)'
  BY <1>9 DEF InsertCurrency
<1>10. CASE Expire
  BY <1>10 DEF Expire
<1>11. CASE UNCHANGED vars
  BY <1>11 DEF vars
<1> QED
  BY <1>1, <1>2, <1>3, <1>4, <1>5, <1>6, <1>7, <1>8, <1>9, <1>10, <1>11
     DEF Next, Proceed

LEMMA InitIInv == Init => IInv
BY RegistryAssumption
   DEF Init, IInv, TypeOK, WithinTable, RefreshStays, OneLeader, ReadsInv, Leads,
       Calls, PCs

\* The inductive invariant of the registry.
LEMMA Invariance == Spec => []IInv
<1>1. IInv /\ [Next]_vars => IInv'
  BY TypeStep, RegistryStep, ReadsStep DEF IInv
<1> QED
  BY InitIInv, <1>1, PTL DEF Spec

\* Type correctness: a lookup, a follower and a refresh are always at one of
\* their points, and hold a registry of known codes or nil.
THEOREM TypeCorrect == Spec => []TypeOK
<1>1. IInv => TypeOK
  BY DEF IInv
<1> QED
  BY Invariance, <1>1, PTL

\* Currencies a refresh published stay known, whatever lookups and refreshes
\* follow (refreshCurrencies, setCurrencies).
THEOREM RefreshStaysTheorem == Spec => []RefreshStays
<1>1. IInv => RefreshStays
  BY DEF IInv
<1> QED
  BY Invariance, <1>1, PTL

\* No lookup knows a code that is not in the table (getCurrencies fails closed).
THEOREM FailClosedTheorem == Spec => []KnowsOnlyRegistered
<1>1. IInv => KnowsOnlyRegistered
  BY DEF IInv, WithinTable, KnowsOnlyRegistered
<1> QED
  BY Invariance, <1>1, PTL

\* Lookups read the table at most once between two expiries of the entry.
THEOREM OneReadTheorem == Spec => []OneReadPerExpiry
<1>1. IInv => OneReadPerExpiry
  BY DEF IInv, ReadsInv, OneReadPerExpiry
<1> QED
  BY Invariance, <1>1, PTL
=============================================================================
