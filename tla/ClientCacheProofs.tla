-------------------------- MODULE ClientCacheProofs -------------------------
(***************************************************************************)
(* Proofs that lookupClient loads once per miss and that its cache serves  *)
(* nothing older than promised, for every number of requests and accounts, *)
(* every cache size, TTL and load timeout.                                 *)
(***************************************************************************)
EXTENDS ClientCache, TLAPS

Reqs == [pc : PCs, id : Accounts \cup {""}, mutating : BOOLEAN,
         row : Statuses \cup {"ABSENT", ""}, held : 0 .. LoadTicks, answer : Answers]

Outcomes == Statuses \cup {"notFound", "error", "nilClient"}

\* The status a cache entry stands for.
Means(entry) == IF entry = "NIL" THEN "ABSENT" ELSE entry

-----------------------------------------------------------------------------
(* The inductive invariant *)

\* Inside lookupClient a request asserts an account; a row it holds is the
\* table's unless the account changed since it was read.
RequestInv(q) ==
  LET r == req[q] IN
  /\ r.pc \notin {"idle", "done"} => r.id \in Accounts
  /\ r.pc # "fill" => r.held = 0
  /\ r.pc = "fill" => /\ r.row # ""
                      /\ since[r.id] > r.held => r.row = clients[r.id]

\* An entry is younger than the TTL, and says what the table says unless the
\* account changed after the row was read, at most LoadTicks before it was added.
EntryInv(a) ==
  cache[a] # "MISS" =>
    /\ age[a] < TTL
    /\ since[a] > age[a] + LoadTicks => Means(cache[a]) = clients[a]

OneLeader ==
  \A p, q \in Requests : Leads(p) /\ Leads(q) /\ req[p].id = req[q].id => p = q

LoadsMiss ==
  \A q \in Requests : req[q].pc \in {"load", "fill"} => cache[req[q].id] = "MISS"

IInv ==
  /\ TypeOK
  /\ \A q \in Requests : RequestInv(q)
  /\ \A a \in Accounts : EntryInv(a)
  /\ OneLeader
  /\ LoadsMiss

-----------------------------------------------------------------------------
(* Operators *)

\* The clocks are natural numbers within their bounds.
LEMMA Clocks ==
  ASSUME TypeOK
  PROVE  /\ TTL \in Nat /\ 0 < TTL /\ LoadTicks \in Nat
         /\ Horizon \in Nat /\ Horizon = TTL + LoadTicks
         /\ 0 \in 0 .. TTL /\ 0 \in 0 .. Horizon
         /\ \A a \in Accounts : since[a] \in Nat /\ since[a] =< Horizon /\ age[a] \in Nat
         /\ \A q \in Requests : req[q].held \in Nat /\ req[q].held =< LoadTicks
<1>1. TTL \in Nat /\ 0 < TTL /\ LoadTicks \in Nat /\ Horizon \in Nat /\ Horizon = TTL + LoadTicks
  BY CacheAssumption DEF Horizon
<1>2. 0 \in 0 .. TTL /\ 0 \in 0 .. Horizon
  BY <1>1
<1> HIDE DEF Horizon
<1>3. \A a \in Accounts : since[a] \in 0 .. Horizon /\ age[a] \in 0 .. TTL
  BY DEF TypeOK
<1>4. \A a \in Accounts : since[a] \in Nat /\ since[a] =< Horizon /\ age[a] \in Nat
  BY <1>1, <1>3
<1>5. \A q \in Requests : req[q].held \in 0 .. LoadTicks
  BY DEF TypeOK
<1>6. \A q \in Requests : req[q].held \in Nat /\ req[q].held =< LoadTicks
  BY <1>1, <1>5
<1> QED
  BY <1>1, <1>2, <1>4, <1>6

\* A request that is finished holds no row.
LEMMA FinishMeans ==
  ASSUME NEW r \in Reqs, NEW outcome \in Outcomes
  PROVE  LET f == Finish(r, outcome) IN
         /\ f \in Reqs /\ f.pc = "done" /\ f.held = 0 /\ f.id = r.id
         /\ f.mutating = r.mutating /\ f.answer = Admit(outcome, r.mutating)
<1>1. Admit(outcome, r.mutating) \in Answers
  BY DEF Admit, Answers, Outcomes, Statuses
<1>2. 0 \in 0 .. LoadTicks
  BY CacheAssumption
<1> HIDE DEF Admit
<1> QED
  BY <1>1, <1>2 DEF Finish, Reqs, PCs

\* An answer that judges the account goes by the status s.
JudgedBy(r, s) == Judges(r) => Agrees(r, s)

\* What Finish answers agrees with a status that the outcome reports.
LEMMA FinishAgrees ==
  ASSUME NEW r \in Reqs, NEW s \in Statuses \cup {"ABSENT"}, NEW outcome,
         \/ outcome \in Statuses /\ outcome = s
         \/ outcome \in {"notFound", "nilClient"} /\ s = "ABSENT"
         \/ outcome = "error"
  PROVE  JudgedBy(Finish(r, outcome), s)
<1> DEFINE f == Finish(r, outcome)
<1>1. outcome \in Outcomes
  BY DEF Outcomes
<1>2. f.mutating = r.mutating /\ f.answer = Admit(outcome, r.mutating) /\ r.mutating \in BOOLEAN
  BY <1>1, FinishMeans DEF Reqs
<1> HIDE DEF f
<1>3. CASE outcome \in Statuses /\ outcome = s
  BY <1>2, <1>3 DEF Admit, JudgedBy, Judges, Agrees, Statuses, f
<1>4. CASE outcome \in {"notFound", "nilClient"} /\ s = "ABSENT"
  BY <1>2, <1>4 DEF Admit, JudgedBy, Judges, Agrees, Statuses, f
<1>5. CASE outcome = "error"
  BY <1>2, <1>5 DEF Admit, JudgedBy, Judges, Agrees, Statuses, f
<1> QED
  BY <1>3, <1>4, <1>5

\* Complete finishes the leader and its followers, which assert the same id.
LEMMA CompleteMeans ==
  ASSUME TypeOK, NEW q \in Requests, NEW outcome \in Outcomes, Complete(q, outcome)
  PROVE  /\ req' \in [Requests -> Reqs]
         /\ req'[q].pc = "done"
         /\ \A p \in Requests :
              \/ req'[p] = req[p]
              \/ /\ req'[p] = Finish(req[p], outcome) /\ req[p].id = req[q].id
                 /\ req'[p].pc = "done" /\ req'[p].held = 0 /\ req'[p].id = req[p].id
<1>1. req \in [Requests -> Reqs]
  BY DEF TypeOK, Reqs
<1>2. req' = [p \in Requests |->
                IF p = q \/ (req[p].pc = "follow" /\ req[p].id = req[q].id)
                THEN Finish(req[p], outcome) ELSE req[p]]
  BY DEF Complete
<1>3. \A p \in Requests :
        LET f == Finish(req[p], outcome) IN
        f \in Reqs /\ f.pc = "done" /\ f.held = 0 /\ f.id = req[p].id
  BY <1>1, FinishMeans
<1> QED
  BY <1>1, <1>2, <1>3

\* Finishing requests disturbs no other request's part of the invariant.
LEMMA CompleteKeeps ==
  ASSUME IInv, NEW q \in Requests, NEW outcome \in Outcomes, Complete(q, outcome),
         UNCHANGED <<clients, since>>
  PROVE  /\ req' \in [Requests -> Reqs]
         /\ \A p \in Requests : RequestInv(p)'
         /\ OneLeader'
<1>1. /\ req' \in [Requests -> Reqs]
      /\ \A p \in Requests : \/ req'[p] = req[p]
                             \/ req'[p].pc = "done" /\ req'[p].held = 0
  BY CompleteMeans DEF IInv
<1>2. ASSUME NEW p \in Requests
      PROVE  RequestInv(p)'
  BY <1>1 DEF IInv, RequestInv
<1>3. OneLeader'
  BY <1>1 DEF IInv, OneLeader, Leads
<1> QED
  BY <1>1, <1>2, <1>3

\* The parts of the invariant that a change of one request alone can disturb.
LEMMA RequestStep ==
  ASSUME IInv, NEW q \in Requests, NEW r \in Reqs, req' = [req EXCEPT ![q] = r],
         UNCHANGED <<clients, since, cache, age>>,
         r.pc \notin {"idle", "done"} => r.id \in Accounts,
         r.pc # "fill" => r.held = 0,
         r.pc = "fill" => r.row # "" /\ (since[r.id] > r.held => r.row = clients[r.id]),
         r.pc \in {"load", "fill"} => cache[r.id] = "MISS",
         r.pc \in {"recheck", "load", "fill"} =>
           \A p \in Requests : p # q /\ Leads(p) => req[p].id # r.id
  PROVE  IInv'
<1>1. req \in [Requests -> Reqs]
  BY DEF IInv, TypeOK, Reqs
<1>2. req' \in [Requests -> Reqs] /\ req'[q] = r /\ \A p \in Requests : p # q => req'[p] = req[p]
  BY <1>1
<1>3. TypeOK'
  BY <1>2 DEF IInv, TypeOK, Reqs
<1>4. ASSUME NEW p \in Requests
      PROVE  RequestInv(p)'
  BY <1>2 DEF IInv, RequestInv
<1>5. ASSUME NEW a \in Accounts
      PROVE  EntryInv(a)'
  BY DEF IInv, EntryInv
<1>6. OneLeader'
  BY <1>2 DEF IInv, OneLeader, Leads
<1>7. LoadsMiss'
  BY <1>2 DEF IInv, LoadsMiss
<1> QED
  BY <1>3, <1>4, <1>5, <1>6, <1>7 DEF IInv

-----------------------------------------------------------------------------
(* Requests *)

LEMMA InitIInv == Init => IInv
<1> SUFFICES ASSUME Init PROVE IInv
  OBVIOUS
<1>1. Horizon \in Nat /\ TTL \in Nat /\ LoadTicks \in Nat
  BY CacheAssumption DEF Horizon
<1>2. Idle \in Reqs /\ Idle.pc = "idle" /\ Idle.held = 0
  BY <1>1 DEF Idle, Reqs, PCs, Answers
<1>3. req \in [Requests -> Reqs] /\ \A q \in Requests : req[q] = Idle
  BY <1>2 DEF Init
<1>4. TypeOK
  <2>1. since \in [Accounts -> 0 .. Horizon] /\ age \in [Accounts -> 0 .. TTL]
    BY <1>1 DEF Init
  <2>2. clients \in [Accounts -> Statuses \cup {"ABSENT"}]
        /\ cache \in [Accounts -> Statuses \cup {"MISS", "NIL"}]
    BY DEF Init
  <2> QED
    BY <1>3, <2>1, <2>2 DEF TypeOK, Reqs
<1> QED
  BY <1>2, <1>3, <1>4 DEF Init, IInv, RequestInv, EntryInv, OneLeader, LoadsMiss, Leads

\* The request that Arrive starts: at the cache's answer, or before Do.
LEMMA ArriveMeans ==
  ASSUME IInv, NEW q \in Requests, NEW id \in Accounts, NEW m \in BOOLEAN, Arrive(q, id, m)
  PROVE  \E s \in Reqs :
           /\ s.id = id /\ s.held = 0 /\ s.pc = "idle"
           /\ \/ cache[id] = "MISS" /\ req' = [req EXCEPT ![q] = [s EXCEPT !.pc = "enter"]]
              \/ /\ cache[id] # "MISS" /\ Hit(cache[id]) \in Outcomes
                 /\ req' = [req EXCEPT ![q] = Finish(s, Hit(cache[id]))]
<1> DEFINE s == [Idle EXCEPT !.id = id, !.mutating = m]
<1>1. s \in Reqs /\ s.id = id /\ s.held = 0 /\ s.pc = "idle"
  <2>1. Idle \in Reqs /\ Idle.held = 0 /\ Idle.pc = "idle"
    BY CacheAssumption DEF Idle, Reqs, PCs, Answers
  <2> QED
    BY <2>1 DEF Reqs
<1>2. cache[id] # "MISS" => Hit(cache[id]) \in Outcomes
  BY DEF IInv, TypeOK, Hit, Outcomes
<1>3. req' = [req EXCEPT ![q] = IF cache[id] = "MISS" THEN [s EXCEPT !.pc = "enter"]
                                ELSE Finish(s, Hit(cache[id]))]
  BY DEF Arrive
<1> HIDE DEF s
<1> QED
  BY <1>1, <1>2, <1>3

LEMMA ArriveStep ==
  ASSUME IInv, NEW q \in Requests, NEW id \in Accounts, NEW m \in BOOLEAN, Arrive(q, id, m)
  PROVE  IInv'
<1>1. UNCHANGED <<clients, since, cache, age>>
  BY DEF Arrive
<1>2. PICK s \in Reqs :
           /\ s.id = id /\ s.held = 0 /\ s.pc = "idle"
           /\ \/ cache[id] = "MISS" /\ req' = [req EXCEPT ![q] = [s EXCEPT !.pc = "enter"]]
              \/ /\ cache[id] # "MISS" /\ Hit(cache[id]) \in Outcomes
                 /\ req' = [req EXCEPT ![q] = Finish(s, Hit(cache[id]))]
  BY ArriveMeans
<1>3. CASE req' = [req EXCEPT ![q] = [s EXCEPT !.pc = "enter"]]
  <2> DEFINE r == [s EXCEPT !.pc = "enter"]
  <2>1. r \in Reqs /\ r.pc = "enter" /\ r.id = id /\ r.held = 0
    BY <1>2 DEF Reqs, PCs
  <2>2. req' = [req EXCEPT ![q] = r]
    BY <1>3
  <2> HIDE DEF r
  <2> QED
    BY <1>1, <2>1, <2>2, RequestStep
<1>4. CASE Hit(cache[id]) \in Outcomes /\ req' = [req EXCEPT ![q] = Finish(s, Hit(cache[id]))]
  <2> DEFINE r == Finish(s, Hit(cache[id]))
  <2>1. r \in Reqs /\ r.pc = "done" /\ r.held = 0
    BY <1>4, FinishMeans
  <2>2. req' = [req EXCEPT ![q] = r]
    BY <1>4
  <2> HIDE DEF r
  <2> QED
    BY <1>1, <2>1, <2>2, RequestStep
<1> QED
  BY <1>2, <1>3, <1>4

LEMMA AnonymousStep ==
  ASSUME IInv, NEW q \in Requests, ArriveAnonymous(q)
  PROVE  IInv'
<1> DEFINE r == [Idle EXCEPT !.pc = "done", !.answer = "Unauthenticated"]
<1>1. r \in Reqs /\ r.pc = "done" /\ r.held = 0
  <2>1. Idle \in Reqs /\ Idle.held = 0
    BY CacheAssumption DEF Idle, Reqs, PCs, Answers
  <2> QED
    BY <2>1 DEF Reqs, PCs, Answers
<1>2. req' = [req EXCEPT ![q] = r] /\ UNCHANGED <<clients, since, cache, age>>
  BY DEF ArriveAnonymous
<1> HIDE DEF r
<1> QED
  BY <1>1, <1>2, RequestStep

\* A request that moves on inside lookupClient keeps what it asked for.
LEMMA Moves ==
  ASSUME IInv, NEW q \in Requests, NEW pc \in PCs, req[q].pc \notin {"idle", "done", "fill"}
  PROVE  LET r == [req[q] EXCEPT !.pc = pc] IN
         r \in Reqs /\ r.pc = pc /\ r.id = req[q].id /\ r.held = 0 /\ r.id \in Accounts
<1>1. req[q] \in Reqs /\ req[q].id \in Accounts /\ req[q].held = 0
  BY DEF IInv, TypeOK, Reqs, RequestInv
<1> QED
  BY <1>1 DEF Reqs

LEMMA DoStep ==
  ASSUME IInv, NEW q \in Requests, Do(q)
  PROVE  IInv'
<1> DEFINE led == \E p \in Requests : Leads(p) /\ req[p].id = req[q].id
           pc == IF led THEN "follow" ELSE "recheck"
           r == [req[q] EXCEPT !.pc = pc]
<1>1. req' = [req EXCEPT ![q] = r] /\ UNCHANGED <<clients, since, cache, age>>
  BY DEF Do
<1>2. pc \in PCs /\ (pc = "follow" \/ pc = "recheck") /\ (pc = "recheck" => ~led)
  BY DEF PCs
<1>3. req[q].pc \notin {"idle", "done", "fill"}
  BY DEF Do
<1> HIDE DEF pc
<1>4. r \in Reqs /\ r.pc = pc /\ r.id = req[q].id /\ r.held = 0 /\ r.id \in Accounts
  BY <1>2, <1>3, Moves
<1> HIDE DEF r
<1> QED
  BY <1>1, <1>2, <1>4, RequestStep

LEMMA CheckAgainStep ==
  ASSUME IInv, NEW q \in Requests, CheckAgain(q)
  PROVE  IInv'
<1>1. UNCHANGED <<clients, since, cache, age>> /\ req[q].pc = "recheck"
  BY DEF CheckAgain
<1>2. req[q].id \in Accounts
  BY <1>1 DEF IInv, RequestInv
<1>3. CASE cache[req[q].id] = "MISS"
  <2> DEFINE r == [req[q] EXCEPT !.pc = "load"]
  <2>1. req' = [req EXCEPT ![q] = r]
    BY <1>3 DEF CheckAgain
  <2>2. r \in Reqs /\ r.pc = "load" /\ r.id = req[q].id /\ r.held = 0 /\ r.id \in Accounts
    BY <1>1, Moves DEF PCs
  <2>3. \A p \in Requests : p # q /\ Leads(p) => req[p].id # req[q].id
    BY <1>1 DEF IInv, OneLeader, Leads
  <2> HIDE DEF r
  <2> QED
    BY <1>1, <1>3, <2>1, <2>2, <2>3, RequestStep
<1>4. CASE cache[req[q].id] # "MISS"
  <2> DEFINE outcome == Recheck(cache[req[q].id])
  <2>1. outcome \in Outcomes
    BY <1>2, <1>4 DEF IInv, TypeOK, Recheck, Outcomes
  <2>2. Complete(q, outcome)
    BY <1>4 DEF CheckAgain
  <2> HIDE DEF outcome
  <2>3. req' \in [Requests -> Reqs] /\ (\A p \in Requests : RequestInv(p)') /\ OneLeader'
    BY <1>1, <2>1, <2>2, CompleteKeeps
  <2>4. TypeOK'
    BY <1>1, <2>3 DEF IInv, TypeOK, Reqs
  <2>5. (\A a \in Accounts : EntryInv(a)') /\ LoadsMiss'
    BY <1>1, <2>1, <2>2, CompleteMeans DEF IInv, EntryInv, LoadsMiss
  <2> QED
    BY <2>3, <2>4, <2>5 DEF IInv
<1> QED
  BY <1>3, <1>4

LEMMA LoadRowStep ==
  ASSUME IInv, NEW q \in Requests, LoadRow(q)
  PROVE  IInv'
<1> DEFINE id == req[q].id
           r == [req[q] EXCEPT !.pc = "fill", !.row = clients[id]]
<1>1. req[q].pc = "load" /\ UNCHANGED <<clients, since, cache, age>>
  BY DEF LoadRow
<1>2. req' = [req EXCEPT ![q] = r]
  BY DEF LoadRow, IInv, TypeOK
<1>3. req[q] \in Reqs /\ id \in Accounts /\ req[q].held = 0
  BY <1>1 DEF IInv, TypeOK, Reqs, RequestInv
<1>4. clients[id] \in Statuses \cup {"ABSENT"}
  BY <1>3 DEF IInv, TypeOK
<1>5. /\ r \in Reqs /\ r.pc = "fill" /\ r.id = id /\ r.held = 0
      /\ r.row = clients[id] /\ r.row # ""
  BY <1>3, <1>4 DEF Reqs, PCs, Statuses
<1>6. cache[id] = "MISS"
  BY <1>1 DEF IInv, LoadsMiss
<1>7. \A p \in Requests : p # q /\ Leads(p) => req[p].id # id
  BY <1>1 DEF IInv, OneLeader, Leads
<1> HIDE DEF id, r
<1> QED
  BY <1>1, <1>2, <1>3, <1>5, <1>6, <1>7, RequestStep

LEMMA LoadFailsStep ==
  ASSUME IInv, NEW q \in Requests, LoadFails(q)
  PROVE  IInv'
<1>1. UNCHANGED <<clients, since, cache, age>> /\ Complete(q, "error") /\ "error" \in Outcomes
  BY DEF LoadFails, Outcomes
<1>2. req' \in [Requests -> Reqs] /\ (\A p \in Requests : RequestInv(p)') /\ OneLeader'
  BY <1>1, CompleteKeeps
<1>3. TypeOK'
  BY <1>1, <1>2 DEF IInv, TypeOK, Reqs
<1>4. (\A a \in Accounts : EntryInv(a)') /\ LoadsMiss'
  BY <1>1, CompleteMeans DEF IInv, EntryInv, LoadsMiss
<1> QED
  BY <1>2, <1>3, <1>4 DEF IInv

\* What Fill caches: the row it holds, at age 0; another entry only goes.
LEMMA FillMeans ==
  ASSUME IInv, NEW q \in Requests, Fill(q)
  PROVE  LET id == req[q].id
             row == req[q].row
             outcome == IF row = "ABSENT" THEN "notFound" ELSE row
         IN /\ id \in Accounts /\ row \in Statuses \cup {"ABSENT"}
            /\ outcome \in Outcomes /\ Complete(q, outcome)
            /\ UNCHANGED <<clients, since>>
            /\ cache' \in [Accounts -> Statuses \cup {"MISS", "NIL"}]
            /\ age' \in [Accounts -> 0 .. TTL]
            /\ cache'[id] # "MISS" /\ Means(cache'[id]) = row /\ age'[id] = 0
            /\ \A a \in Accounts \ {id} :
                 cache'[a] = "MISS" \/ (cache'[a] = cache[a] /\ age'[a] = age[a])
<1> DEFINE id == req[q].id
           row == req[q].row
           outcome == IF row = "ABSENT" THEN "notFound" ELSE row
           entry == IF row = "ABSENT" THEN "NIL" ELSE row
<1>1. req[q].pc = "fill"
  BY DEF Fill
<1>2. id \in Accounts /\ row \in Statuses \cup {"ABSENT"}
  BY <1>1 DEF IInv, TypeOK, RequestInv
<1>3. outcome \in Outcomes /\ entry \in Statuses \cup {"NIL"} /\ entry # "MISS" /\ Means(entry) = row
  BY <1>2 DEF Outcomes, Statuses, Means
<1>4. Complete(q, outcome) /\ UNCHANGED <<clients, since>>
  BY DEF Fill
<1>5. PICK victim : /\ victim = id \/ victim \in Accounts
                    /\ cache' = [cache EXCEPT ![victim] = "MISS", ![id] = entry]
  BY DEF Fill, Entries
<1>6. age' = [a \in Accounts |-> IF cache'[a] = "MISS" \/ a = id THEN 0 ELSE age[a]]
  BY DEF Fill
<1>7. cache \in [Accounts -> Statuses \cup {"MISS", "NIL"}] /\ age \in [Accounts -> 0 .. TTL]
      /\ 0 \in 0 .. TTL
  BY Clocks DEF IInv, TypeOK
<1> HIDE DEF id, row, outcome, entry
<1>8. /\ cache' \in [Accounts -> Statuses \cup {"MISS", "NIL"}]
      /\ cache'[id] = entry
      /\ \A a \in Accounts \ {id} : cache'[a] = "MISS" \/ cache'[a] = cache[a]
  BY <1>2, <1>3, <1>5, <1>7
<1>9. age' \in [Accounts -> 0 .. TTL] /\ age'[id] = 0
      /\ \A a \in Accounts \ {id} : cache'[a] = "MISS" \/ age'[a] = age[a]
  BY <1>2, <1>6, <1>7
<1>10. \A a \in Accounts \ {id} :
         cache'[a] = "MISS" \/ (cache'[a] = cache[a] /\ age'[a] = age[a])
  BY <1>8, <1>9
<1>11. cache'[id] # "MISS" /\ Means(cache'[id]) = row
  BY <1>3, <1>8
<1> QED
  BY <1>2, <1>3, <1>4, <1>8, <1>9, <1>10, <1>11 DEF id, row, outcome

LEMMA FillStep ==
  ASSUME IInv, NEW q \in Requests, Fill(q)
  PROVE  IInv'
<1> DEFINE id == req[q].id
           row == req[q].row
           outcome == IF row = "ABSENT" THEN "notFound" ELSE row
<1>1. /\ id \in Accounts /\ row \in Statuses \cup {"ABSENT"}
      /\ outcome \in Outcomes /\ Complete(q, outcome)
      /\ UNCHANGED <<clients, since>>
      /\ cache' \in [Accounts -> Statuses \cup {"MISS", "NIL"}]
      /\ age' \in [Accounts -> 0 .. TTL]
      /\ cache'[id] # "MISS" /\ Means(cache'[id]) = row /\ age'[id] = 0
      /\ \A a \in Accounts \ {id} :
           cache'[a] = "MISS" \/ (cache'[a] = cache[a] /\ age'[a] = age[a])
  BY FillMeans
<1>2. /\ req[q].pc = "fill" /\ req[q].held \in 0 .. LoadTicks
      /\ since[id] > req[q].held => row = clients[id]
  BY DEF Fill, IInv, TypeOK, RequestInv
<1> HIDE DEF outcome
<1>3. req' \in [Requests -> Reqs] /\ (\A p \in Requests : RequestInv(p)') /\ OneLeader'
  BY <1>1, CompleteKeeps
<1>4. TypeOK'
  BY <1>1, <1>3 DEF IInv, TypeOK, Reqs
<1>5. ASSUME NEW a \in Accounts
      PROVE  EntryInv(a)'
  <2>1. CASE a = id
    <3>1. since[id] \in Nat /\ LoadTicks \in Nat /\ 0 < TTL /\ req[q].held \in Nat
          /\ req[q].held =< LoadTicks
      BY <1>1, Clocks DEF IInv
    <3>2. since[id] > 0 + LoadTicks => row = clients[id]
      BY <1>2, <3>1
    <3> QED
      BY <1>1, <2>1, <3>1, <3>2 DEF EntryInv
  <2>2. CASE a # id
    BY <1>1, <2>2 DEF IInv, EntryInv
  <2> QED
    BY <2>1, <2>2
<1>6. LoadsMiss'
  <2> SUFFICES ASSUME NEW p \in Requests, req'[p].pc \in {"load", "fill"}
               PROVE  cache'[req'[p].id] = "MISS"
    BY DEF LoadsMiss
  <2>1. req'[p] = req[p] /\ p # q
    BY <1>1, CompleteMeans DEF IInv
  <2>2. req[p].id # id /\ req[p].id \in Accounts /\ cache[req[p].id] = "MISS"
    BY <1>2, <2>1 DEF IInv, OneLeader, Leads, LoadsMiss, RequestInv
  <2> QED
    BY <1>1, <2>1, <2>2
<1> QED
  BY <1>3, <1>4, <1>5, <1>6 DEF IInv

-----------------------------------------------------------------------------
(* The environment *)

LEMMA InvalidateStep ==
  ASSUME IInv, NEW id \in Accounts, invalidateClient(id)
  PROVE  IInv'
<1>1. /\ cache' = [cache EXCEPT ![id] = "MISS"] /\ age' = [age EXCEPT ![id] = 0]
      /\ UNCHANGED <<clients, since, req>>
  BY DEF invalidateClient
<1>2. cache' \in [Accounts -> Statuses \cup {"MISS", "NIL"}] /\ age' \in [Accounts -> 0 .. TTL]
  <2>1. 0 \in 0 .. TTL
    BY Clocks DEF IInv
  <2> QED
    BY <1>1, <2>1 DEF IInv, TypeOK
<1>3. \A a \in Accounts : cache'[a] = "MISS" \/ (cache'[a] = cache[a] /\ age'[a] = age[a])
  BY <1>1 DEF IInv, TypeOK
<1>4. TypeOK'
  BY <1>1, <1>2 DEF IInv, TypeOK
<1>5. \A q \in Requests : RequestInv(q)'
  BY <1>1 DEF IInv, RequestInv
<1>6. \A a \in Accounts : EntryInv(a)'
  BY <1>1, <1>3 DEF IInv, EntryInv
<1>7. OneLeader' /\ LoadsMiss'
  BY <1>1, <1>3 DEF IInv, OneLeader, Leads, LoadsMiss, RequestInv
<1> QED
  BY <1>4, <1>5, <1>6, <1>7 DEF IInv

\* A change restarts the clock of its account, so nothing is promised of it.
LEMMA SetStatusStep ==
  ASSUME IInv, NEW id \in Accounts, NEW s \in Statuses, SetStatus(id, s)
  PROVE  IInv'
<1>1. /\ clients' = [clients EXCEPT ![id] = s] /\ since' = [since EXCEPT ![id] = 0]
      /\ UNCHANGED <<cache, age, req>>
  BY DEF SetStatus
<1>2. clients' \in [Accounts -> Statuses \cup {"ABSENT"}] /\ since' \in [Accounts -> 0 .. Horizon]
  <2>1. 0 \in 0 .. Horizon
    BY Clocks DEF IInv
  <2> QED
    BY <1>1, <2>1 DEF IInv, TypeOK
<1>3. /\ since'[id] = 0
      /\ \A a \in Accounts : a # id => clients'[a] = clients[a] /\ since'[a] = since[a]
  BY <1>1 DEF IInv, TypeOK
<1>4. TypeOK'
  BY <1>1, <1>2 DEF IInv, TypeOK
<1>5. ASSUME NEW q \in Requests
      PROVE  RequestInv(q)'
  <2>1. ~(0 > req[q].held)
    BY Clocks DEF IInv
  <2> QED
    BY <1>1, <1>3, <2>1 DEF IInv, RequestInv
<1>6. ASSUME NEW a \in Accounts
      PROVE  EntryInv(a)'
  <2>1. ~(0 > age[a] + LoadTicks)
    BY Clocks DEF IInv
  <2> QED
    BY <1>1, <1>3, <2>1 DEF IInv, EntryInv
<1>7. OneLeader' /\ LoadsMiss'
  BY <1>1 DEF IInv, OneLeader, Leads, LoadsMiss
<1> QED
  BY <1>4, <1>5, <1>6, <1>7 DEF IInv

\* Time ages a change, an entry and a held row alike, so what was read before
\* the change stays told apart from what was read after it.
LEMMA TickStep ==
  ASSUME IInv, Tick
  PROVE  IInv'
<1>1. /\ TTL \in Nat /\ 0 < TTL /\ LoadTicks \in Nat
      /\ Horizon \in Nat /\ Horizon = TTL + LoadTicks
      /\ 0 \in 0 .. TTL /\ 0 \in 0 .. Horizon
      /\ \A a \in Accounts : since[a] \in Nat /\ since[a] =< Horizon /\ age[a] \in Nat
      /\ \A q \in Requests : req[q].held \in Nat /\ req[q].held =< LoadTicks
  BY Clocks DEF IInv
<1> HIDE DEF Horizon
<1>2. ASSUME NEW a \in Accounts
      PROVE  /\ since'[a] \in 0 .. Horizon
             /\ since'[a] = since[a] + 1 \/ (since[a] = Horizon /\ since'[a] = Horizon)
  BY <1>1 DEF Tick
<1>3. ASSUME NEW a \in Accounts
      PROVE  \/ cache'[a] = "MISS" /\ age'[a] = 0
             \/ cache'[a] = cache[a] /\ cache[a] # "MISS" /\ age'[a] = age[a] + 1 /\ age'[a] < TTL
  <2>1. CASE cache[a] = "MISS" \/ Expires(a)
    BY <2>1 DEF Tick
  <2>2. CASE cache[a] # "MISS" /\ ~Expires(a)
    <3>1. age[a] + 1 < TTL
      BY <1>1, <2>2 DEF Expires
    <3> QED
      BY <2>2, <3>1 DEF Tick
  <2> QED
    BY <2>1, <2>2
<1>4. ASSUME NEW q \in Requests
      PROVE  \/ req[q].pc # "fill" /\ req'[q] = req[q]
             \/ /\ req[q].pc = "fill" /\ req'[q] \in Reqs /\ req'[q].pc = "fill"
                /\ req'[q].id = req[q].id /\ req'[q].row = req[q].row
                /\ req'[q].held = req[q].held + 1 /\ req[q].held < LoadTicks
  <2>1. CASE req[q].pc # "fill"
    BY <2>1 DEF Tick
  <2>2. CASE req[q].pc = "fill"
    <3>1. req[q].held < LoadTicks /\ req'[q] = [req[q] EXCEPT !.held = req[q].held + 1]
      BY <2>2 DEF Tick
    <3>2. req[q].held + 1 \in 0 .. LoadTicks
      BY <1>1, <3>1
    <3>3. req[q] \in Reqs
      BY DEF IInv, TypeOK, Reqs
    <3> QED
      BY <2>2, <3>1, <3>2, <3>3 DEF Reqs
  <2> QED
    BY <2>1, <2>2
<1>5. clients' = clients
  BY DEF Tick
<1>6. TypeOK'
  <2>1. since' \in [Accounts -> 0 .. Horizon]
    BY <1>2 DEF Tick
  <2>2. cache' \in [Accounts -> Statuses \cup {"MISS", "NIL"}]
    BY DEF Tick, IInv, TypeOK
  <2>3. \A a \in Accounts : age'[a] \in 0 .. TTL
    BY <1>1, <1>3
  <2>4. age' \in [Accounts -> 0 .. TTL]
    BY <2>3 DEF Tick
  <2>5. \A q \in Requests : req'[q] \in Reqs
    BY <1>4 DEF IInv, TypeOK, Reqs
  <2>6. req' \in [Requests -> Reqs]
    BY <2>5 DEF Tick
  <2> QED
    BY <1>5, <2>1, <2>2, <2>4, <2>6 DEF IInv, TypeOK, Reqs
<1>7. ASSUME NEW q \in Requests
      PROVE  RequestInv(q)'
  <2>1. CASE req[q].pc = "fill"
    <3> DEFINE id == req[q].id
    <3>1. /\ id \in Accounts /\ req[q].row # ""
          /\ since[id] > req[q].held => req[q].row = clients[id]
      BY <2>1 DEF IInv, RequestInv
    <3>2. since'[id] > req[q].held + 1 => since[id] > req[q].held
      <4>1. since[id] \in Nat /\ req[q].held \in Nat /\ req[q].held < LoadTicks
        BY <1>1, <1>4, <2>1, <3>1
      <4>2. since'[id] = since[id] + 1 \/ (since[id] = Horizon /\ since'[id] = Horizon)
        BY <1>2, <3>1
      <4> QED
        BY <1>1, <4>1, <4>2
    <3> QED
      BY <1>4, <1>5, <2>1, <3>1, <3>2 DEF RequestInv
  <2>2. CASE req[q].pc # "fill"
    BY <1>4, <2>2 DEF IInv, RequestInv
  <2> QED
    BY <2>1, <2>2
<1>8. ASSUME NEW a \in Accounts
      PROVE  EntryInv(a)'
  <2>1. CASE cache'[a] = "MISS"
    BY <2>1 DEF EntryInv
  <2>2. CASE /\ cache'[a] = cache[a] /\ cache[a] # "MISS"
             /\ age'[a] = age[a] + 1 /\ age'[a] < TTL
    <3>1. since[a] > age[a] + LoadTicks => Means(cache[a]) = clients[a]
      BY <2>2 DEF IInv, EntryInv
    <3>2. since'[a] > age'[a] + LoadTicks => since[a] > age[a] + LoadTicks
      BY <1>1, <1>2, <2>2
    <3> QED
      BY <1>5, <2>2, <3>1, <3>2 DEF EntryInv
  <2> QED
    BY <1>3, <2>1, <2>2
<1>9. OneLeader'
  BY <1>4 DEF IInv, OneLeader, Leads
<1>10. LoadsMiss'
  <2> SUFFICES ASSUME NEW q \in Requests, req'[q].pc \in {"load", "fill"}
               PROVE  cache'[req'[q].id] = "MISS"
    BY DEF LoadsMiss
  <2>1. req'[q].id = req[q].id /\ req[q].pc \in {"load", "fill"}
    BY <1>4
  <2>2. req[q].id \in Accounts /\ cache[req[q].id] = "MISS"
    BY <2>1 DEF IInv, LoadsMiss, RequestInv
  <2> QED
    BY <1>3, <2>1, <2>2
<1> QED
  BY <1>6, <1>7, <1>8, <1>9, <1>10 DEF IInv

LEMMA StutterStep ==
  ASSUME IInv, UNCHANGED vars
  PROVE  IInv'
<1>1. UNCHANGED <<clients, since, cache, age, req>>
  BY DEF vars
<1>2. TypeOK'
  BY <1>1 DEF IInv, TypeOK
<1>3. (\A q \in Requests : RequestInv(q)') /\ (\A a \in Accounts : EntryInv(a)')
  BY <1>1 DEF IInv, RequestInv, EntryInv
<1>4. OneLeader' /\ LoadsMiss'
  BY <1>1 DEF IInv, OneLeader, Leads, LoadsMiss
<1> QED
  BY <1>2, <1>3, <1>4 DEF IInv

\* Every reachable state of the resolver satisfies the inductive invariant.
THEOREM Invariance == Spec => []IInv
<1>1. ASSUME IInv, [Next]_vars
      PROVE  IInv'
  <2>1. ASSUME NEW q \in Requests, NEW a \in Accounts, NEW m \in BOOLEAN, Arrive(q, a, m)
        PROVE  IInv'
    BY <1>1, <2>1, ArriveStep
  <2>2. ASSUME NEW q \in Requests, ArriveAnonymous(q)
        PROVE  IInv'
    BY <1>1, <2>2, AnonymousStep
  <2>3. ASSUME NEW q \in Requests, Proceed(q)
        PROVE  IInv'
    BY <1>1, <2>3, DoStep, CheckAgainStep, LoadRowStep, LoadFailsStep, FillStep DEF Proceed
  <2>4. ASSUME NEW a \in Accounts, invalidateClient(a)
        PROVE  IInv'
    BY <1>1, <2>4, InvalidateStep
  <2>5. ASSUME NEW a \in Accounts, NEW s \in Statuses, SetStatus(a, s)
        PROVE  IInv'
    BY <1>1, <2>5, SetStatusStep
  <2>6. CASE Tick
    BY <1>1, <2>6, TickStep
  <2>7. CASE UNCHANGED vars
    BY <1>1, <2>7, StutterStep
  <2> QED
    BY <1>1, <2>1, <2>2, <2>3, <2>4, <2>5, <2>6, <2>7 DEF Next
<1> QED
  BY <1>1, InitIInv, PTL DEF Spec

\* The clocks of the cache and of a load, and every field of a request, stay
\* within their domains: no entry or row outlives its bound.
THEOREM TypeCorrect == Spec => []TypeOK
<1>1. IInv => TypeOK
  BY DEF IInv
<1> QED
  BY <1>1, Invariance, PTL

\* lookupClient reads the table for an id only while the cache misses it, and
\* never in two requests at once.
THEOREM NoLoadTheorem == Spec => []NoLoadWhileCached
<1>1. IInv => NoLoadWhileCached
  BY DEF IInv, NoLoadWhileCached, LoadsMiss, OneLeader, Leads
<1> QED
  BY <1>1, Invariance, PTL

-----------------------------------------------------------------------------
(* Staleness *)

\* What StalenessBounded asks of one request in one step.
Fresh(q) ==
  Answered(q) /\ req'[q].id # "" /\ since[req'[q].id] >= Horizon
    => JudgedBy(req'[q], clients[req'[q].id])

\* An entry that a request can hit is the table's once a change is old enough.
LEMMA EntryFresh ==
  ASSUME IInv, NEW a \in Accounts, cache[a] # "MISS", since[a] >= Horizon
  PROVE  Means(cache[a]) = clients[a]
<1>1. age[a] < TTL /\ (since[a] > age[a] + LoadTicks => Means(cache[a]) = clients[a])
  BY DEF IInv, EntryInv
<1>2. /\ TTL \in Nat /\ LoadTicks \in Nat /\ Horizon = TTL + LoadTicks
      /\ since[a] \in Nat /\ age[a] \in Nat
  BY Clocks DEF IInv
<1> QED
  BY <1>1, <1>2

\* Sharing an outcome that agrees with the table is fresh for everyone it reaches.
LEMMA CompleteFresh ==
  ASSUME IInv, NEW q \in Requests, req[q].id \in Accounts, NEW outcome \in Outcomes,
         Complete(q, outcome),
         since[req[q].id] >= Horizon =>
           LET s == clients[req[q].id] IN
           \/ outcome \in Statuses /\ outcome = s
           \/ outcome \in {"notFound", "nilClient"} /\ s = "ABSENT"
           \/ outcome = "error",
         NEW p \in Requests
  PROVE  Fresh(p)
<1> SUFFICES ASSUME Answered(p), since[req'[p].id] >= Horizon
             PROVE  JudgedBy(req'[p], clients[req'[p].id])
  BY DEF Fresh
<1>1. req'[p] = Finish(req[p], outcome) /\ req[p].id = req[q].id /\ req'[p].id = req[q].id
  BY CompleteMeans DEF IInv, Answered
<1>2. req[p] \in Reqs /\ clients[req[q].id] \in Statuses \cup {"ABSENT"}
  BY DEF IInv, TypeOK, Reqs
<1> QED
  BY <1>1, <1>2, FinishAgrees

LEMMA ArriveFresh ==
  ASSUME IInv, NEW q \in Requests, NEW id \in Accounts, NEW m \in BOOLEAN, Arrive(q, id, m),
         NEW p \in Requests
  PROVE  Fresh(p)
<1> SUFFICES ASSUME Answered(p), since[req'[p].id] >= Horizon
             PROVE  JudgedBy(req'[p], clients[req'[p].id])
  BY DEF Fresh
<1>1. req \in [Requests -> Reqs]
  BY DEF IInv, TypeOK, Reqs
<1>2. PICK s \in Reqs :
           /\ s.id = id /\ s.held = 0 /\ s.pc = "idle"
           /\ \/ cache[id] = "MISS" /\ req' = [req EXCEPT ![q] = [s EXCEPT !.pc = "enter"]]
              \/ /\ cache[id] # "MISS" /\ Hit(cache[id]) \in Outcomes
                 /\ req' = [req EXCEPT ![q] = Finish(s, Hit(cache[id]))]
  BY ArriveMeans
<1>3. p = q
  BY <1>1, <1>2 DEF Answered
<1>4. CASE req' = [req EXCEPT ![q] = [s EXCEPT !.pc = "enter"]]
  <2>1. req'[q].pc = "enter"
    BY <1>1, <1>2, <1>4 DEF Reqs
  <2> QED
    BY <1>3, <2>1 DEF Answered
<1>5. CASE /\ cache[id] # "MISS" /\ Hit(cache[id]) \in Outcomes
           /\ req' = [req EXCEPT ![q] = Finish(s, Hit(cache[id]))]
  <2>1. req'[q] = Finish(s, Hit(cache[id]))
    BY <1>1, <1>5
  <2>2. req'[q].id = id
    BY <1>2, <1>5, <2>1, FinishMeans
  <2>3. Means(cache[id]) = clients[id]
    BY <1>3, <1>5, <2>2, EntryFresh
  <2>4. clients[id] \in Statuses \cup {"ABSENT"}
        /\ cache[id] \in Statuses \cup {"MISS", "NIL"}
    BY DEF IInv, TypeOK
  <2>5. \/ Hit(cache[id]) \in Statuses /\ Hit(cache[id]) = clients[id]
        \/ Hit(cache[id]) = "notFound" /\ clients[id] = "ABSENT"
    BY <1>5, <2>3, <2>4 DEF Hit, Means, Statuses
  <2>6. JudgedBy(Finish(s, Hit(cache[id])), clients[id])
    BY <2>4, <2>5, FinishAgrees
  <2> QED
    BY <1>3, <2>1, <2>2, <2>6
<1> QED
  BY <1>2, <1>4, <1>5

LEMMA AnonymousFresh ==
  ASSUME IInv, NEW q \in Requests, ArriveAnonymous(q), NEW p \in Requests
  PROVE  Fresh(p)
<1> DEFINE r == [Idle EXCEPT !.pc = "done", !.answer = "Unauthenticated"]
<1>1. r.id = ""
  BY DEF Idle
<1>2. req' = [req EXCEPT ![q] = r]
  BY DEF ArriveAnonymous
<1> HIDE DEF r
<1> QED
  BY <1>1, <1>2 DEF IInv, TypeOK, Fresh, Answered

\* Do and LoadRow answer nobody.
LEMMA AdvanceFresh ==
  ASSUME IInv, NEW q \in Requests, Do(q) \/ LoadRow(q), NEW p \in Requests
  PROVE  Fresh(p)
<1>1. req \in [Requests -> Reqs]
  BY DEF IInv, TypeOK, Reqs
<1>2. CASE Do(q)
  BY <1>1, <1>2 DEF Do, Fresh, Answered, Reqs
<1>3. CASE LoadRow(q)
  BY <1>1, <1>3 DEF LoadRow, Fresh, Answered, Reqs
<1> QED
  BY <1>2, <1>3

LEMMA CheckAgainFresh ==
  ASSUME IInv, NEW q \in Requests, CheckAgain(q), NEW p \in Requests
  PROVE  Fresh(p)
<1> DEFINE id == req[q].id
           outcome == Recheck(cache[id])
<1>1. id \in Accounts
  BY DEF CheckAgain, IInv, RequestInv
<1>2. CASE cache[id] = "MISS"
  BY <1>2 DEF CheckAgain, IInv, TypeOK, Fresh, Answered
<1>3. CASE cache[id] # "MISS"
  <2>1. outcome \in Outcomes /\ Complete(q, outcome)
    BY <1>1, <1>3 DEF CheckAgain, IInv, TypeOK, Recheck, Outcomes
  <2>2. clients[id] \in Statuses \cup {"ABSENT"} /\ cache[id] \in Statuses \cup {"MISS", "NIL"}
    BY <1>1 DEF IInv, TypeOK
  <2>3. ASSUME since[id] >= Horizon
        PROVE  \/ outcome \in Statuses /\ outcome = clients[id]
               \/ outcome \in {"notFound", "nilClient"} /\ clients[id] = "ABSENT"
    <3>1. Means(cache[id]) = clients[id]
      BY <1>1, <1>3, <2>3, EntryFresh
    <3> QED
      BY <1>3, <2>2, <3>1 DEF Recheck, Means, Statuses
  <2> HIDE DEF outcome
  <2> QED
    BY <1>1, <2>1, <2>3, CompleteFresh
<1> QED
  BY <1>2, <1>3

LEMMA LoadFailsFresh ==
  ASSUME IInv, NEW q \in Requests, LoadFails(q), NEW p \in Requests
  PROVE  Fresh(p)
<1>1. req[q].id \in Accounts
  BY DEF LoadFails, IInv, RequestInv
<1>2. Complete(q, "error") /\ "error" \in Outcomes
  BY DEF LoadFails, Outcomes
<1> QED
  BY <1>1, <1>2, CompleteFresh

LEMMA FillFresh ==
  ASSUME IInv, NEW q \in Requests, Fill(q), NEW p \in Requests
  PROVE  Fresh(p)
<1> DEFINE id == req[q].id
           row == req[q].row
           outcome == IF row = "ABSENT" THEN "notFound" ELSE row
<1>1. /\ id \in Accounts /\ row \in Statuses \cup {"ABSENT"}
      /\ outcome \in Outcomes /\ Complete(q, outcome)
  BY FillMeans
<1>2. since[id] > req[q].held => row = clients[id]
  BY DEF Fill, IInv, RequestInv
<1>3. /\ TTL \in Nat /\ 0 < TTL /\ LoadTicks \in Nat /\ Horizon = TTL + LoadTicks
      /\ since[id] \in Nat /\ req[q].held \in Nat /\ req[q].held =< LoadTicks
  BY <1>1, Clocks DEF IInv
<1>4. since[id] >= Horizon => since[id] > req[q].held
  BY <1>3
<1>5. since[id] >= Horizon => \/ outcome \in Statuses /\ outcome = clients[id]
                              \/ outcome = "notFound" /\ clients[id] = "ABSENT"
  BY <1>1, <1>2, <1>4
<1> HIDE DEF outcome
<1> QED
  BY <1>1, <1>5, CompleteFresh

\* A change, an invalidation or the passing of time answers nobody.
LEMMA EnvironmentFresh ==
  ASSUME IInv, NEW p \in Requests,
         \/ req' = req
         \/ Tick
  PROVE  Fresh(p)
<1>1. CASE req' = req
  BY <1>1 DEF Fresh, Answered
<1>2. CASE Tick
  <2>1. req[p] \in Reqs
    BY DEF IInv, TypeOK, Reqs
  <2>2. CASE req[p].pc = "fill"
    <3>1. req'[p] = [req[p] EXCEPT !.held = req[p].held + 1]
      BY <1>2, <2>2 DEF Tick
    <3>2. req'[p].pc = "fill"
      BY <2>1, <2>2, <3>1 DEF Reqs
    <3> QED
      BY <3>2 DEF Fresh, Answered
  <2>3. CASE req[p].pc # "fill"
    BY <1>2, <2>3 DEF Tick, Fresh, Answered
  <2> QED
    BY <2>2, <2>3
<1> QED
  BY <1>1, <1>2

\* Once a status has stood for the TTL plus the time a read may take to reach
\* the cache, every request that asserts the account is judged by it, through
\* lookupClient's hits, rechecks, shared loads, evictions and invalidations.
THEOREM StalenessTheorem == Spec => StalenessBounded
<1>1. ASSUME IInv, [Next]_vars
      PROVE  [\A q \in Requests :
                Answered(q) /\ req'[q].id # "" /\ Judges(req'[q]) /\ since[req'[q].id] >= Horizon
                  => Agrees(req'[q], clients[req'[q].id])]_vars
  <2> SUFFICES ASSUME Next, NEW p \in Requests
               PROVE  Fresh(p)
    BY <1>1 DEF Fresh, JudgedBy
  <2>1. ASSUME NEW q \in Requests, NEW a \in Accounts, NEW m \in BOOLEAN, Arrive(q, a, m)
        PROVE  Fresh(p)
    BY <1>1, <2>1, ArriveFresh
  <2>2. ASSUME NEW q \in Requests, ArriveAnonymous(q)
        PROVE  Fresh(p)
    BY <1>1, <2>2, AnonymousFresh
  <2>3. ASSUME NEW q \in Requests, Proceed(q)
        PROVE  Fresh(p)
    BY <1>1, <2>3, AdvanceFresh, CheckAgainFresh, LoadFailsFresh, FillFresh DEF Proceed
  <2>4. ASSUME NEW a \in Accounts, invalidateClient(a)
        PROVE  Fresh(p)
    BY <1>1, <2>4, EnvironmentFresh DEF invalidateClient
  <2>5. ASSUME NEW a \in Accounts, NEW s \in Statuses, SetStatus(a, s)
        PROVE  Fresh(p)
    BY <1>1, <2>5, EnvironmentFresh DEF SetStatus
  <2>6. CASE Tick
    BY <1>1, <2>6, EnvironmentFresh
  <2> QED
    BY <2>1, <2>2, <2>3, <2>4, <2>5, <2>6 DEF Next
<1>2. Spec => []IInv /\ [][Next]_vars
  BY Invariance, PTL DEF Spec
<1> QED
  BY <1>1, <1>2, PTL DEF StalenessBounded
=============================================================================
