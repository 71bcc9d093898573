---------------------------- MODULE ClientCache -----------------------------
(***************************************************************************)
(* How a request's caller is resolved and admitted: AuthHandler            *)
(* (bill/auth.go), lookupClient with its expiring LRU cache and its        *)
(* singleflight group (bill/clients.go) and the RequireActiveCaller        *)
(* middleware (bill/middleware.go), against a clients table that operators *)
(* change.  Time is counted in ticks, so that the age of a cache entry can *)
(* be compared with the age of a change.                                   *)
(***************************************************************************)
EXTENDS Naturals, FiniteSets

CONSTANTS
  Requests,   \* concurrent requests
  Accounts,   \* account ids a request may assert
  TTL,        \* clientCacheTTL, in ticks
  LoadTicks,  \* clientLoadTimeout: how long a row read may wait to be cached
  CacheSize   \* clientCacheSize

ASSUME CacheAssumption ==
  /\ TTL \in Nat \ {0}
  /\ LoadTicks \in Nat
  /\ CacheSize \in Nat \ {0}

VARIABLES
  clients,  \* table clients: the status of an account, "ABSENT" without a row
  since,    \* ticks since that status last changed, counted up to Horizon
  cache,    \* clientCache: "MISS", "NIL" for a cached absence, or a status
  age,      \* ticks since the entry was added, 0 without an entry
  req       \* per request, where it stands in lookupClient

vars == <<clients, since, cache, age, req>>

Statuses == {"ACTIVE", "SUSPENDED"}

\* Beyond this age of a change every answer must know of it.
Horizon == TTL + LoadTicks

\* enter: missed the cache, before Do;  recheck, load, fill: runs the function
\* of Do;  follow: waits in Do for the request that runs it.
PCs == {"idle", "enter", "recheck", "load", "fill", "follow", "done"}

Answers == {"", "Admitted", "PermissionDenied", "Unauthenticated", "Unavailable",
            "Panic"}

TypeOK ==
  /\ clients \in [Accounts -> Statuses \cup {"ABSENT"}]
  /\ since \in [Accounts -> 0 .. Horizon]
  /\ cache \in [Accounts -> Statuses \cup {"MISS", "NIL"}]
  /\ age \in [Accounts -> 0 .. TTL]
  /\ req \in [Requests -> [pc : PCs, id : Accounts \cup {""}, mutating : BOOLEAN,
                           row : Statuses \cup {"ABSENT", ""},
                           held : 0 .. LoadTicks, answer : Answers]]

Idle == [pc |-> "idle", id |-> "", mutating |-> FALSE, row |-> "", held |-> 0,
         answer |-> ""]

Init ==
  /\ clients \in [Accounts -> Statuses \cup {"ABSENT"}]
  /\ since = [a \in Accounts |-> Horizon]
  /\ cache = [a \in Accounts |-> "MISS"]
  /\ age = [a \in Accounts |-> 0]
  /\ req = [q \in Requests |-> Idle]

-----------------------------------------------------------------------------
(* From the outcome of lookupClient to the answer of the request: AuthHandler, *)
(* then assertActiveCaller on mutating endpoints.                              *)

Admit(outcome, mutating) ==
  CASE outcome = "notFound" -> "Unauthenticated"
    [] outcome = "error" -> "Unavailable"
    [] outcome = "nilClient" -> "Panic"
    [] outcome \in Statuses ->
         IF mutating /\ outcome # "ACTIVE" THEN "PermissionDenied" ELSE "Admitted"

\* A cached nil is ErrClientNotFound on the first look.
Hit(entry) == IF entry = "NIL" THEN "notFound" ELSE entry

\* Inside Do the same nil is returned as a *Client in an interface value: it
\* is not equal to nil, and lookupClient returns a nil client without error.
Recheck(entry) == IF entry = "NIL" THEN "nilClient" ELSE entry

Finish(r, outcome) ==
  [r EXCEPT !.pc = "done", !.row = "", !.held = 0,
            !.answer = Admit(outcome, r.mutating)]

\* The function of Do returns: the request that ran it and all that wait for
\* the same id get its outcome.
Complete(q, outcome) ==
  req' = [p \in Requests |->
            IF p = q \/ (req[p].pc = "follow" /\ req[p].id = req[q].id)
            THEN Finish(req[p], outcome) ELSE req[p]]

\* The request that runs the function of Do for an id.
Leads(q) == req[q].pc \in {"recheck", "load", "fill"}

-----------------------------------------------------------------------------
(* Requests *)

Arrive(q, id, mutating) ==
  LET r == [Idle EXCEPT !.id = id, !.mutating = mutating] IN
  /\ req[q].pc \in {"idle", "done"}
  /\ req' = [req EXCEPT ![q] =
               IF cache[id] = "MISS" THEN [r EXCEPT !.pc = "enter"]
               ELSE Finish(r, Hit(cache[id]))]
  /\ UNCHANGED <<clients, since, cache, age>>

\* A request without an X-Account-Id header.
ArriveAnonymous(q) ==
  /\ req[q].pc \in {"idle", "done"}
  /\ req' = [req EXCEPT ![q] = [Idle EXCEPT !.pc = "done", !.answer = "Unauthenticated"]]
  /\ UNCHANGED <<clients, since, cache, age>>

\* singleflight.Group.Do
Do(q) ==
  /\ req[q].pc = "enter"
  /\ req' = [req EXCEPT ![q].pc =
               IF \E p \in Requests : Leads(p) /\ req[p].id = req[q].id
               THEN "follow" ELSE "recheck"]
  /\ UNCHANGED <<clients, since, cache, age>>

\* Mutant: no second look at the cache inside Do.
NoSecondLook(q) ==
  /\ req[q].pc = "recheck"
  /\ req' = [req EXCEPT ![q].pc = "load"]
  /\ UNCHANGED <<clients, since, cache, age>>

\* Mutant: after a second miss lookupClient is called from inside Do, where it
\* waits for the call it is part of.
CheckAgainReenters(q) ==
  /\ req[q].pc = "recheck"
  /\ LET entry == cache[req[q].id] IN
       IF entry = "MISS" THEN req' = [req EXCEPT ![q].pc = "follow"]
       ELSE Complete(q, Recheck(entry))
  /\ UNCHANGED <<clients, since, cache, age>>

CheckAgain(q) ==
  /\ req[q].pc = "recheck"
  /\ LET entry == cache[req[q].id] IN
       IF entry = "MISS" THEN req' = [req EXCEPT ![q].pc = "load"]
       ELSE Complete(q, Recheck(entry))
  /\ UNCHANGED <<clients, since, cache, age>>

\* loadClientFromDB reads the row ...
LoadRow(q) ==
  /\ req[q].pc = "load"
  /\ req' = [req EXCEPT ![q].pc = "fill", ![q].row = clients[req[q].id]]
  /\ UNCHANGED <<clients, since, cache, age>>

\* ... or fails: the database, the timeout, or the cancelled context of the
\* request that happens to run the function.
LoadFails(q) ==
  /\ req[q].pc = "load"
  /\ Complete(q, "error")
  /\ UNCHANGED <<clients, since, cache, age>>

Entries == {a \in Accounts : cache[a] # "MISS"}

\* Mutant: an absent row is cached as a client.
FillRaw(q) ==
  LET id == req[q].id IN
  /\ req[q].pc = "fill"
  /\ cache' = [cache EXCEPT ![id] = req[q].row]
  /\ age' = [age EXCEPT ![id] = 0]
  /\ Complete(q, IF req[q].row = "ABSENT" THEN "notFound" ELSE req[q].row)
  /\ UNCHANGED <<clients, since>>

\* clientCache.Add, which evicts some other entry when the cache is full.
Fill(q) ==
  LET id == req[q].id
      row == req[q].row
      full == id \notin Entries /\ Cardinality(Entries) >= CacheSize
  IN /\ req[q].pc = "fill"
     /\ \E victim \in IF full THEN Entries ELSE {id} :
          cache' = [cache EXCEPT ![victim] = "MISS",
                                 ![id] = IF row = "ABSENT" THEN "NIL" ELSE row]
     /\ age' = [a \in Accounts |-> IF cache'[a] = "MISS" \/ a = id THEN 0 ELSE age[a]]
     /\ Complete(q, IF row = "ABSENT" THEN "notFound" ELSE row)
     /\ UNCHANGED <<clients, since>>

invalidateClient(id) ==
  /\ cache' = [cache EXCEPT ![id] = "MISS"]
  /\ age' = [age EXCEPT ![id] = 0]
  /\ UNCHANGED <<clients, since, req>>

-----------------------------------------------------------------------------
(* The environment *)

\* An operator inserts an account or flips its status.
SetStatus(id, status) ==
  /\ clients[id] # status
  /\ clients' = [clients EXCEPT ![id] = status]
  /\ since' = [since EXCEPT ![id] = 0]
  /\ UNCHANGED <<cache, age, req>>

\* Mutant: an entry is served one tick too long.
ExpiresLate(a) == cache[a] # "MISS" /\ age[a] + 1 > TTL

Expires(a) == cache[a] # "MISS" /\ age[a] + 1 >= TTL

\* Time passes.  A row that was read is cached within LoadTicks.
Tick ==
  /\ \A q \in Requests : req[q].pc = "fill" => req[q].held < LoadTicks
  /\ since' = [a \in Accounts |-> IF since[a] < Horizon THEN since[a] + 1 ELSE Horizon]
  /\ cache' = [a \in Accounts |-> IF Expires(a) THEN "MISS" ELSE cache[a]]
  /\ age' = [a \in Accounts |->
               IF Expires(a) \/ cache[a] = "MISS" THEN 0 ELSE age[a] + 1]
  /\ req' = [q \in Requests |->
               IF req[q].pc = "fill" THEN [req[q] EXCEPT !.held = @ + 1] ELSE req[q]]
  /\ UNCHANGED clients

Proceed(q) == Do(q) \/ CheckAgain(q) \/ LoadRow(q) \/ LoadFails(q) \/ Fill(q)

Next ==
  \/ \E q \in Requests, a \in Accounts, m \in BOOLEAN : Arrive(q, a, m)
  \/ \E q \in Requests : ArriveAnonymous(q) \/ Proceed(q)
  \/ \E a \in Accounts : invalidateClient(a)
  \/ \E a \in Accounts, s \in Statuses : SetStatus(a, s)
  \/ Tick

Spec == Init /\ [][Next]_vars

\* A request that has arrived is run to its end by its goroutine.
FairSpec == Spec /\ \A q \in Requests : WF_vars(Proceed(q))

-----------------------------------------------------------------------------
(* Properties *)

\* The answers that judge the caller: not the failure to resolve it, and not
\* the panic, which is what UnknownIsUnauthenticated is about.
Judges(r) == r.answer \in {"Admitted", "PermissionDenied", "Unauthenticated"}

\* What such an answer says of the caller's account.
Agrees(r, status) ==
  CASE r.answer = "Admitted" -> status = "ACTIVE" \/ (~r.mutating /\ status = "SUSPENDED")
    [] r.answer = "PermissionDenied" -> status = "SUSPENDED"
    [] r.answer = "Unauthenticated" -> status = "ABSENT"

Answered(q) == req'[q] # req[q] /\ req'[q].pc = "done"

\* clientCacheTTL bounds staleness: a status that has stood for the TTL plus
\* the time a read may take to reach the cache is the one every request that
\* asserts the account is judged by, if it is judged at all, through hits,
\* rechecks, shared loads, negative entries, evictions and invalidations.
StalenessBounded ==
  [][\A q \in Requests :
       Answered(q) /\ req'[q].id # "" /\ Judges(req'[q]) /\ since[req'[q].id] >= Horizon
         => Agrees(req'[q], clients[req'[q].id])]_vars

\* One load per miss: the table is read for an id only while nothing is cached
\* for it, and never by two requests at once, though any number of them missed
\* before (the second look at the cache inside Do).
NoLoadWhileCached ==
  \A q \in Requests : req[q].pc \in {"load", "fill"} =>
    /\ cache[req[q].id] = "MISS"
    /\ \A p \in Requests : Leads(p) /\ req[p].id = req[q].id => p = q

\* No request is left waiting in Do: each one that arrived is answered.
LookupReturns ==
  \A q \in Requests : req[q].pc = "follow" ~> req[q].pc = "done"

\* lookupClient "returns ErrClientNotFound for unknown IDs", which AuthHandler
\* makes Unauthenticated; any other error is Unavailable.  The code does not keep
\* this: a request that missed the cache before another one cached the absence
\* finds the nil entry inside Do, returns it as a client, and AuthHandler
\* dereferences it.  (An account without a row has never had one.)
UnknownIsUnauthenticated ==
  \A q \in Requests :
    req[q].pc = "done" /\ req[q].id # "" /\ clients[req[q].id] = "ABSENT"
      => req[q].answer \in {"Unauthenticated", "Unavailable"}
=============================================================================
