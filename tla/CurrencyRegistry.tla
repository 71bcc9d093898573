-------------------------- MODULE CurrencyRegistry --------------------------
(***************************************************************************)
(* The currency registry (bill/registry.go): the currencies table cached   *)
(* as one entry with a TTL, refilled by the first lookup that misses and   *)
(* overwritten by the refresh endpoint (bill/admin.go) and at startup      *)
(* (bill/service.go).  A registry is the set of codes it knows.  Operators *)
(* add currencies to the table.                                            *)
(***************************************************************************)
EXTENDS Naturals, FiniteSets

CONSTANTS
  Lookups,     \* concurrent calls of getCurrencies
  Refreshes,   \* concurrent calls of refreshCurrencies
  Codes,       \* currency codes
  Seed         \* the codes the seed migration inserts

ASSUME RegistryAssumption ==
  /\ Seed \subseteq Codes
  /\ Seed # {}
  /\ Lookups \cap Refreshes = {}

VARIABLES
  table,   \* the codes in the currencies table
  cached,  \* whether currencyCache has its entry
  entry,   \* that entry, {} without one
  call,    \* per lookup or refresh, where it stands and the registry it holds
  reads,   \* history: registries lookups have read since the entry last went
  floor    \* history: codes every registry read or held since a refresh has

vars == <<table, cached, entry, call, reads, floor>>

Calls == Lookups \cup Refreshes

\* Lookups: enter, recheck, load, fill and follow as in singleflight's Do.
\* Refreshes: load and fill.  got is the registry read, or the answer when
\* done: {} stands for the nil map, which knows no currency.
PCs == {"idle", "enter", "recheck", "load", "fill", "follow", "done"}

\* A registry in the cache, or on its way there, is never empty: neither a
\* failed load nor an empty table is cached.
TypeOK ==
  /\ table \in SUBSET Codes
  /\ cached \in BOOLEAN
  /\ entry \in SUBSET Codes
  /\ cached <=> entry # {}
  /\ call \in [Calls -> [pc : PCs, got : SUBSET Codes]]
  /\ \A c \in Calls : call[c].pc = "fill" => call[c].got # {}
  /\ reads \in Nat
  /\ floor \in SUBSET Codes

\* initService has loaded the registry before it serves.
Init ==
  /\ table = Seed
  /\ cached = TRUE
  /\ entry = Seed
  /\ call = [c \in Calls |-> [pc |-> "idle", got |-> {}]]
  /\ reads = 0
  /\ floor = Seed

Free(c) == call[c].pc \in {"idle", "done"}

At(pc, got) == [pc |-> pc, got |-> got]

\* The function of Do returns to the lookup that ran it and to its followers.
Complete(c, got) ==
  call' = [d \in Calls |-> IF d = c \/ call[d].pc = "follow" THEN At("done", got)
                           ELSE call[d]]

Leads(c) == c \in Lookups /\ call[c].pc \in {"recheck", "load", "fill"}

-----------------------------------------------------------------------------
(* getCurrencies *)

getCurrencies(c) ==
  /\ Free(c)
  /\ call' = [call EXCEPT ![c] = IF cached THEN At("done", entry) ELSE At("enter", {})]
  /\ UNCHANGED <<table, cached, entry, reads, floor>>

Do(c) ==
  /\ call[c].pc = "enter"
  /\ call' = [call EXCEPT ![c].pc =
                IF \E d \in Lookups : Leads(d) THEN "follow" ELSE "recheck"]
  /\ UNCHANGED <<table, cached, entry, reads, floor>>

\* Mutant: no second look at the cache inside Do.
NoSecondLook(c) ==
  /\ call[c].pc = "recheck"
  /\ call' = [call EXCEPT ![c].pc = "load"]
  /\ UNCHANGED <<table, cached, entry, reads, floor>>

CheckAgain(c) ==
  /\ call[c].pc = "recheck"
  /\ \/ cached /\ Complete(c, entry)
     \/ ~cached /\ call' = [call EXCEPT ![c].pc = "load"]
  /\ UNCHANGED <<table, cached, entry, reads, floor>>

\* loadCurrenciesFromDB; an empty table is an error.
loadCurrenciesFromDB(c) ==
  /\ call[c].pc = "load"
  /\ table # {}
  /\ call' = [call EXCEPT ![c] = At("fill", table)]
  /\ reads' = IF c \in Lookups THEN reads + 1 ELSE reads
  /\ UNCHANGED <<table, cached, entry, floor>>

\* Mutant: a lookup whose load failed falls back to all codes it has heard of.
LoadFailsOpen(c) ==
  /\ call[c].pc = "load"
  /\ IF c \in Lookups THEN Complete(c, Codes)
     ELSE call' = [call EXCEPT ![c] = At("done", {})]
  /\ UNCHANGED <<table, cached, entry, reads, floor>>

\* Mutant: the nil map of a failed load is cached, as clients.go does.
LoadFailsCached(c) ==
  /\ call[c].pc = "load"
  /\ IF c \in Lookups THEN Complete(c, {}) /\ cached' = TRUE /\ entry' = {}
     ELSE /\ call' = [call EXCEPT ![c] = At("done", {})]
          /\ UNCHANGED <<cached, entry>>
  /\ UNCHANGED <<table, reads, floor>>

\* The query fails or times out: a lookup answers nil, and so do its
\* followers; a refresh returns the error and leaves the entry alone.
LoadFails(c) ==
  /\ call[c].pc = "load"
  /\ IF c \in Lookups THEN Complete(c, {})
     ELSE call' = [call EXCEPT ![c] = At("done", {})]
  /\ UNCHANGED <<table, cached, entry, reads, floor>>

\* Mutant: the first registry stays, later ones are not stored.
setCurrenciesOnce(m) ==
  cached' = TRUE /\ entry' = IF cached THEN entry ELSE m

setCurrencies(m) == cached' = TRUE /\ entry' = m

Fill(c) ==
  /\ c \in Lookups
  /\ call[c].pc = "fill"
  /\ setCurrencies(call[c].got)
  /\ Complete(c, call[c].got)
  /\ UNCHANGED <<table, reads, floor>>

-----------------------------------------------------------------------------
(* refreshCurrencies *)

refreshCurrencies(c) ==
  /\ Free(c)
  /\ call' = [call EXCEPT ![c] = At("load", {})]
  /\ UNCHANGED <<table, cached, entry, reads, floor>>

\* Registries that were read from the table and are not yet in the cache.
InFlight == {call[c].got : c \in {d \in Calls : call[d].pc = "fill"}}

FinishRefresh(c) ==
  /\ c \in Refreshes
  /\ call[c].pc = "fill"
  /\ setCurrencies(call[c].got)
  /\ call' = [call EXCEPT ![c].pc = "done"]
  /\ floor' = floor \cup {x \in Codes : \A m \in InFlight : x \in m}
  /\ UNCHANGED <<table, reads>>

-----------------------------------------------------------------------------
(* The environment *)

InsertCurrency(x) ==
  /\ x \notin table
  /\ table' = table \cup {x}
  /\ UNCHANGED <<cached, entry, call, reads, floor>>

Expire ==
  /\ cached
  /\ cached' = FALSE
  /\ entry' = {}
  /\ reads' = 0
  /\ UNCHANGED <<table, call, floor>>

Proceed(c) ==
  Do(c) \/ CheckAgain(c) \/ loadCurrenciesFromDB(c) \/ LoadFails(c) \/ Fill(c)
    \/ FinishRefresh(c)

Next ==
  \/ \E c \in Lookups : getCurrencies(c)
  \/ \E c \in Refreshes : refreshCurrencies(c)
  \/ \E c \in Calls : Proceed(c)
  \/ \E x \in Codes : InsertCurrency(x)
  \/ Expire

Spec == Init /\ [][Next]_vars

-----------------------------------------------------------------------------
(* Properties *)

\* A code that a refresh published and that every registry then in flight knew
\* stays known: no lookup that gets a registry, from the cache, from its own
\* load or from another's, is answered with one that lacks it, and neither
\* expiry nor later loads and refreshes take it away.
RefreshStays ==
  /\ cached => floor \subseteq entry
  /\ \A c \in Calls : call[c].pc = "fill" => floor \subseteq call[c].got

\* Fail closed: a lookup never knows a code that is not in the table.
KnowsOnlyRegistered ==
  \A c \in Calls : call[c].got \subseteq table

\* currencyLoadGroup: "a TTL expiry under load triggers exactly one DB
\* round-trip".  Between two expiries lookups read the registry at most once,
\* however they, the refreshes and failed loads interleave.  A load that fails is
\* a round-trip too, but caches nothing: the next lookup tries again, so those
\* are not counted.
OneReadPerExpiry == reads <= 1
=============================================================================
