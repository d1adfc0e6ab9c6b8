----------------------------- MODULE SyncCaches -----------------------------
(***************************************************************************)
(* How the browser follows the database of the web back end: the change    *)
(* tokens with their time to live (_Ttl), the caches they clear, the       *)
(* catalog kept per token (TokenCache), and the page that refetches the    *)
(* catalog when a token changes (sync.js, api.js).                         *)
(*                                                                         *)
(* One version of one repository. Whatever changes it (it is parsed again, *)
(* its branch moves) makes the next generation: its rows, its stamp and    *)
(* the token are all told apart by the generation they were read from. The *)
(* parsed and the git token follow the same steps and are one token here;  *)
(* the db token is taken not to change.                                    *)
(*                                                                         *)
(* A call is one HTTP request: `sync` (GET /api/sync), `catalog` (the      *)
(* refetch of refreshVersions), `data` (what a view reads) of the page,    *)
(* and `other`, a catalog for another browser. Each ends with the header   *)
(* X-KIP-Sync, whose token is read last.                                   *)
(***************************************************************************)
EXTENDS Integers, Sequences, FiniteSets, SequencesExt

CONSTANTS
    MaxGen,     \* bound on the changes of the version
    MaxFaults,  \* bound on failed token queries, lost responses and reloads of the page together
    Company     \* bound: the calls a behaviour may make next to sync and catalog (a set of such sets)

ASSUME SyncAssumption ==
    /\ MaxGen \in Nat /\ MaxFaults \in Nat
    /\ Company \subseteq SUBSET {"data", "other"}

Gens == 0..MaxGen
None == -1        \* nothing cached, no stamp; as a token "", which could not be computed
Free == "free"    \* nobody holds the gate
Calls == {"sync", "catalog", "data", "other"}

VARIABLES
    gen,      \* the database and the repository
    ttl,      \* _values: the token, whether it is younger than ttl, who still waits and had asked before it was computed
    gate,     \* who holds _computing
    covers,   \* who else had asked when that computation started
    last,     \* _last_parsed
    plain,    \* a cache without a token (clear_parse_dependent_caches clears it)
    entry,    \* the catalog in TokenCache: its token, whether it is recent (if the token is ""), its content
    building, \* who holds _gates
    calls,    \* per call: what it does next, its token, its result, the key it is for
    tokens,   \* the page's `tokens`, also in IndexedDB
    stamps,   \* versionStamps, also in IndexedDB
    stored,   \* IndexedDB: per stamp in the key, the data
    queue,    \* `queue`: the tokens to apply
    applying, \* refreshVersions waits for the catalog
    missed,   \* the page recorded a token without the catalog that goes with it
    faults, company

serverVars == <<gen, ttl, gate, covers, last, plain, entry, building>>
pageVars == <<tokens, stamps, stored, queue, applying, missed>>
boundVars == <<faults, company>>
syncVars == <<serverVars, calls, pageVars, boundVars>>

Idle == [pc |-> "idle", token |-> None, value |-> None, label |-> None, key |-> None]
Catalogs == {"catalog", "other"}

SyncInit ==
    /\ gen = 0
    /\ ttl = [token |-> None, young |-> FALSE, since |-> {}]
    /\ gate = Free /\ covers = {} /\ last = None
    /\ plain = None
    /\ entry = [label |-> None, recent |-> FALSE, value |-> None] /\ building = Free
    /\ calls = [c \in Calls |-> Idle]
    /\ tokens = None /\ stamps = None /\ stored = [s \in Gens |-> None]
    /\ queue = << >> /\ applying = FALSE /\ missed = FALSE
    /\ faults = MaxFaults /\ company \in Company

IsAt(c, label) == calls[c].pc = label
Fault == faults > 0 /\ faults' = faults - 1

\* A version finishes, is rolled back, or a branch moves.
Change ==
    /\ gen < MaxGen /\ gen' = gen + 1
    /\ UNCHANGED <<ttl, gate, covers, last, plain, entry, building, calls, pageVars, boundVars>>

-----------------------------------------------------------------------------
(***************************************************************************)
(* _Ttl.get with the token's compute().                                    *)
(***************************************************************************)
\* Where a call goes on with a token: a catalog looks at the cache with the
\* first one, every other token is the header's.
WithToken(c, t) ==
    calls' = IF c \in Catalogs /\ calls[c].value = None
             THEN [calls EXCEPT ![c].token = t, ![c].label = t, ![c].pc = "entry"]
             ELSE [calls EXCEPT ![c].token = t, ![c].pc = "answer"]

\* Also cached_header_value.
TokenHit(c) ==
    /\ IsAt(c, "token") /\ ttl.young
    /\ WithToken(c, ttl.token)
    /\ UNCHANGED <<serverVars, pageVars, boundVars>>

\* GET /api/sync?fresh=true goes this way with a young token, too.
TokenMiss(c) ==
    /\ IsAt(c, "token") /\ (ttl.young => c = "sync")
    /\ calls' = [calls EXCEPT ![c].pc = "gate", ![c].token = gen]
    /\ UNCHANGED <<serverVars, pageVars, boundVars>>

\* Mutant: any computed token will do.
Answers_Any(c) == ttl.token # None

\* The token was computed after this call had asked.
Answers(c) == c \in ttl.since

TokenShared(c) ==
    /\ IsAt(c, "gate") /\ gate = Free /\ Answers(c)
    /\ WithToken(c, ttl.token)
    /\ ttl' = [ttl EXCEPT !.since = @ \ {c}]
    /\ UNCHANGED <<gen, gate, covers, last, plain, entry, building, pageVars, boundVars>>

TokenCompute(c) ==
    /\ IsAt(c, "gate") /\ gate = Free /\ ~Answers(c)
    /\ gate' = c /\ covers' = {d \in Calls \ {c} : IsAt(d, "gate")}
    /\ \/ calls' = [calls EXCEPT ![c].pc = "store", ![c].token = gen] /\ UNCHANGED faults
       \/ Fault /\ calls' = [calls EXCEPT ![c].pc = "store", ![c].token = None]
    /\ UNCHANGED <<gen, ttl, last, plain, entry, building, pageVars, company>>

\* A changed token clears the caches that do not carry it. The first one and
\* "" do not. What is read of the caches in between meets no lock.
TokenStore(c) ==
    LET t == calls[c].token IN
    /\ IsAt(c, "store")
    /\ plain' = IF t # None /\ last \notin {None, t} THEN None ELSE plain
    /\ last' = IF t = None THEN last ELSE t
    /\ ttl' = [token |-> t, young |-> TRUE, since |-> covers]
    /\ gate' = Free /\ covers' = {}
    /\ WithToken(c, t)
    /\ UNCHANGED <<gen, entry, building, pageVars, boundVars>>

TokenExpires ==
    /\ ttl.young /\ ttl' = [ttl EXCEPT !.young = FALSE]
    /\ UNCHANGED <<gen, gate, covers, last, plain, entry, building, calls, pageVars, boundVars>>

-----------------------------------------------------------------------------
(***************************************************************************)
(* TokenCache.get, and a cache without tokens.                             *)
(***************************************************************************)
\* Mutant: whatever is cached is current.
Current_Always(t) == entry.value # None

\* _current
Current(t) ==
    /\ entry.value # None /\ entry.label = t
    /\ t = None => entry.recent

\* With or without having waited at the gate.
EntryHit(c) ==
    /\ IsAt(c, "entry") /\ Current(calls[c].token)
    /\ calls' = [calls EXCEPT ![c].value = entry.value, ![c].pc = "token"]
    /\ UNCHANGED <<serverVars, pageVars, boundVars>>

\* build(): reads the database and the repository.
EntryBuild(c) ==
    /\ IsAt(c, "entry") /\ ~Current(calls[c].token) /\ building = Free
    /\ building' = c
    /\ calls' = [calls EXCEPT ![c].value = gen, ![c].pc = "keep"]
    /\ UNCHANGED <<gen, ttl, gate, covers, last, plain, entry, pageVars, boundVars>>

\* Mutant: labelled with the tokens of now.
Label_Now(c) == ttl.token

\* The tokens were read before the build.
Label(c) == calls[c].token

EntryKeep(c) ==
    /\ IsAt(c, "keep")
    /\ entry' = [label |-> Label(c), recent |-> Label(c) = None, value |-> calls[c].value]
    /\ building' = Free
    /\ calls' = [calls EXCEPT ![c].pc = "token"]
    /\ UNCHANGED <<gen, ttl, gate, covers, last, plain, pageVars, boundVars>>

\* _UNVERIFIED_TTL_S
EntryAges ==
    /\ entry.recent /\ entry' = [entry EXCEPT !.recent = FALSE]
    /\ UNCHANGED <<gen, ttl, gate, covers, last, plain, building, calls, pageVars, boundVars>>

DataHit(c) ==
    /\ IsAt(c, "look") /\ plain # None
    /\ calls' = [calls EXCEPT ![c].value = plain, ![c].pc = "token"]
    /\ UNCHANGED <<serverVars, pageVars, boundVars>>

DataRead(c) ==
    /\ IsAt(c, "look") /\ plain = None
    /\ calls' = [calls EXCEPT ![c].value = gen, ![c].pc = "fill"]
    /\ UNCHANGED <<serverVars, pageVars, boundVars>>

DataFill(c) ==
    /\ IsAt(c, "fill")
    /\ plain' = calls[c].value
    /\ calls' = [calls EXCEPT ![c].pc = "token"]
    /\ UNCHANGED <<gen, ttl, gate, covers, last, entry, building, pageVars, boundVars>>

-----------------------------------------------------------------------------
(***************************************************************************)
(* The page. A reload leaves its calls on the server, as calls of nobody.  *)
(***************************************************************************)
Open(c, label, key) == [calls EXCEPT ![c] = [Idle EXCEPT !.pc = label, !.key = key]]

\* The heartbeat, or a tab that opens. It comes after the queue is worked off:
\* 60 s are longer than that takes.
AskSync ==
    /\ IsAt("sync", "idle") /\ queue = << >> /\ ~applying
    /\ calls' = Open("sync", "token", None)
    /\ UNCHANGED <<serverVars, pageVars, boundVars>>

\* request() finds nothing under the key of now.
AskData ==
    /\ "data" \in company /\ IsAt("data", "idle") /\ stamps # None /\ stored[stamps] = None
    /\ calls' = Open("data", "look", stamps)
    /\ UNCHANGED <<serverVars, pageVars, boundVars>>

OtherAsks ==
    /\ "other" \in company /\ IsAt("other", "idle")
    /\ calls' = Open("other", "token", None)
    /\ UNCHANGED <<serverVars, pageVars, boundVars>>

\* onHeader
Heard(t) == IF t \notin {None, tokens} THEN Append(queue, t) ELSE queue

Ends(c) == IsAt(c, "answer") /\ calls' = [calls EXCEPT ![c] = Idle]

\* enqueue, whatever the token is. The connection may also be lost.
SyncAnswered ==
    /\ Ends("sync")
    /\ \/ queue' = Append(queue, calls["sync"].token) /\ UNCHANGED faults
       \/ Fault /\ UNCHANGED queue
    /\ UNCHANGED <<serverVars, tokens, stamps, stored, applying, missed, company>>

\* Stored under the key of the time it was asked for. Offline nothing is.
DataAnswered ==
    /\ Ends("data")
    /\ \/ /\ calls["data"].key # None
          /\ stored' = [stored EXCEPT ![calls["data"].key] = calls["data"].value]
          /\ queue' = Heard(calls["data"].token) /\ UNCHANGED faults
       \/ Fault /\ UNCHANGED <<stored, queue>>
       \/ calls["data"].key = None /\ UNCHANGED <<stored, queue, faults>>
    /\ UNCHANGED <<serverVars, tokens, stamps, applying, missed, company>>

OtherAnswered == Ends("other") /\ UNCHANGED <<serverVars, pageVars, boundVars>>

\* Mutant: the version lists are refetched once, when the page has none.
Refetches_Once(t) == stamps = None

\* A first token refetches nothing if there are stamps.
Refetches(t) == stamps = None \/ (t \notin {None, tokens} /\ tokens # None)

\* apply(): the token is recorded first.
Apply ==
    LET t == Head(queue) IN
    /\ queue # << >> /\ ~applying /\ (Refetches(t) => IsAt("catalog", "idle"))
    /\ tokens' = IF t = None THEN tokens ELSE t
    /\ applying' = Refetches(t)
    /\ calls' = IF Refetches(t) THEN Open("catalog", "token", None) ELSE calls
    /\ queue' = Tail(queue)
    /\ missed' = (missed \/ (tokens = None /\ t # None /\ stamps # None))
    /\ UNCHANGED <<serverVars, stamps, stored, boundVars>>

\* refreshVersions: the stamps of the catalog; the data of other stamps is deleted.
CatalogAnswered ==
    LET s == calls["catalog"].value IN
    /\ Ends("catalog") /\ applying
    /\ stamps' = s
    /\ stored' = IF stamps \in {None, s} THEN stored ELSE [k \in Gens |-> IF k = s THEN stored[k] ELSE None]
    /\ queue' = Heard(calls["catalog"].token)
    /\ applying' = FALSE
    /\ missed' = (calls["catalog"].label = None)
    /\ UNCHANGED <<serverVars, tokens, boundVars>>

\* _loadVersions falls back to the catalog the page has; without one it raises,
\* which only ends this apply().
CatalogLost ==
    /\ Ends("catalog") /\ applying /\ Fault
    /\ applying' = FALSE /\ missed' = TRUE
    /\ UNCHANGED <<serverVars, tokens, stamps, stored, queue, company>>

\* The answer of a page that is gone.
CatalogOrphaned ==
    /\ Ends("catalog") /\ ~applying
    /\ UNCHANGED <<serverVars, pageVars, boundVars>>

\* start() reads tokens and stamps from IndexedDB.
Reload ==
    /\ Fault
    /\ queue' = << >> /\ applying' = FALSE /\ missed' = (missed \/ applying)
    /\ calls' = [calls EXCEPT !["data"].key = None]
    /\ UNCHANGED <<serverVars, tokens, stamps, stored, company>>

-----------------------------------------------------------------------------
ServerStep(c) ==
    \/ TokenHit(c) \/ TokenMiss(c) \/ TokenShared(c) \/ TokenCompute(c) \/ TokenStore(c)
    \/ EntryHit(c) \/ EntryBuild(c) \/ EntryKeep(c)
    \/ DataHit(c) \/ DataRead(c) \/ DataFill(c)

PageStep ==
    \/ AskSync \/ SyncAnswered \/ Apply
    \/ CatalogAnswered \/ CatalogLost \/ CatalogOrphaned \/ DataAnswered

SyncNext ==
    \/ Change \/ TokenExpires \/ EntryAges
    \/ \E c \in Calls : ServerStep(c)
    \/ PageStep \/ AskData \/ OtherAsks \/ OtherAnswered \/ Reload

SyncSpec == SyncInit /\ [][SyncNext]_syncVars

(***************************************************************************)
(* Requests are answered, tokens age, and the heartbeat goes on. Who waits *)
(* at a gate gets it if it is free again and again (strong fairness: the   *)
(* lock is not starved). Nobody need look at a version.                    *)
(***************************************************************************)
FairSyncSpec ==
    /\ SyncSpec /\ WF_syncVars(TokenExpires)
    /\ \A c \in Calls : SF_syncVars(ServerStep(c))
    /\ WF_syncVars(AskSync \/ SyncAnswered) /\ WF_syncVars(Apply)
    /\ WF_syncVars(CatalogAnswered \/ CatalogLost \/ CatalogOrphaned)

-----------------------------------------------------------------------------
(***************************************************************************)
(* Properties.                                                             *)
(***************************************************************************)
\* A catalog is at least as new as the tokens it is cached under, whatever
\* changes while it is built (TokenCache.get): else it would be served as
\* current until the next change.
CatalogAsNewAsLabel == entry.value # None => entry.value >= entry.label

\* Waiting for somebody else's computation never yields a token from before the
\* request (_Ttl.get): a token that a call gets at the gate is as new as the
\* state it started in.
SharedTokenIsFresh ==
    [][\A c \in Calls : IsAt(c, "gate") /\ calls'[c].pc \in {"entry", "answer"} =>
          calls'[c].token = None \/ calls'[c].token >= calls[c].token]_syncVars

\* After the last change the page gets the last stamps by itself, for good,
\* unless the refetch failed.
PageCatchesUp == <>[](gen = MaxGen => stamps = MaxGen \/ missed)
=============================================================================
