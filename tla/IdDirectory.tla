----------------------------- MODULE IdDirectory -----------------------------
(***************************************************************************)
(* What the table engine promises its callers about the ids of             *)
(* deduplicated content (file names, file blobs, tags, ...): within a      *)
(* table every key has one id and every id one key, for as long as the     *)
(* row exists. A row that reached the database keeps its id for ever; one  *)
(* that did not may be forgotten when the engine starts again.             *)
(***************************************************************************)
EXTENDS Naturals

CONSTANTS Tables, Keys

VARIABLES
    ids,     \* per table and key: its id, or 0
    stored   \* per table: the keys whose row the database has

vars == <<ids, stored>>

Init ==
    /\ ids = [t \in Tables |-> [k \in Keys |-> 0]]
    /\ stored = [t \in Tables |-> {}]

\* Any id that no key of the table has.
Assign(t, k) ==
    /\ ids[t][k] = 0
    /\ ids'[t][k] # 0 /\ \A l \in Keys : ids[t][l] # ids'[t][k]
    /\ ids' = [ids EXCEPT ![t][k] = ids'[t][k]]
    /\ UNCHANGED stored

Store(t, ks) ==
    /\ \A k \in ks : ids[t][k] # 0
    /\ stored' = [stored EXCEPT ![t] = @ \cup ks]
    /\ UNCHANGED ids

\* What the database does not have is gone.
Forget ==
    /\ ids' = [t \in Tables |-> [k \in Keys |-> IF k \in stored[t] THEN ids[t][k] ELSE 0]]
    /\ UNCHANGED stored

Next ==
    \/ \E t \in Tables, k \in Keys : Assign(t, k)
    \/ \E t \in Tables, ks \in SUBSET Keys : Store(t, ks)
    \/ Forget

Spec == Init /\ [][Next]_vars
=============================================================================
