------------------------------ MODULE Dictionary ------------------------------
(***************************************************************************)
(* What the callers of CompressedChangeSetDict rely on: a dictionary of    *)
(* ChangeSets. A caller that executes an entry works on the entry itself,  *)
(* and whoever loads it later sees all of that work.                       *)
(***************************************************************************)
EXTENDS Naturals

CONSTANTS Keys, Steps

Progress == 0 .. Steps \* operations of a ChangeSet executed; Steps: evacuated
Nothing == Steps + 1   \* None
Absent == Steps + 2    \* no such key
NotHeld == [key |-> "none", progress |-> 0]

VARIABLES
    entry, \* what is stored under each key
    held   \* the entry a caller is executing

dictVars == <<entry, held>>

Init == entry = [k \in Keys |-> Absent] /\ held = NotHeld

Put(k, value) ==
    /\ held = NotHeld /\ entry[k] = Absent
    /\ entry' = [entry EXCEPT ![k] = value] /\ UNCHANGED held

Take(k) ==
    /\ held = NotHeld /\ entry[k] \in Progress
    /\ held' = [key |-> k, progress |-> entry[k]] /\ UNCHANGED entry

Work ==
    /\ held # NotHeld /\ held.progress < Steps
    /\ held' = [held EXCEPT !.progress = @ + 1]
    /\ entry' = [entry EXCEPT ![held.key] = held.progress + 1]

Release == held # NotHeld /\ held' = NotHeld /\ UNCHANGED entry

Clear == held = NotHeld /\ entry' = [k \in Keys |-> Absent] /\ UNCHANGED held

Next ==
    \/ \E k \in Keys : Take(k) \/ \E value \in Progress \cup {Nothing} : Put(k, value)
    \/ Work \/ Release \/ Clear

Spec == Init /\ [][Next]_dictVars
=============================================================================
