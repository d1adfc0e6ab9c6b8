------------------------------- MODULE MCStores -------------------------------
(***************************************************************************)
(* What is kept apart from its owner and read back later: the ChangeSets   *)
(* of a version, the AST hashes carried from version to version, and the   *)
(* sessions of the browser windows. They do not meet, and a behaviour is   *)
(* one of any of them.                                                     *)
(***************************************************************************)
EXTENDS ChangeSetStore, CarriedHashes, BrowserSessions

VARIABLE part

\* Nobody has ever opened a page.
NoBrowser ==
    /\ stored = << >> /\ unused = {} /\ page = [w \in Windows |-> "none"]
    /\ pin = [w \in Windows |-> None] /\ holds = pin
    /\ tabs = [w \in Windows |-> {}] /\ pending = tabs /\ timers = tabs
    /\ dirty = [w \in Windows |-> FALSE] /\ inbox = [w \in Windows |-> << >>]
    /\ acts = 0 /\ closed = Names /\ settled = TRUE

StoresInit ==
    /\ Init /\ HashesInit
    /\ \/ part \in {"ChangeSets", "hashes"} /\ NoBrowser
       \/ part = "sessions" /\ SessionsInit

StoresNext ==
    /\ UNCHANGED part
    /\ \/ part = "ChangeSets" /\ Next /\ UNCHANGED <<hashVars, sessionVars>>
       \/ part = "hashes" /\ HashesNext /\ UNCHANGED <<csVars, sessionVars>>
       \/ part = "sessions" /\ SessionsNext /\ UNCHANGED <<csVars, hashVars>>

StoresSpec == StoresInit /\ [][StoresNext]_<<part, csVars, hashVars, sessionVars>>

\* Contents, versions, windows and sessions are only compared with others of
\* their kind. Kinds that do not meet have the same model values, which keeps the
\* permutations few.
Symmetric == Permutations(Contents) \cup Permutations(Versions)
ASSUME SharedValues == Windows = Contents /\ Sessions = Versions
=============================================================================
