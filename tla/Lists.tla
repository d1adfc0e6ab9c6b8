-------------------------------- MODULE Lists --------------------------------
(***************************************************************************)
(* Selecting from a list, as the list comprehensions of main.py and        *)
(* FileHandler.py do, by a recursive function that can be proved about.    *)
(***************************************************************************)
EXTENDS Naturals, Sequences

\* The elements of s that are in S, in their order.
Those(s, S) ==
    LET those[n \in 0..Len(s)] ==
          IF n = 0 THEN << >>
          ELSE IF s[n] \in S THEN Append(those[n - 1], s[n]) ELSE those[n - 1]
    IN those[Len(s)]
=============================================================================
