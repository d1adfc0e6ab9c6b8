--------------------------- MODULE MCMailResolution ---------------------------
(***************************************************************************)
(* Two parser processes: one with three commits in one chunk, one          *)
(* with a single commit; up to MaxDaemons daemons one after another.       *)
(***************************************************************************)
EXTENDS MailResolution, TLC
CONSTANTS a, b, k1, k2, k3, k4
TwoClients == (a :> <<k1, k2, k3>>) @@ (b :> <<k4>>)
=============================================================================
