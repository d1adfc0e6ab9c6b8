---------------------------- MODULE MCWorkerStage ----------------------------
(***************************************************************************)
(* Instances of WorkerStage for TLC.                                       *)
(***************************************************************************)
EXTENDS WorkerStage

\* A worker killed at any moment, one that cannot open its database, and two
\* result frames that cannot be decoded: as many as a worker may hold batches.
FewFaults == [k \in FaultKinds |-> IF k = "frame" THEN 2 ELSE 1]

\* Four batches for two workers, one of two files.
FourBatches == << <<"a", "b">>, <<"c">>, <<"d">>, <<"e">> >>
=============================================================================
