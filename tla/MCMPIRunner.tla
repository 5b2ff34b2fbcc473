------------------------------ MODULE MCMPIRunner ------------------------------
(***************************************************************************)
(* Small instances of MPIRunner.                                           *)
(***************************************************************************)
EXTENDS MPIRunner

(* Batches of one or two cases.                                            *)
MCPositions == 0 .. 1

(* At most two batches.                                                    *)
MCCalls == 1 .. 2

MCOutcomes == {"success", "timeout", "invalid"}
================================================================================
