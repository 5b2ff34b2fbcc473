--------------------------- MODULE MCEnsembleRunner ---------------------------
(***************************************************************************)
(* Small instances of EnsembleRunner.                                      *)
(***************************************************************************)
EXTENDS EnsembleRunner

(* Batches of one or two cases.                                           *)
MCPositions == 0 .. 1

(* At most two batches.                                                    *)
MCCalls == 1 .. 2

(* A simulation that timed out is treated as a success.                    *)
MCOutcomes == {"success", "invalid"}

(* One realization, or both of them.                                        *)
MCSelects == {1, 2}
================================================================================
