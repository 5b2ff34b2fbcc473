------------------------------ MODULE MCEvaluation ------------------------------
(***************************************************************************)
(* Small instances of Evaluation.                                          *)
(***************************************************************************)
EXTENDS Evaluation

Run(r, e, t, m, x) ==
  [runner |-> r, ensemble |-> e, timeout |-> t, max |-> m, exec |-> x]

(* Without any timeout; with twice the median; with a time for when there  *)
(* is no median yet; for ensembles, too.                                   *)
MCSettings ==
  {Run("serial", FALSE, 0, -1, TRUE), Run("serial", FALSE, 2, 2, TRUE),
   Run("serial", TRUE, 2, -1, TRUE), Run("serial", FALSE, 2, -1, FALSE),
   Run("worker", FALSE, 0, -1, TRUE), Run("worker", FALSE, 2, 2, TRUE),
   Run("worker", TRUE, 2, -1, TRUE), Run("worker", FALSE, 0, 2, FALSE)}
================================================================================
