--------------------------------- MODULE MCAPPS --------------------------------
(***************************************************************************)
(* Small instances of APPS.                                                *)
(***************************************************************************)
EXTENDS APPS

(* Objective function values: the base case starts with any of them.       *)
MCValues == 0 .. 2
================================================================================
