----------------------------- MODULE MCMaintenance -----------------------------
(* The instance of Maintenance that TLC checks. *)
EXTENDS Maintenance, TLC

MCFree == (1 :> 10) @@ (2 :> 30) @@ (3 :> 20)
=============================================================================
