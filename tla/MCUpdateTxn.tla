----------------------------- MODULE MCUpdateTxn -----------------------------
(* One service for every transition of the plan.                           *)
EXTENDS UpdateTxn

CONSTANTS u1, u2, u3, u4

FourUnits == <<u1, u2, u3, u4>>
EveryTransition == u1 :> "keep" @@ u2 :> "replace" @@ u3 :> "retire" @@ u4 :> "add"
=============================================================================
