--------------------------- MODULE MCAgentDelivery ---------------------------
(***************************************************************************)
(* Instances of AgentDelivery: three change events, two of which the       *)
(* minute bucket gives one idempotency key, and an initial snapshot e4     *)
(* with the key of the change event e2, as a file created and snapshotted  *)
(* within one minute has.                                                  *)
(***************************************************************************)
EXTENDS AgentDelivery, TLC

CONSTANTS e1, e2, e3, e4, k1, k2

SharedKey == (e1 :> k1) @@ (e2 :> k2) @@ (e3 :> k1) @@ (e4 :> k2)
=============================================================================
