------------------------------ MODULE MCLabels -------------------------------
(***************************************************************************)
(* A cluster of two deployments and a tenant in one namespace.  The user   *)
(* may write over the labels the builders use, and with a value that is    *)
(* the name of a deployment.                                               *)
(***************************************************************************)
EXTENDS Labels, TLC

CONSTANTS hb, t

MCKind == hb :> "cluster" @@ t :> "tenant"
MCDepsOf == hb :> <<"jn", "dn">> @@ t :> <<"tdn">>
==============================================================================
