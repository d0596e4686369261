---------------------------- MODULE MCWebConsole ----------------------------
(***************************************************************************)
(* Two tenants with a finding each.                                        *)
(***************************************************************************)
EXTENDS WebConsole, TLC

CONSTANTS acme, globex, findingA, findingG

MCOwner == findingA :> acme @@ findingG :> globex
=============================================================================
