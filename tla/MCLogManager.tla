---------------------------- MODULE MCLogManager ----------------------------
(* An async, an independent and a sync log, two threads that call.         *)
EXTENDS LogManager, TLC

CONSTANTS async, ind, sync

MCMode == (async :> "async") @@ (ind :> "independent") @@ (sync :> "sync")
MCCreated == <<async, sync>>
=============================================================================
