----------------------------- MODULE MCSocketLock -----------------------------
(* Instances of SocketLock for TLC. *)
EXTENDS SocketLock, TLC

CONSTANTS d0, d1, d2, k

(* One daemon of before the lock, one of before the upgrade, two of after.  *)
Versions == d0 :> 0 @@ d1 :> 1 @@ d2 :> 2 @@ k :> 2
===============================================================================
