----------------------------- MODULE MCWakeups -------------------------------
(* Four messages: one in the receiver's hands, two queued behind it, one    *)
(* racing a join; three faults, enough for a break inside a reconnection.   *)
EXTENDS Wakeups
=============================================================================
