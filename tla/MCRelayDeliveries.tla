------------------------- MODULE MCRelayDeliveries -------------------------
(***************************************************************************)
(* The relay alone, under a client that may send anything at any time, one *)
(* handler it has abandoned, and one message.                              *)
(***************************************************************************)
EXTENDS RelayDeliveries

CONSTANT m1

MCMessage == {m1}
MCSlot == {"client", "orphan"}
=============================================================================
