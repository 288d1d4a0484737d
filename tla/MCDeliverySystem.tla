-------------------------- MODULE MCDeliverySystem --------------------------
(***************************************************************************)
(* One phone, one PC, two messages; one link scanned repeatedly.           *)
(***************************************************************************)
EXTENDS DeliverySystem, TLC

CONSTANTS m1, m2, u1

MCMessage == {m1, m2}
MCOneLink == {u1}
MCOneMessage == {m1}
MCSlot == {"phone", "pc", "tray", "orphan"}
Symmetry == Permutations(MCMessage)
=============================================================================
