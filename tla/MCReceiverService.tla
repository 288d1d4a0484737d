------------------------- MODULE MCReceiverService ---------------------------
(* One origin with many changes and a refreshed session; two origins whose *)
(* questions compete; two whose reports fail to be written, each apart     *)
(* from the other's.                                                       *)
EXTENDS ReceiverService

CONSTANTS o1, o2

MCSessions == [user: DeviceIds, number: 0..MaxRotations]

MCBounds ==
    {[origins |-> {o1}, changes |-> 3, questions |-> 1, rotations |-> 1,
      unwritable |-> {}],
     [origins |-> {o1, o2}, changes |-> 2, questions |-> 2, rotations |-> 0,
      unwritable |-> {}],
     [origins |-> {o1, o2}, changes |-> 2, questions |-> 0, rotations |-> 0,
      unwritable |-> {o1, o2}]}
=============================================================================
