------------------------------ MODULE Mailbox ------------------------------
(***************************************************************************)
(* What the relay promises a pair, with no HTTP call in sight: a message   *)
(* is held until it is answered, an answered message is never offered      *)
(* again, its name stays taken until it expires, and a closed mailbox      *)
(* neither takes nor offers anything.                                      *)
(***************************************************************************)
EXTENDS Naturals

CONSTANTS Message

VARIABLES clock,     \* the relay's clock
          closed,    \* the pair has been revoked
          box,       \* none, held or answered, for each message
          until      \* the expiry a taken message was stored with

mailVars == <<clock, closed, box, until>>

Init == /\ clock = 1
        /\ closed = FALSE
        /\ box = [m \in Message |-> "none"]
        /\ until = [m \in Message |-> 0]

Take(m) == /\ ~closed
           /\ box[m] = "none"
           /\ box' = [box EXCEPT ![m] = "held"]
           /\ until' \in [Message -> Nat]
           /\ \A n \in Message \ {m} : until'[n] = until[n]
           /\ UNCHANGED <<clock, closed>>

Settle(m) == /\ box[m] = "held"
             /\ box' = [box EXCEPT ![m] = "answered"]
             /\ UNCHANGED <<clock, closed, until>>

\* Whole groups of messages may go in one step, each of them for a reason.
Forget == /\ \A m \in Message :
               \/ box'[m] = box[m] /\ until'[m] = until[m]
               \/ box'[m] = "none" /\ until'[m] = 0 /\ (closed \/ until[m] < clock)
          /\ box' \in [Message -> {"none", "held", "answered"}]
          /\ until' \in [Message -> Nat]
          /\ UNCHANGED <<clock, closed>>

Close == closed' = TRUE /\ UNCHANGED <<clock, box, until>>

Advance == clock' = clock + 1 /\ UNCHANGED <<closed, box, until>>

Next == \/ Forget \/ Close \/ Advance
        \/ \E m \in Message : Take(m) \/ Settle(m)

Spec == Init /\ [][Next]_mailVars
=============================================================================
