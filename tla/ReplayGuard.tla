---------------------------- MODULE ReplayGuard ----------------------------
(***************************************************************************)
(* What the receiver is promised by a replay guard, with no ledger in      *)
(* sight: while a message is still inside its replay window it is accepted *)
(* at most once, whoever presents it and however often.                    *)
(***************************************************************************)
EXTENDS Naturals

CONSTANTS Message,   \* scoped message IDs (relay origin, pair, message_id)
          Expiry     \* the authenticated expires_at of each message

VARIABLES clock,     \* the PC's wall clock, in seconds
          uses       \* how often each message was accepted inside its window

guardVars == <<clock, uses>>

Init == /\ clock = 0
        /\ uses = [m \in Message |-> 0]

Accept(m) == /\ clock <= Expiry[m]
             /\ uses[m] = 0
             /\ uses' = [uses EXCEPT ![m] = 1]
             /\ UNCHANGED clock

Advance == /\ clock' = clock + 1
           /\ UNCHANGED uses

Next == Advance \/ \E m \in Message : Accept(m)

Spec == Init /\ [][Next]_guardVars
=============================================================================
