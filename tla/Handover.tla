------------------------------ MODULE Handover ------------------------------
(***************************************************************************)
(* What the delivery of links promises to both ends, whichever relay lies  *)
(* between them: the PC takes a message once, and from then on the message *)
(* either is asked about once or is given up for good; the phone is told   *)
(* "delivered" only of a message that was taken.  Relays, sockets, leases, *)
(* retries and restarts are hidden.                                        *)
(*                                                                         *)
(* DeliverySystem (the hosted relay) and LocalRelay (the local one)        *)
(* implement it.                                                           *)
(***************************************************************************)
EXTENDS Naturals

CONSTANT Message

VARIABLES
  accepted,   \* messages the PC has taken
  asked,      \* how often its user was asked about each message
  lost,       \* taken messages that the PC gave up without a question
  told        \* messages whose phone was told "delivered"

vars == <<accepted, asked, lost, told>>

Init == /\ accepted = {}
        /\ asked = [m \in Message |-> 0]
        /\ lost = {}
        /\ told = {}

Accept(m) == /\ m \notin accepted
             /\ accepted' = accepted \cup {m}
             /\ UNCHANGED <<asked, lost, told>>

\* Taken, not given up, and its user not asked yet.
Owed(m) == m \in accepted \ lost /\ asked[m] = 0

Ask(m) == /\ Owed(m)
          /\ asked' = [asked EXCEPT ![m] = 1]
          /\ UNCHANGED <<accepted, lost, told>>

GiveUp(m) == /\ Owed(m)
             /\ lost' = lost \cup {m}
             /\ UNCHANGED <<accepted, asked, told>>

Tell(m) == /\ m \in accepted
           /\ told' = told \cup {m}
           /\ UNCHANGED <<accepted, asked, lost>>

Next == \E m \in Message : Accept(m) \/ Ask(m) \/ GiveUp(m) \/ Tell(m)

Spec == Init /\ [][Next]_vars
=============================================================================
