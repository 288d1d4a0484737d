---------------------------- MODULE Introduction ----------------------------
(***************************************************************************)
(* What pairing promises, however the code, the relay's session and the    *)
(* requests about it travel: a session introduces at most one phone        *)
(* request to the PC, none once its window was closed unused,              *)
(* and a phone keeps a pair only of a session the PC stored for it.  A     *)
(* request stands for the fresh key pair it is made with.                  *)
(*                                                                         *)
(* Pairing implements it.                                                  *)
(***************************************************************************)
CONSTANTS Session, Request, None

VARIABLES
  owner,    \* for each session, the request the PC stored a pair for
  closed,   \* sessions whose window was closed unused
  saved     \* pairs <<session, request>> that phones keep

vars == <<owner, closed, saved>>

Init == /\ owner = [i \in Session |-> None]
        /\ closed = {}
        /\ saved = {}

Store(i, r) == /\ owner[i] = None /\ i \notin closed
               /\ owner' = [owner EXCEPT ![i] = r]
               /\ UNCHANGED <<closed, saved>>

Close(i) == /\ owner[i] = None
            /\ closed' = closed \cup {i}
            /\ UNCHANGED <<owner, saved>>

Save(i, r) == /\ owner[i] = r
              /\ saved' = saved \cup {<<i, r>>}
              /\ UNCHANGED <<owner, closed>>

Next == \E i \in Session : \/ Close(i)
                           \/ \E r \in Request : Store(i, r) \/ Save(i, r)

Spec == Init /\ [][Next]_vars
=============================================================================
