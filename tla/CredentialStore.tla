--------------------------- MODULE CredentialStore ---------------------------
(***************************************************************************)
(* What PairingStore promises its callers: a call takes effect once, in    *)
(* one step between its start and its answer, on the store all threads     *)
(* share, or it fails and changes nothing.  A crash of the process ends    *)
(* the calls that are under way.                                           *)
(***************************************************************************)
EXTENDS PairStore

CONSTANT Threads

VARIABLES
    store,  \* the credentials
    call    \* the transaction each thread waits for, or its answer

vars == <<store, call>>

Idle == [at |-> "idle"]

Started(tx) == [at |-> "started", tx |-> tx]

Answered(ok, seen) == [at |-> "answered", ok |-> ok, seen |-> seen]

Init == store = EmptyStore /\ call = [t \in Threads |-> Idle]

Call(t, tx) ==
    /\ call[t].at # "started"
    /\ call' = [call EXCEPT ![t] = Started(tx)]
    /\ UNCHANGED store

Commit(t) ==
    /\ call[t].at = "started"
    /\ Allowed(call[t].tx, store)
    /\ store' = Outcome(call[t].tx, store)
    /\ call' = [call EXCEPT ![t] = Answered(TRUE, store')]

Fail(t) ==
    /\ call[t].at = "started"
    /\ call' = [call EXCEPT ![t] = Answered(FALSE, EmptyStore)]
    /\ UNCHANGED store

Crash == call' = [t \in Threads |-> Idle] /\ UNCHANGED store

Next ==
    \/ \E t \in Threads :
        \/ \E tx \in Transactions : Call(t, tx)
        \/ Commit(t)
        \/ Fail(t)
    \/ Crash

Spec == Init /\ [][Next]_vars
=============================================================================
