--------------------------- MODULE CredentialFile ----------------------------
(***************************************************************************)
(* How PairingStore keeps that promise with a file: every transaction      *)
(* holds the lock that all stores of one path share, loads the file,       *)
(* writes what it computed to a temporary file and moves it over the       *)
(* credential file.  Its callers are the threads of the controller: the    *)
(* pairing thread, the receiver service and the removal of a phone.        *)
(***************************************************************************)
EXTENDS PairStore

CONSTANTS
    Threads,
    NoThread,   \* nobody holds the lock
    NoFile      \* the temporary file does not exist

VARIABLES
    file,   \* the credential file: what load would return
    temp,   \* .phone-to-pc.dat.<pid>.tmp of the running process
    lock,   \* _STORE_LOCKS[path]: its holder
    job     \* what each thread is doing in PairingStore

ASSUME NobodyAssumption == NoThread \notin Threads

vars == <<file, temp, lock, job>>

Job ==
    [at: {"idle"}]
    \cup [at: {"lock", "load"}, tx: Transactions]
    \cup [at: {"write", "replace"}, tx: Transactions, seen: Store]
    \cup [at: {"answered"}, ok: BOOLEAN, seen: Store]

TypeOK ==
    /\ file \in Store
    /\ temp \in Store \cup {NoFile}
    /\ lock \in Threads \cup {NoThread}
    /\ job \in [Threads -> Job]

Idle == [at |-> "idle"]

Answered(ok, seen) == [at |-> "answered", ok |-> ok, seen |-> seen]

Init ==
    /\ file = EmptyStore
    /\ temp = NoFile
    /\ lock = NoThread
    /\ job = [t \in Threads |-> Idle]

(* A thread calls PairingStore and waits for the lock of the path. *)
Call(t, tx) ==
    /\ job[t].at \in {"idle", "answered"}
    /\ job' = [job EXCEPT ![t] = [at |-> "lock", tx |-> tx]]
    /\ UNCHANGED <<file, temp, lock>>

Acquire(t) ==
    /\ job[t].at = "lock"
    /\ lock = NoThread
    /\ lock' = t
    /\ job' = [job EXCEPT ![t] = [at |-> "load", tx |-> job[t].tx]]
    /\ UNCHANGED <<file, temp>>

Leave(t, ok, seen) ==
    /\ lock' = NoThread
    /\ job' = [job EXCEPT ![t] = Answered(ok, seen)]

(* load: a missing file is an empty store; then the caller's own checks.   *)
(* A transaction that changes nothing does not save.                       *)
Load(t) ==
    /\ job[t].at = "load"
    /\ LET tx == job[t].tx IN
        \/ /\ Allowed(tx, file)
           /\ tx.do \in {"load", "remove_pair"}
           /\ Outcome(tx, file) = file
           /\ Leave(t, TRUE, file)
        \/ /\ Allowed(tx, file)
           /\ tx.do # "load"
           /\ tx.do = "remove_pair" => Outcome(tx, file) # file
           /\ job' = [job EXCEPT ![t] = [at |-> "write", tx |-> tx, seen |-> file]]
           /\ UNCHANGED lock
    /\ UNCHANGED <<file, temp>>

(* The caller's check refuses the transaction, or the file cannot be read  *)
(* or unprotected.                                                         *)
Refuse(t) ==
    /\ job[t].at = "load"
    /\ Leave(t, FALSE, EmptyStore)
    /\ UNCHANGED <<file, temp>>

(* Mutant: the new contents are written over the credential file. *)
WriteInPlace(t) ==
    /\ job[t].at = "write"
    /\ temp' = Outcome(job[t].tx, job[t].seen)
    /\ file' = [Outcome(job[t].tx, job[t].seen) EXCEPT !.pairs = {}]
    /\ job' = [job EXCEPT ![t].at = "replace"]
    /\ UNCHANGED lock

Write(t) ==
    /\ job[t].at = "write"
    /\ temp' = Outcome(job[t].tx, job[t].seen)
    /\ job' = [job EXCEPT ![t].at = "replace"]
    /\ UNCHANGED <<file, lock>>

(* os.replace: the only step that changes the credential file. *)
Replace(t) ==
    /\ job[t].at = "replace"
    /\ temp # NoFile
    /\ file' = temp
    /\ temp' = NoFile
    /\ Leave(t, TRUE, temp)

(* write_bytes or os.replace raises: the temporary file is removed. *)
SaveFails(t) ==
    /\ job[t].at \in {"write", "replace"}
    /\ temp' = NoFile
    /\ Leave(t, FALSE, EmptyStore)
    /\ UNCHANGED file

(* The process dies; its temporary file stays under its own name, which    *)
(* the next process does not use.                                          *)
Crash ==
    /\ job' = [t \in Threads |-> Idle]
    /\ lock' = NoThread
    /\ temp' = NoFile
    /\ UNCHANGED file

Next ==
    \/ \E t \in Threads :
        \/ \E tx \in Transactions : Call(t, tx)
        \/ Acquire(t)
        \/ Load(t)
        \/ Refuse(t)
        \/ Write(t)
        \/ Replace(t)
        \/ SaveFails(t)
    \/ Crash

Spec == Init /\ [][Next]_vars

-----------------------------------------------------------------------------
(* The credential file always holds something load accepts: whatever the   *)
(* threads do and wherever the process dies, no pair is left without its   *)
(* device, and no origin has two devices.                                  *)
FileIsWellFormed == WellFormed(file)

(* The temporary file belongs to the thread that holds the lock and is     *)
(* what its transaction makes of the file as it is now: two threads of one *)
(* process share its name.                                                 *)
TempIsFresh ==
    \A t \in Threads : job[t].at = "replace" =>
        /\ lock = t
        /\ temp = Outcome(job[t].tx, file)

(* The threads' calls are the atomic calls of CredentialStore: no thread   *)
(* overwrites what another one saved, and a call that failed left nothing. *)
Promised == INSTANCE CredentialStore WITH
    store <- file,
    call <- [t \in Threads |->
        CASE job[t].at \in {"lock", "load", "write", "replace"} ->
                [at |-> "started", tx |-> job[t].tx]
          [] OTHER -> job[t]]

AtomicTransactions == Promised!Spec
=============================================================================
