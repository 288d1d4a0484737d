------------------------ MODULE CredentialFile_proofs ------------------------
(***************************************************************************)
(* The credential file is well formed in every reachable state and its     *)
(* transactions are atomic, for any threads, origins, devices and pairs.   *)
(***************************************************************************)
EXTENDS CredentialFile, TLAPS

-----------------------------------------------------------------------------
(* What every allowed transaction of PairingStore keeps: a store of the    *)
(* right type that load accepts.                                           *)

LEMMA OutcomeIsStore ==
    ASSUME NEW store \in Store, NEW tx \in Transactions
    PROVE  Outcome(tx, store) \in Store
<1>1. CASE tx \in [do: {"load"}]
  BY <1>1 DEF Outcome
<1>2. CASE tx \in [do: {"replace_device"}, device: Device, clear: BOOLEAN]
  BY <1>2 DEF Outcome, ReplaceDevice, Store
<1>3. CASE tx \in [do: {"add_pair"}, pair: Pair]
  BY <1>3 DEF Outcome, AddPair, Store
<1>4. CASE tx \in [do: {"remove_pair"}, origin: Origins, id: PairIds]
  BY <1>4 DEF Outcome, RemovePair, Store
<1>5. CASE tx \in [do: {"update_session"}, origin: Origins, session: Sessions]
  BY <1>5 DEF Outcome, UpdateSession, Store, Device
<1> QED
  BY <1>1, <1>2, <1>3, <1>4, <1>5 DEF Transactions

LEMMA UpdateIsWellFormed ==
    ASSUME NEW store \in Store, WellFormed(store), NEW o, NEW session
    PROVE  WellFormed(UpdateSession(store, o, session))
<1> DEFINE new(d) == IF d.origin = o THEN [d EXCEPT !.session = session] ELSE d
           now == UpdateSession(store, o, session)
<1>1. now.devices = {new(d) : d \in store.devices} /\ now.pairs = store.pairs
  BY DEF UpdateSession, Store
<1>2. \A d \in store.devices : new(d).origin = d.origin /\ new(d).id = d.id
  BY DEF Store, Device
<1> HIDE DEF new, now
<1>3. \A d, e \in now.devices : d.origin = e.origin => d = e
  BY <1>1, <1>2 DEF WellFormed
<1>4. \A p \in now.pairs : KnownDevice(now, p)
  BY <1>1, <1>2 DEF WellFormed, KnownDevice
<1>5. WellFormed(now)
  BY <1>1, <1>3, <1>4 DEF WellFormed
<1> QED
  BY <1>5 DEF now

LEMMA OutcomeIsWellFormed ==
    ASSUME NEW store \in Store, NEW tx \in Transactions,
           WellFormed(store), Allowed(tx, store)
    PROVE  WellFormed(Outcome(tx, store))
<1>1. CASE tx \in [do: {"load"}]
  BY <1>1 DEF Outcome
<1>2. CASE tx \in [do: {"replace_device"}, device: Device, clear: BOOLEAN]
  BY <1>2 DEF Outcome, ReplaceDevice, Store, WellFormed, Allowed,
       MayReplaceDevice, PairsFor, DeviceFor, KnownDevice, Device, Pair
<1>3. CASE tx \in [do: {"add_pair"}, pair: Pair]
  BY <1>3 DEF Outcome, AddPair, Store, WellFormed, Allowed, KnownDevice, Pair, Device
<1>4. CASE tx \in [do: {"remove_pair"}, origin: Origins, id: PairIds]
  BY <1>4 DEF Outcome, RemovePair, Store, WellFormed, KnownDevice
<1>5. CASE tx \in [do: {"update_session"}, origin: Origins, session: Sessions]
  BY <1>5, UpdateIsWellFormed DEF Outcome
<1> QED
  BY <1>1, <1>2, <1>3, <1>4, <1>5 DEF Transactions

LEMMA EmptyIsWellFormed == EmptyStore \in Store /\ WellFormed(EmptyStore)
BY DEF EmptyStore, Store, WellFormed

-----------------------------------------------------------------------------
(* The lock is what keeps a transaction's view of the file true until it   *)
(* replaces the file.                                                      *)
Held ==
    \A t \in Threads : job[t].at \in {"load", "write", "replace"} => lock = t

SeenIsFile ==
    \A t \in Threads : job[t].at \in {"write", "replace"} =>
        job[t].seen = file /\ Allowed(job[t].tx, file)

IInv == TypeOK /\ FileIsWellFormed /\ Held /\ SeenIsFile /\ TempIsFresh

LEMMA JobTypes ==
    ASSUME TypeOK, NEW t \in Threads
    PROVE  /\ job[t].at \in {"idle", "lock", "load", "write", "replace", "answered"}
           /\ job[t].at \in {"lock", "load"} =>
                job[t] = [at |-> job[t].at, tx |-> job[t].tx] /\ job[t].tx \in Transactions
           /\ job[t].at \in {"write", "replace"} =>
                /\ job[t] = [at |-> job[t].at, tx |-> job[t].tx, seen |-> job[t].seen]
                /\ job[t].tx \in Transactions
                /\ job[t].seen \in Store
           /\ job[t].at = "answered" => job[t] = Answered(job[t].ok, job[t].seen)
           /\ job[t].at = "idle" => job[t] = Idle
BY DEF TypeOK, Job, Answered, Idle

LEMMA InitHolds == Init => IInv
BY EmptyIsWellFormed DEF Init, IInv, TypeOK, FileIsWellFormed, Held, SeenIsFile,
   TempIsFresh, Job, Idle

LEMMA TypeStep == TypeOK /\ [Next]_vars => TypeOK'
<1> SUFFICES ASSUME TypeOK, [Next]_vars PROVE TypeOK'
  OBVIOUS
<1>1. ASSUME NEW t \in Threads, NEW tx \in Transactions, Call(t, tx) PROVE TypeOK'
  BY <1>1 DEF Call, TypeOK, Job
<1>2. ASSUME NEW t \in Threads, Acquire(t) PROVE TypeOK'
  BY <1>2, JobTypes DEF Acquire, TypeOK, Job
<1>3. ASSUME NEW t \in Threads, Load(t) PROVE TypeOK'
  <2>1. job[t].tx \in Transactions /\ file \in Store
    BY <1>3, JobTypes DEF Load, TypeOK
  <2>2. /\ Answered(TRUE, file) \in Job
        /\ [at |-> "write", tx |-> job[t].tx, seen |-> file] \in Job
    BY <2>1 DEF Answered, Job
  <2>3. \/ job' = [job EXCEPT ![t] = Answered(TRUE, file)] /\ lock' = NoThread
        \/ /\ job' = [job EXCEPT ![t] = [at |-> "write", tx |-> job[t].tx, seen |-> file]]
           /\ lock' = lock
    BY <1>3 DEF Load, Leave
  <2>4. job' \in [Threads -> Job]
    BY <2>2, <2>3 DEF TypeOK
  <2> QED BY <1>3, <2>3, <2>4 DEF Load, TypeOK
<1>4. ASSUME NEW t \in Threads, Refuse(t) PROVE TypeOK'
  BY <1>4, EmptyIsWellFormed DEF Refuse, Leave, Answered, TypeOK, Job
<1>5. ASSUME NEW t \in Threads, Write(t) PROVE TypeOK'
  <2>1. job[t].tx \in Transactions /\ job[t].seen \in Store
    BY <1>5, JobTypes DEF Write
  <2>2. temp' \in Store
    BY <1>5, <2>1, OutcomeIsStore DEF Write
  <2>3. job'[t] = [at |-> "replace", tx |-> job[t].tx, seen |-> job[t].seen]
    BY <1>5, JobTypes DEF Write, TypeOK
  <2>4. job' \in [Threads -> Job]
    BY <1>5, <2>1, <2>3 DEF Write, TypeOK, Job
  <2> QED BY <1>5, <2>2, <2>4 DEF Write, TypeOK
<1>6. ASSUME NEW t \in Threads, Replace(t) PROVE TypeOK'
  <2>1. temp \in Store
    BY <1>6 DEF Replace, TypeOK
  <2>2. Answered(TRUE, temp) \in Job
    BY <2>1 DEF Answered, Job
  <2> QED BY <1>6, <2>1, <2>2 DEF Replace, Leave, TypeOK
<1>7. ASSUME NEW t \in Threads, SaveFails(t) PROVE TypeOK'
  BY <1>7, EmptyIsWellFormed DEF SaveFails, Leave, Answered, TypeOK, Job
<1>8. CASE Crash
  BY <1>8 DEF Crash, Idle, TypeOK, Job
<1>9. CASE UNCHANGED vars
  BY <1>9 DEF vars, TypeOK
<1> QED
  BY <1>1, <1>2, <1>3, <1>4, <1>5, <1>6, <1>7, <1>8, <1>9 DEF Next

(* A step of the thread that holds the lock: nobody else is inside.        *)
LEMMA Alone ==
    ASSUME IInv, NEW t \in Threads, job[t].at \in {"load", "write", "replace"},
           NEW u \in Threads, u # t
    PROVE  job[u].at \notin {"load", "write", "replace"}
BY DEF IInv, Held

LEMMA InvStep == IInv /\ [Next]_vars => IInv'
<1> SUFFICES ASSUME IInv, [Next]_vars PROVE IInv'
  OBVIOUS
<1>0. TypeOK /\ TypeOK'
  BY TypeStep DEF IInv
<1>1. ASSUME NEW t \in Threads, NEW tx \in Transactions, Call(t, tx) PROVE IInv'
  BY <1>0, <1>1 DEF Call, IInv, TypeOK, FileIsWellFormed, Held, SeenIsFile, TempIsFresh
<1>2. ASSUME NEW t \in Threads, Acquire(t) PROVE IInv'
  BY <1>0, <1>2, NobodyAssumption
     DEF Acquire, IInv, TypeOK, FileIsWellFormed, Held, SeenIsFile, TempIsFresh
<1>3. ASSUME NEW t \in Threads, Load(t) PROVE IInv'
  BY <1>0, <1>3, Alone
     DEF Load, Leave, Answered, IInv, TypeOK, FileIsWellFormed, Held, SeenIsFile, TempIsFresh
<1>4. ASSUME NEW t \in Threads, Refuse(t) PROVE IInv'
  BY <1>0, <1>4, Alone
     DEF Refuse, Leave, Answered, IInv, TypeOK, FileIsWellFormed, Held, SeenIsFile, TempIsFresh
<1>5. ASSUME NEW t \in Threads, Write(t) PROVE IInv'
  <2>1. job'[t] = [at |-> "replace", tx |-> job[t].tx, seen |-> job[t].seen]
    BY <1>5, <1>0, JobTypes DEF Write, TypeOK
  <2>2. \A u \in Threads : u # t => job'[u] = job[u]
    BY <1>5, <1>0 DEF Write, TypeOK
  <2>3. temp' = Outcome(job[t].tx, file) /\ lock' = t /\ file' = file
    BY <1>5 DEF Write, IInv, SeenIsFile, Held
  <2>4. FileIsWellFormed' /\ Held' /\ SeenIsFile'
    BY <1>5, <2>1, <2>2, <2>3 DEF Write, IInv, FileIsWellFormed, Held, SeenIsFile
  <2>5. TempIsFresh'
    BY <1>5, <2>1, <2>2, <2>3, Alone DEF Write, TempIsFresh
  <2> QED BY <1>0, <2>4, <2>5 DEF IInv
<1>6. ASSUME NEW t \in Threads, Replace(t) PROVE IInv'
  <2>1. file' = Outcome(job[t].tx, file) /\ Allowed(job[t].tx, file)
    BY <1>6 DEF Replace, IInv, TempIsFresh, SeenIsFile
  <2>2. job[t].tx \in Transactions /\ file \in Store
    BY <1>6, <1>0, JobTypes DEF Replace, TypeOK
  <2>3. FileIsWellFormed'
    BY <2>1, <2>2, OutcomeIsWellFormed DEF IInv, FileIsWellFormed
  <2>4. \A u \in Threads : job'[u].at \notin {"load", "write", "replace"}
    BY <1>6, <1>0, Alone DEF Replace, Leave, Answered, TypeOK
  <2> QED BY <1>0, <2>3, <2>4 DEF IInv, Held, SeenIsFile, TempIsFresh
<1>7. ASSUME NEW t \in Threads, SaveFails(t) PROVE IInv'
  <2>1. \A u \in Threads : job'[u].at \notin {"load", "write", "replace"}
    BY <1>7, <1>0, Alone DEF SaveFails, Leave, Answered, TypeOK
  <2> QED BY <1>0, <1>7, <2>1
        DEF SaveFails, IInv, FileIsWellFormed, Held, SeenIsFile, TempIsFresh
<1>8. CASE Crash
  BY <1>0, <1>8 DEF Crash, Idle, IInv, FileIsWellFormed, Held, SeenIsFile, TempIsFresh
<1>9. CASE UNCHANGED vars
  BY <1>9 DEF vars, IInv, TypeOK, FileIsWellFormed, Held, SeenIsFile, TempIsFresh
<1> QED
  BY <1>1, <1>2, <1>3, <1>4, <1>5, <1>6, <1>7, <1>8, <1>9 DEF Next

LEMMA Invariance == Spec => []IInv
BY InitHolds, InvStep, PTL DEF Spec

(* Every variable of the credential file's model keeps its type.           *)
THEOREM TypeCorrect == Spec => []TypeOK
BY Invariance, PTL DEF IInv

(* At every moment load would accept what the credential file holds.       *)
THEOREM WellFormedAlways == Spec => []FileIsWellFormed
BY Invariance, PTL DEF IInv

(* A temporary file about to be moved is the running transaction's outcome *)
(* on the file as it is at that moment.                                    *)
THEOREM FreshAlways == Spec => []TempIsFresh
BY Invariance, PTL DEF IInv

-----------------------------------------------------------------------------
LEMMA SameStore ==
    ASSUME NEW tx, NEW store
    PROVE  /\ Promised!Allowed(tx, store) <=> Allowed(tx, store)
           /\ Promised!Outcome(tx, store) = Outcome(tx, store)
BY DEF Promised!Allowed, Allowed, Promised!MayReplaceDevice, MayReplaceDevice,
   Promised!PairsFor, PairsFor, Promised!DeviceFor, DeviceFor, Promised!KnownDevice,
   KnownDevice, Promised!Outcome, Outcome, Promised!ReplaceDevice, ReplaceDevice,
   Promised!AddPair, AddPair, Promised!RemovePair, RemovePair,
   Promised!UpdateSession, UpdateSession

LEMMA SameTransactions == Promised!Transactions = Transactions
BY DEF Promised!Transactions, Transactions, Promised!Device, Device, Promised!Pair, Pair

(* Every step of the file is a step of the atomic store or a stutter.      *)
LEMMA StepSimulation == IInv /\ [Next]_vars => [Promised!Next]_(Promised!vars)
<1> DEFINE View == [t \in Threads |->
        CASE job[t].at \in {"lock", "load", "write", "replace"} ->
                [at |-> "started", tx |-> job[t].tx]
          [] OTHER -> job[t]]
<1> SUFFICES ASSUME IInv, [Next]_vars
             PROVE  Promised!Next \/ (file' = file /\ View' = View)
  BY DEF Promised!vars
<1>0. TypeOK /\ TypeOK'
  BY TypeStep DEF IInv
<1>1. ASSUME NEW t \in Threads, NEW tx \in Transactions, Call(t, tx)
      PROVE  Promised!Call(t, tx)
  <2>1. View[t].at # "started"
    BY <1>1 DEF Call
  <2>2. View' = [View EXCEPT ![t] = [at |-> "started", tx |-> tx]]
    BY <1>0, <1>1 DEF Call, TypeOK
  <2> QED BY <1>1, <2>1, <2>2 DEF Call, Promised!Call, Promised!Started
<1>2. ASSUME NEW t \in Threads, Acquire(t) PROVE file' = file /\ View' = View
  BY <1>0, <1>2 DEF Acquire, TypeOK
<1>A. ASSUME NEW t \in Threads, job[t].at \in {"load", "write", "replace"},
             Allowed(job[t].tx, file), file' = Outcome(job[t].tx, file),
             job' = [job EXCEPT ![t] = Answered(TRUE, file')]
      PROVE  Promised!Commit(t)
  <2>1. View[t] = [at |-> "started", tx |-> job[t].tx]
    BY <1>A
  <2>2. View' = [View EXCEPT ![t] = Answered(TRUE, file')]
    BY <1>0, <1>A DEF Answered, TypeOK
  <2> HIDE DEF View
  <2> QED BY <1>A, <2>1, <2>2, SameStore
          DEF Promised!Commit, Promised!Answered, Answered, View
<1>B. ASSUME NEW t \in Threads, job[t].at \in {"load", "write", "replace"}, file' = file,
             job' = [job EXCEPT ![t] = Answered(FALSE, EmptyStore)]
      PROVE  Promised!Fail(t)
  <2>1. View[t].at = "started"
    BY <1>B
  <2>2. View' = [View EXCEPT ![t] = Answered(FALSE, EmptyStore)]
    BY <1>0, <1>B DEF Answered, TypeOK
  <2> QED BY <1>B, <2>1, <2>2 DEF Promised!Fail, Promised!Answered, Answered,
             Promised!EmptyStore, EmptyStore
<1>3. ASSUME NEW t \in Threads, Load(t)
      PROVE  Promised!Commit(t) \/ (file' = file /\ View' = View)
  <2>1. \/ /\ Allowed(job[t].tx, file) /\ Outcome(job[t].tx, file) = file
           /\ job' = [job EXCEPT ![t] = Answered(TRUE, file)]
        \/ job' = [job EXCEPT ![t] = [at |-> "write", tx |-> job[t].tx, seen |-> file]]
    BY <1>3 DEF Load, Leave
  <2>2. CASE job' = [job EXCEPT ![t] = [at |-> "write", tx |-> job[t].tx, seen |-> file]]
    BY <1>0, <1>3, <2>2 DEF Load, TypeOK
  <2>3. CASE /\ Allowed(job[t].tx, file) /\ Outcome(job[t].tx, file) = file
             /\ job' = [job EXCEPT ![t] = Answered(TRUE, file)]
    <3>1. file' = file /\ job[t].at = "load"
      BY <1>3 DEF Load
    <3>2. /\ file' = Outcome(job[t].tx, file) /\ Allowed(job[t].tx, file)
          /\ job[t].at \in {"load", "write", "replace"}
          /\ job' = [job EXCEPT ![t] = Answered(TRUE, file')]
      BY <2>3, <3>1
    <3> HIDE DEF View
    <3> QED BY <1>A, <3>2
  <2> QED BY <2>1, <2>2, <2>3
<1>4. ASSUME NEW t \in Threads, Refuse(t) PROVE Promised!Fail(t)
  BY <1>4, <1>B DEF Refuse, Leave
<1>5. ASSUME NEW t \in Threads, Write(t) PROVE file' = file /\ View' = View
  BY <1>0, <1>5 DEF Write, TypeOK
<1>6. ASSUME NEW t \in Threads, Replace(t) PROVE Promised!Commit(t)
  <2>1. temp = Outcome(job[t].tx, file) /\ Allowed(job[t].tx, file)
    BY <1>6 DEF Replace, IInv, TempIsFresh, SeenIsFile
  <2>2. /\ file' = Outcome(job[t].tx, file)
        /\ job[t].at \in {"load", "write", "replace"}
        /\ job' = [job EXCEPT ![t] = Answered(TRUE, file')]
    BY <1>6, <2>1 DEF Replace, Leave
  <2> HIDE DEF View
  <2> QED BY <1>A, <2>1, <2>2
<1>7. ASSUME NEW t \in Threads, SaveFails(t) PROVE Promised!Fail(t)
  BY <1>7, <1>B DEF SaveFails, Leave
<1>8. CASE Crash
  <2>1. View' = [t \in Threads |-> Idle]
    BY <1>8 DEF Crash, Idle
  <2> QED BY <1>8, <2>1 DEF Crash, Promised!Crash, Promised!Idle, Idle, Promised!Next
<1>9. CASE UNCHANGED vars
  BY <1>9 DEF vars
<1> HIDE DEF View
<1> QED
  BY <1>1, <1>2, <1>3, <1>4, <1>5, <1>6, <1>7, <1>8, <1>9, SameTransactions
     DEF Next, Promised!Next

LEMMA InitSimulation == Init => Promised!Init
BY DEF Init, Promised!Init, Idle, Promised!Idle, EmptyStore, Promised!EmptyStore

(* The file, its lock and its temporary file implement the atomic store:   *)
(* no transaction is lost, none is applied twice and none is half done.    *)
THEOREM Atomic == Spec => AtomicTransactions
BY InitSimulation, StepSimulation, Invariance, PTL
   DEF Spec, AtomicTransactions, Promised!Spec
=============================================================================
