------------------------ MODULE ReplayLedger_proofs ------------------------
(***************************************************************************)
(* Theorems about the persistent replay ledger, for any number of          *)
(* processes and messages, any expiries and any capacity.                  *)
(***************************************************************************)
EXTENDS ReplayLedger, FiniteSetTheorems, TLAPS

LEMMA TypeInit == Init => TypeOK
<1> SUFFICES ASSUME Init PROVE TypeOK
  OBVIOUS
<1>1. clock \in Nat /\ ledger \in SUBSET Message
  BY DEF Init
<1>2. published \in BOOLEAN
  BY DEF Init
<1>3. writer \in Process \cup {NoProcess}
  BY DEF Init
<1>4. pc \in [Process -> Stage] /\ now \in [Process -> Nat]
  BY DEF Init, Stage
<1>5. uses \in [Message -> Nat] /\ lateUses \in [Message -> Nat]
  BY DEF Init
<1> QED
  BY <1>1, <1>2, <1>3, <1>4, <1>5 DEF Init, TypeOK

\* The ledger has the shape its type says in every reachable state.
THEOREM TypeCorrect == Spec => []TypeOK
<1>1. Init => TypeOK
  BY TypeInit
<1>2. TypeOK /\ [Next]_vars => TypeOK'
  <2> SUFFICES ASSUME TypeOK, [Next]_vars PROVE TypeOK'
    OBVIOUS
  <2> USE LedgerAssumption DEF TypeOK, Stage, disk
  <2>1. CASE Tick
    BY <2>1 DEF Tick
  <2>2. ASSUME NEW p \in Process, NEW m \in Message, Remember(p, m)
        PROVE  TypeOK'
    BY <2>2 DEF Remember
  <2>3. ASSUME NEW p \in Process, FindLedger(p) PROVE TypeOK'
    BY <2>3 DEF FindLedger
  <2>4. ASSUME NEW p \in Process, Publish(p) PROVE TypeOK'
    BY <2>4 DEF Publish
  <2>5. ASSUME NEW p \in Process, Begin(p) PROVE TypeOK'
    BY <2>5 DEF Begin
  <2>6. ASSUME NEW p \in Process, LockTimeout(p) PROVE TypeOK'
    BY <2>6 DEF LockTimeout, Return
  <2>7. ASSUME NEW p \in Process, Commit(p) PROVE TypeOK'
    <3>1. ledger' \in SUBSET Message
      BY <2>7 DEF Commit, Count, Live
    <3>2. uses' \in [Message -> Nat] /\ lateUses' \in [Message -> Nat]
      BY <2>7 DEF Commit, Count
    <3>3. pc' \in [Process -> Stage] /\ writer' \in Process \cup {NoProcess}
      BY <2>7 DEF Commit, Count, Release, Return
    <3> QED
      BY <2>7, <3>1, <3>2, <3>3 DEF Commit, Count
  <2>8. ASSUME NEW p \in Process, Refuse(p) PROVE TypeOK'
    BY <2>8 DEF Refuse, Release, Return
  <2>9. ASSUME NEW p \in Process, Abort(p) PROVE TypeOK'
    BY <2>9 DEF Abort, Return
  <2>10. CASE UNCHANGED vars
    BY <2>10 DEF vars
  <2> QED
    BY <2>1, <2>2, <2>3, <2>4, <2>5, <2>6, <2>7, <2>8, <2>9, <2>10
       DEF Next, Step
<1> QED
  BY <1>1, <1>2, PTL DEF Spec
-----------------------------------------------------------------------------
(***************************************************************************)
(* The inductive invariant.  A captured clock never runs ahead of the      *)
(* clock, so pruning with it keeps every record that can still matter; and *)
(* before the database is published nothing was ever accepted, so          *)
(* publishing it loses nothing.                                            *)
(***************************************************************************)
ClocksBehind == \A p \in Process : now[p] <= clock

NothingBeforePublish ==
  ~published => /\ ledger = {}
                /\ \A p \in Process : pc[p] \notin {"waiting", "open"}

IInv == /\ TypeOK
        /\ ClocksBehind
        /\ NothingBeforePublish
        /\ AcceptedIsRemembered
        /\ AcceptedOnceInWindow

LEMMA IInvInit == Init => IInv
<1> SUFFICES ASSUME Init PROVE IInv
  OBVIOUS
<1>1. ClocksBehind /\ NothingBeforePublish
  BY DEF Init, ClocksBehind, NothingBeforePublish
<1>2. AcceptedIsRemembered /\ AcceptedOnceInWindow
  BY DEF Init, AcceptedIsRemembered, AcceptedOnceInWindow
<1> QED
  BY <1>1, <1>2, TypeInit DEF IInv

\* The step that matters: a commit adds its record, keeps the unexpired ones,
\* and accepts a message inside its window only if it was never accepted.
LEMMA CommitKeepsIInv ==
  ASSUME NEW p \in Process, IInv, TypeOK', Commit(p)
  PROVE  IInv'
<1> USE LedgerAssumption DEF IInv, TypeOK
<1> DEFINE m == item[p]
<1>1. m \in Message /\ now[p] \in Nat /\ now[p] <= clock /\ clock \in Nat
  BY DEF ClocksBehind
<1>2. m \notin Live(now[p]) /\ ledger' = Live(now[p]) \cup {m}
  BY DEF Commit, Count
<1>3. ClocksBehind'
  BY DEF Commit, Count, ClocksBehind
<1>4. published /\ published'
  BY DEF Commit, Count, NothingBeforePublish
<1>5. ASSUME NEW x \in ledger, clock <= Expiry[x] PROVE x \in ledger'
  BY <1>1, <1>2, <1>5 DEF Live
<1>6. ASSUME clock <= Expiry[m] PROVE uses[m] = 0
  <2>1. m \notin ledger
    BY <1>1, <1>2, <1>6 DEF Live
  <2> QED
    BY <1>1, <1>6, <2>1 DEF AcceptedIsRemembered
<1>7. AcceptedIsRemembered'
  <2> SUFFICES ASSUME NEW x \in Message, uses'[x] > 0, clock' <= Expiry[x]
               PROVE  x \in ledger'
    BY DEF AcceptedIsRemembered
  <2>1. CASE x = m
    BY <1>2, <2>1
  <2>2. CASE x # m
    <3>1. uses[x] > 0 /\ clock <= Expiry[x]
      BY <2>2 DEF Commit, Count
    <3> QED
      BY <1>5, <3>1 DEF AcceptedIsRemembered
  <2> QED
    BY <2>1, <2>2
<1>8. AcceptedOnceInWindow'
  <2>1. CASE clock <= Expiry[m]
    BY <1>1, <1>6, <2>1 DEF Commit, Count, AcceptedOnceInWindow
  <2>2. CASE ~(clock <= Expiry[m])
    BY <2>2 DEF Commit, Count, AcceptedOnceInWindow
  <2> QED
    BY <2>1, <2>2
<1> QED
  BY <1>3, <1>4, <1>7, <1>8 DEF NothingBeforePublish

LEMMA IInvNext == IInv /\ TypeOK' /\ [Next]_vars => IInv'
<1> SUFFICES ASSUME IInv, TypeOK', [Next]_vars PROVE IInv'
  OBVIOUS
<1> USE LedgerAssumption DEF IInv, TypeOK, disk
<1> DEFINE Rest == /\ ClocksBehind'
                   /\ NothingBeforePublish'
                   /\ AcceptedIsRemembered'
                   /\ AcceptedOnceInWindow'
<1>1. CASE Tick
  BY <1>1 DEF Tick, ClocksBehind, NothingBeforePublish,
              AcceptedIsRemembered, AcceptedOnceInWindow
<1>2. ASSUME NEW p \in Process, NEW m \in Message, Remember(p, m)
      PROVE  Rest
  BY <1>2 DEF Remember, ClocksBehind, NothingBeforePublish,
              AcceptedIsRemembered, AcceptedOnceInWindow
<1>3. ASSUME NEW p \in Process, FindLedger(p) PROVE Rest
  BY <1>3 DEF FindLedger, ClocksBehind, NothingBeforePublish,
              AcceptedIsRemembered, AcceptedOnceInWindow
<1>4. ASSUME NEW p \in Process, Publish(p) PROVE Rest
  BY <1>4 DEF Publish, ClocksBehind, NothingBeforePublish,
              AcceptedIsRemembered, AcceptedOnceInWindow
<1>5. ASSUME NEW p \in Process, Begin(p) PROVE Rest
  BY <1>5 DEF Begin, ClocksBehind, NothingBeforePublish,
              AcceptedIsRemembered, AcceptedOnceInWindow
<1>6. ASSUME NEW p \in Process, LockTimeout(p) PROVE Rest
  BY <1>6 DEF LockTimeout, Return, ClocksBehind, NothingBeforePublish,
              AcceptedIsRemembered, AcceptedOnceInWindow
<1>7. ASSUME NEW p \in Process, Commit(p) PROVE IInv'
  BY <1>7, CommitKeepsIInv
<1>8. ASSUME NEW p \in Process, Refuse(p) PROVE Rest
  BY <1>8 DEF Refuse, Release, Return, ClocksBehind, NothingBeforePublish,
              AcceptedIsRemembered, AcceptedOnceInWindow
<1>9. ASSUME NEW p \in Process, Abort(p) PROVE Rest
  BY <1>9 DEF Abort, Return, ClocksBehind, NothingBeforePublish,
              AcceptedIsRemembered, AcceptedOnceInWindow
<1>10. CASE UNCHANGED vars
  BY <1>10 DEF vars, ClocksBehind, NothingBeforePublish,
               AcceptedIsRemembered, AcceptedOnceInWindow
<1> QED
  BY <1>1, <1>2, <1>3, <1>4, <1>5, <1>6, <1>7, <1>8, <1>9, <1>10
     DEF Next, Step

LEMMA Inductive == Spec => []IInv
<1>1. Spec => []TypeOK
  BY TypeCorrect
<1> QED
  BY <1>1, IInvInit, IInvNext, PTL DEF Spec
-----------------------------------------------------------------------------
\* Inside its replay window no message is accepted twice (replay.py:100-114).
THEOREM AcceptedOnce == Spec => []AcceptedOnceInWindow
<1>1. IInv => AcceptedOnceInWindow
  BY DEF IInv
<1> QED
  BY <1>1, Inductive, PTL

\* An accepted message stays on record for as long as it could be presented
\* again: a restart, a second process or a storage error forgets nothing.
THEOREM AcceptedRemembered == Spec => []AcceptedIsRemembered
<1>1. IInv => AcceptedIsRemembered
  BY DEF IInv
<1> QED
  BY <1>1, Inductive, PTL

\* No step, publishing the database included, loses an unexpired record.
THEOREM NeverLost == Spec => UnexpiredNeverLost
<1> DEFINE Kept == \A m \in ledger : m \notin ledger' => Expiry[m] < clock
<1>1. IInv /\ [Next]_vars => [Kept]_vars
  <2> SUFFICES ASSUME IInv, [Next]_vars PROVE Kept \/ UNCHANGED vars
    OBVIOUS
  <2> USE LedgerAssumption DEF IInv, TypeOK
  <2>1. ASSUME NEW p \in Process, Publish(p) PROVE Kept
    BY <2>1 DEF Publish, NothingBeforePublish
  <2>2. ASSUME NEW p \in Process, Commit(p) PROVE Kept
    <3> SUFFICES ASSUME NEW m \in ledger, m \notin ledger'
                 PROVE  Expiry[m] < clock
      OBVIOUS
    <3>1. ~(Expiry[m] >= now[p])
      BY <2>2 DEF Commit, Count, Live
    <3>2. /\ Expiry[m] \in Nat /\ now[p] \in Nat /\ clock \in Nat
          /\ now[p] <= clock
      BY DEF ClocksBehind
    <3> QED
      BY <3>1, <3>2
  <2>3. ASSUME NEW p \in Process,
               \/ \E m \in Message : Remember(p, m)
               \/ FindLedger(p) \/ Begin(p) \/ LockTimeout(p)
               \/ Refuse(p) \/ Abort(p)
        PROVE  Kept
    BY <2>3 DEF Remember, FindLedger, Begin, LockTimeout, Refuse, Abort, disk
  <2>4. CASE Tick
    BY <2>4 DEF Tick, disk
  <2> QED
    BY <2>1, <2>2, <2>3, <2>4 DEF Next, Step
<1> QED
  BY <1>1, Inductive, PTL DEF Spec, UnexpiredNeverLost

\* The ledger never holds more than MAX_REPLAY_RECORDS records.
THEOREM Bounded == Spec => []LedgerBounded
<1> DEFINE Fits == IsFiniteSet(ledger) /\ Cardinality(ledger) <= MaxRecords
<1> USE LedgerAssumption
<1>1. Init => Fits
  BY FS_EmptySet DEF Init
<1>2. Fits /\ [Next]_vars => Fits'
  <2> SUFFICES ASSUME Fits, [Next]_vars PROVE Fits'
    OBVIOUS
  <2>1. ASSUME NEW p \in Process, Publish(p) PROVE Fits'
    BY <2>1, FS_EmptySet DEF Publish
  <2>2. ASSUME NEW p \in Process, Commit(p) PROVE Fits'
    <3> DEFINE kept == Live(now[p])
    <3>1. kept \subseteq ledger
      BY DEF Live
    <3>2. IsFiniteSet(kept) /\ Cardinality(kept) \in Nat
      BY <3>1, FS_Subset, FS_CardinalityType
    <3>3. /\ Cardinality(kept) < MaxRecords
          /\ ledger' = kept \cup {item[p]}
          /\ item[p] \notin kept
      BY <2>2 DEF Commit, Count
    <3>4. /\ IsFiniteSet(kept \cup {item[p]})
          /\ Cardinality(kept \cup {item[p]}) = Cardinality(kept) + 1
      BY <3>2, <3>3, FS_AddElement
    <3> QED
      BY <3>2, <3>3, <3>4
  <2>3. CASE UNCHANGED ledger
    BY <2>3
  <2> QED
    BY <2>1, <2>2, <2>3
       DEF Next, Step, Tick, Remember, FindLedger, Begin, LockTimeout,
           Refuse, Abort, disk, vars
<1>3. TypeOK /\ Fits => LedgerBounded
  BY DEF LedgerBounded
<1> QED
  BY <1>1, <1>2, <1>3, TypeCorrect, PTL DEF Spec

\* The ledger implements the guard's promise: a commit inside the window is an
\* acceptance of a message never accepted before, everything else but the
\* clock is invisible.
THEOREM ImplementsGuard == Spec => GuardSpec
<1> USE LedgerAssumption
<1>1. Init => Guard!Init
  BY DEF Init, Guard!Init
<1>2. IInv /\ [Next]_vars => [Guard!Next]_(Guard!guardVars)
  <2> SUFFICES ASSUME IInv, [Next]_vars
               PROVE  Guard!Next \/ UNCHANGED Guard!guardVars
    OBVIOUS
  <2> USE DEF IInv, TypeOK, Guard!Next, Guard!guardVars
  <2>1. CASE Tick
    BY <2>1 DEF Tick, Guard!Advance
  <2>2. ASSUME NEW p \in Process, Commit(p)
        PROVE  Guard!Next \/ UNCHANGED Guard!guardVars
    <3> DEFINE m == item[p]
    <3>1. m \in Message /\ now[p] \in Nat /\ now[p] <= clock /\ clock \in Nat
      BY DEF ClocksBehind
    <3>2. CASE clock <= Expiry[m]
      <4>1. m \notin ledger
        BY <2>2, <3>1, <3>2 DEF Commit, Count, Live
      <4>2. uses[m] = 0
        BY <3>1, <3>2, <4>1 DEF AcceptedIsRemembered
      <4>3. Guard!Accept(m)
        BY <2>2, <3>1, <3>2, <4>2 DEF Commit, Count, Guard!Accept
      <4> QED
        BY <3>1, <4>3
    <3>3. CASE ~(clock <= Expiry[m])
      BY <2>2, <3>3 DEF Commit, Count
    <3> QED
      BY <3>2, <3>3
  <2>3. CASE UNCHANGED <<clock, uses>>
    BY <2>3
  <2> QED
    BY <2>1, <2>2, <2>3
       DEF Next, Step, Remember, FindLedger, Publish, Begin, LockTimeout,
           Refuse, Abort, vars
<1> QED
  BY <1>1, <1>2, Inductive, PTL DEF Spec, GuardSpec, Guard!Spec
=============================================================================
