---------------------------- MODULE ReplayLedger ----------------------------
(***************************************************************************)
(* PersistentReplayGuard (bridge/replay.py): the SQLite ledger of accepted *)
(* message digests that every receiver process of one Windows user shares. *)
(*                                                                         *)
(* A call of remember() is split at the points where another process can   *)
(* run: the clock is read before the database is opened, the database may  *)
(* have to be published first, and BEGIN IMMEDIATE waits for the writer    *)
(* that holds the database.  From BEGIN to COMMIT nobody else can read or  *)
(* write, so the read, the pruning and the write are one step.             *)
(*                                                                         *)
(* A digest stands for (scope, message ID); its expiry is authenticated by *)
(* the envelope, so it is a function of the message.                       *)
(***************************************************************************)
EXTENDS Naturals, FiniteSets

CONSTANTS Process,     \* receiver processes (and threads) sharing the ledger
          Message,     \* scoped message IDs
          Expiry,      \* expires_at of each message
          MaxRecords,  \* MAX_REPLAY_RECORDS
          MaxAhead,    \* MESSAGE_TTL_SECONDS + MAX_CLOCK_SKEW_SECONDS
          MaxClock,    \* bound on the clock, for model checking
          NoProcess

ASSUME LedgerAssumption == /\ Expiry \in [Message -> Nat]
                           /\ MaxRecords \in Nat \ {0}
                           /\ MaxAhead \in Nat
                           /\ MaxClock \in Nat
                           /\ NoProcess \notin Process

VARIABLES
  clock,      \* time.time() of the PC, in seconds
  published,  \* the database file exists under its final name
  ledger,     \* the digests stored in it, one transaction's view
  writer,     \* the process between BEGIN IMMEDIATE and COMMIT/ROLLBACK
  pc,         \* where each process is in remember()
  item,       \* the message it was called for
  now,        \* current_time, as it read it
  uses,       \* observability: acceptances inside the replay window
  lateUses    \* observability: acceptances after the message expired

vars == <<clock, published, ledger, writer, pc, item, now, uses, lateUses>>
disk == <<published, ledger>>

Stage == {"idle", "timed", "building", "waiting", "open"}

TypeOK == /\ clock \in Nat
          /\ published \in BOOLEAN
          /\ ledger \in SUBSET Message
          /\ writer \in Process \cup {NoProcess}
          /\ pc \in [Process -> Stage]
          /\ item \in [Process -> Message]
          /\ now \in [Process -> Nat]
          /\ uses \in [Message -> Nat]
          /\ lateUses \in [Message -> Nat]

Init == /\ clock = 0
        /\ published = FALSE
        /\ ledger = {}
        /\ writer = NoProcess
        /\ pc = [p \in Process |-> "idle"]
        /\ item \in [Process -> Message]
        /\ now = [p \in Process |-> 0]
        /\ uses = [m \in Message |-> 0]
        /\ lateUses = [m \in Message |-> 0]
-----------------------------------------------------------------------------
\* Mutant: a record is pruned in the second in which it may still be presented.
LivePrunesEarly(t) == {m \in ledger : Expiry[m] > t}

\* The records a transaction that started with the time t keeps.
Live(t) == {m \in ledger : Expiry[m] >= t}

InBounds(m, t) == /\ Expiry[m] >= t
                  /\ Expiry[m] <= t + MaxAhead

Return(p) == pc' = [pc EXCEPT ![p] = "idle"]

Release(p) == /\ Return(p)
              /\ writer' = NoProcess
-----------------------------------------------------------------------------
\* remember() reads the clock and checks the record; an invalid one raises
\* before anything is touched.
Remember(p, m) ==
  /\ pc[p] = "idle"
  /\ InBounds(m, clock)
  /\ pc' = [pc EXCEPT ![p] = "timed"]
  /\ item' = [item EXCEPT ![p] = m]
  /\ now' = [now EXCEPT ![p] = clock]
  /\ UNCHANGED <<clock, disk, writer, uses, lateUses>>

\* _initialize_if_missing: nothing to do when the path exists, otherwise a
\* complete database is built aside.
FindLedger(p) ==
  /\ pc[p] = "timed"
  /\ pc' = [pc EXCEPT ![p] = IF published THEN "waiting" ELSE "building"]
  /\ UNCHANGED <<clock, disk, writer, item, now, uses, lateUses>>

\* Mutant: os.replace instead of os.link: the second process to start replaces
\* the winner's ledger by its own empty one.
PublishReplaces(p) ==
  /\ pc[p] = "building"
  /\ published' = TRUE
  /\ ledger' = {}
  /\ pc' = [pc EXCEPT ![p] = "waiting"]
  /\ UNCHANGED <<clock, writer, item, now, uses, lateUses>>

\* os.link publishes the candidate unless another process already did; then
\* the candidate is discarded and the winner's ledger is used.
Publish(p) ==
  /\ pc[p] = "building"
  /\ published' = TRUE
  /\ ledger' = IF published THEN ledger ELSE {}
  /\ pc' = [pc EXCEPT ![p] = "waiting"]
  /\ UNCHANGED <<clock, writer, item, now, uses, lateUses>>

Begin(p) ==
  /\ pc[p] = "waiting"
  /\ writer = NoProcess
  /\ writer' = p
  /\ pc' = [pc EXCEPT ![p] = "open"]
  /\ UNCHANGED <<clock, disk, item, now, uses, lateUses>>

\* sqlite3.connect(timeout=5) gives up on a database that stays locked.
LockTimeout(p) ==
  /\ pc[p] = "waiting"
  /\ writer # NoProcess
  /\ Return(p)
  /\ UNCHANGED <<clock, disk, writer, item, now, uses, lateUses>>

Count(m) ==
  IF clock <= Expiry[m]
  THEN uses' = [uses EXCEPT ![m] = @ + 1] /\ UNCHANGED lateUses
  ELSE lateUses' = [lateUses EXCEPT ![m] = @ + 1] /\ UNCHANGED uses

\* Mutant: the capacity is not checked.
CommitUnbounded(p) ==
  /\ pc[p] = "open"
  /\ item[p] \notin Live(now[p])
  /\ ledger' = Live(now[p]) \cup {item[p]}
  /\ Count(item[p])
  /\ Release(p)
  /\ UNCHANGED <<clock, published, item, now>>

\* Mutant: INSERT OR REPLACE, without asking whether the digest is there.
CommitReplaces(p) ==
  /\ pc[p] = "open"
  /\ Cardinality(Live(now[p])) < MaxRecords
  /\ ledger' = Live(now[p]) \cup {item[p]}
  /\ Count(item[p])
  /\ Release(p)
  /\ UNCHANGED <<clock, published, item, now>>

\* The digest is new and there is room: the pruned ledger and the new record
\* are written in one COMMIT, and remember() returns normally.
Commit(p) ==
  LET kept == Live(now[p])
      m == item[p]
  IN /\ pc[p] = "open"
     /\ m \notin kept
     /\ Cardinality(kept) < MaxRecords
     /\ ledger' = kept \cup {m}
     /\ Count(m)
     /\ Release(p)
     /\ UNCHANGED <<clock, published, item, now>>

\* Mutant: an exception leaves the transaction open.
RefuseNoRollback(p) ==
  /\ pc[p] = "open"
  /\ item[p] \in Live(now[p]) \/ Cardinality(Live(now[p])) >= MaxRecords
  /\ Return(p)
  /\ UNCHANGED <<clock, disk, writer, item, now, uses, lateUses>>

\* ReplayDetected, or "replay ledger is full": ROLLBACK.
Refuse(p) ==
  LET kept == Live(now[p])
  IN /\ pc[p] = "open"
     /\ item[p] \in kept \/ Cardinality(kept) >= MaxRecords
     /\ Release(p)
     /\ UNCHANGED <<clock, disk, item, now, uses, lateUses>>

\* A storage error, or the end of the process, at any point of the call.  An
\* open transaction is rolled back, by remember() or by SQLite's recovery.
Abort(p) ==
  /\ pc[p] # "idle"
  /\ Return(p)
  /\ writer' = IF writer = p THEN NoProcess ELSE writer
  /\ UNCHANGED <<clock, disk, item, now, uses, lateUses>>

Tick == /\ clock < MaxClock
        /\ clock' = clock + 1
        /\ UNCHANGED <<disk, writer, pc, item, now, uses, lateUses>>

Step(p) == \/ FindLedger(p) \/ Publish(p) \/ Begin(p) \/ LockTimeout(p)
           \/ Commit(p) \/ Refuse(p)

Next == \/ Tick
        \/ \E p \in Process : \/ \E m \in Message : Remember(p, m)
                              \/ Step(p)
                              \/ Abort(p)

Spec == Init /\ [][Next]_vars

\* A process that entered remember() keeps running until it returns; crashes,
\* callers and the clock owe nothing.
FairSpec == Spec /\ \A p \in Process : WF_vars(Step(p))
-----------------------------------------------------------------------------
\* A message is accepted at most once inside its replay window, whatever the
\* processes, restarts and storage errors around it (replay.py:100-114, and
\* protocol/threat-model-checklist.md:48).
AcceptedOnceInWindow == \A m \in Message : uses[m] <= 1

\* What makes it so: as long as an accepted message could be presented again
\* its record is on disk (pruning at replay.py:100 uses a clock that was read
\* earlier, never one that runs ahead).
AcceptedIsRemembered ==
  \A m \in Message : uses[m] > 0 /\ clock <= Expiry[m] => m \in ledger

\* The ledger never grows beyond MAX_REPLAY_RECORDS although the records of
\* a slow transaction are pruned with an old clock (replay.py:100-105).
LedgerBounded == TypeOK /\ Cardinality(ledger) <= MaxRecords

\* No step loses an unexpired record: neither a second first-start that
\* publishes its own empty database (replay.py:54-58) nor a writer's pruning.
UnexpiredNeverLost ==
  [][\A m \in ledger : m \notin ledger' => Expiry[m] < clock]_vars

\* Every call gives the database back, also when it refuses the message
\* (replay.py:115-117).
WriterReturns == \A p \in Process : writer = p ~> writer # p

\* "At most once", without the window: refuted by a caller whose clock
\* reading is older than another process's pruning.
AtMostOnce == \A m \in Message : uses[m] + lateUses[m] <= 1

\* The guard's promise, with the ledger hidden.
Guard == INSTANCE ReplayGuard
GuardSpec == Guard!Spec
=============================================================================
