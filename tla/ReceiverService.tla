--------------------------- MODULE ReceiverService ---------------------------
(***************************************************************************)
(* The background service that keeps one receiver for each relay origin    *)
(* (receiver_service.py).  Its loop clears the refresh event, loads the    *)
(* credential file, runs a task for each device that has phones, and       *)
(* cancels them all when somebody asks for a refresh.  Around it act the   *)
(* pairing thread and the removal of a phone, which change the file and    *)
(* ask for a refresh afterwards, and the threads that a cancelled task     *)
(* leaves behind: a question to the user, a session about to be stored.    *)
(***************************************************************************)
EXTENDS PairStore, Naturals, FiniteSets

CONSTANTS
    NoGroup,        \* no task runs for the origin
    MaxRotations,   \* bound: refreshes of a Realtime session
    Bounds          \* a behaviour's bounds: the origins that phones are paired
                    \* at, pairings and removals, questions, refreshes,
                    \* and the origins whose reports may fail to be written

(* A session belongs to the anonymous user its device was registered by;   *)
(* its number counts the refreshes.                                        *)
ASSUME SessionAssumption ==
    /\ MaxRotations \in Nat
    /\ Sessions = [user: DeviceIds, number: 0..MaxRotations]
    /\ Bounds \subseteq [origins: SUBSET Origins, changes: Nat, questions: Nat,
                         rotations: 0..MaxRotations, unwritable: SUBSET Origins]

VARIABLES
    bound,      \* the bounds of this behaviour
    store,      \* the credential file (CredentialStore)
    refresh,    \* _refresh_event
    stop,       \* _stop_event
    loop,       \* the place of _run
    groups,     \* the task of each origin
    questions,  \* threads in _handle_url
    writes,     \* threads in update_realtime_session
    status,     \* receiver-status.json: the origins recorded as reachable
    unwritten,  \* the origins whose last report could not be written
    tray,       \* what the pairing thread or a removal still has to do
    known,      \* pairs the user was told are paired
    gone,       \* pairs the user was told are removed
    changes     \* number of changes so far

vars == <<bound, store, refresh, stop, loop, groups, questions, writes, status,
          unwritten, tray, known, gone, changes>>

Group == [device: Device, pairs: SUBSET Pair, session: Sessions,
          at: {"start", "connected", "asking", "storing", "delay"}]

ASSUME GroupAssumption == NoGroup \notin Group

TypeOK ==
    /\ store \in Store
    /\ refresh \in BOOLEAN /\ stop \in BOOLEAN
    /\ loop \in {"clear", "load", "retry", "run", "ended"}
    /\ groups \in [Origins -> Group \cup {NoGroup}]
    /\ \A q \in questions : q.pair \in PairIds /\ q.at \in {"waiting", "shown"}
    /\ \A w \in writes : w.origin \in Origins /\ w.session \in Sessions
    /\ status \subseteq Origins /\ unwritten \subseteq Origins
    /\ known \subseteq PairIds /\ gone \subseteq PairIds
    /\ changes \in 0..bound.changes

FirstSession(d) == [user |-> d, number |-> 0]

Init ==
    /\ bound \in Bounds
    /\ store = EmptyStore
    /\ refresh = TRUE /\ stop = FALSE
    /\ loop = "clear"
    /\ groups = [o \in Origins |-> NoGroup]
    /\ questions = {} /\ writes = {} /\ status = {} /\ unwritten = {}
    /\ tray = [do |-> "nothing"]
    /\ known = {} /\ gone = {} /\ changes = 0

StoredIds == {p.id : p \in store.pairs}

(* record_connection for the origins that become reachable or unreachable: *)
(* an error of the write is swallowed by its callers and leaves the file   *)
(* as it was; a file that cannot be read is written anew without the       *)
(* records of the others.                                                  *)
Record(up, down) ==
    \E failed \in SUBSET ((up \cup down) \cap bound.unwritable), forgotten \in {{}, status} :
        /\ failed = up \cup down => forgotten = {}
        /\ status' = (status \ (forgotten \cup (down \ failed))) \cup (up \ failed)
        /\ unwritten' = (unwritten \ (up \cup down)) \cup failed

-----------------------------------------------------------------------------
(* The controller's other threads.  One pairing or removal is modelled at  *)
(* a time: the tray does not start a second pairing, and the credential    *)
(* file makes every change atomic.                                         *)

Unused(d) == \A e \in store.devices : e.id # d

(* _register_device: the first device of an origin, or a new one because   *)
(* the relay did not accept the old one, whose pairs are cleared.          *)
Register(o, d) ==
    /\ tray.do = "nothing" /\ changes < bound.changes
    /\ Unused(d) /\ \A w \in writes : w.session.user # d
    /\ \A g \in {groups[x] : x \in Origins} : g # NoGroup => g.device.id # d
    /\ changes' = changes + 1
    /\ store' = ReplaceDevice(store, [origin |-> o, id |-> d, session |-> FirstSession(d)], TRUE)
    /\ known' = known \ {p.id : p \in PairsFor(store, o)}
    /\ tray' = [do |-> "pair", origin |-> o, device |-> d]
    /\ UNCHANGED <<refresh, stop, loop, groups, questions, writes, status, unwritten,
                   gone>>

StartPairing(o) ==
    /\ tray.do = "nothing" /\ changes < bound.changes
    /\ changes' = changes + 1
    /\ \E d \in DeviceFor(store, o) : tray' = [do |-> "pair", origin |-> o, device |-> d.id]
    /\ UNCHANGED <<store, refresh, stop, loop, groups, questions, writes, status,
                   unwritten, known, gone>>

(* persist_receiver; the pairing may still fail before it is announced.    *)
Persist(id) ==
    LET pair == [origin |-> tray.origin, device |-> tray.device, id |-> id] IN
    /\ tray.do = "pair"
    /\ id \notin StoredIds \cup gone
    /\ KnownDevice(store, pair)
    /\ store' = AddPair(store, pair)
    /\ tray' \in {[do |-> "announce", id |-> id], [do |-> "nothing"]}
    /\ UNCHANGED <<refresh, stop, loop, groups, questions, writes, status, unwritten,
                   known, gone, changes>>

AbandonPairing ==
    /\ tray.do = "pair"
    /\ tray' = [do |-> "nothing"]
    /\ UNCHANGED <<store, refresh, stop, loop, groups, questions, writes, status,
                   unwritten, known, gone, changes>>

(* _run_pairing: the receiver is told, then the user. *)
Announce ==
    /\ tray.do = "announce"
    /\ refresh' = TRUE
    /\ known' = known \cup {tray.id}
    /\ tray' = [do |-> "nothing"]
    /\ UNCHANGED <<store, stop, loop, groups, questions, writes, status, unwritten,
                   gone, changes>>

(* remove_pair or forget_local_pair, after the relay revoked the pair.     *)
Remove(p) ==
    /\ tray.do = "nothing" /\ changes < bound.changes
    /\ p \in store.pairs
    /\ changes' = changes + 1
    /\ store' = RemovePair(store, p.origin, p.id)
    /\ known' = known \ {p.id}
    /\ tray' = [do |-> "removed", id |-> p.id]
    /\ UNCHANGED <<refresh, stop, loop, groups, questions, writes, status, unwritten,
                   gone>>

(* Mutant: the receiver is not told of a removal. *)
AnnounceToUserOnly ==
    /\ tray.do = "removed"
    /\ gone' = gone \cup {tray.id}
    /\ tray' = [do |-> "nothing"]
    /\ UNCHANGED <<store, refresh, stop, loop, groups, questions, writes, status,
                   unwritten, known, changes>>

AnnounceRemoval ==
    /\ tray.do = "removed"
    /\ refresh' = TRUE
    /\ gone' = gone \cup {tray.id}
    /\ tray' = [do |-> "nothing"]
    /\ UNCHANGED <<store, stop, loop, groups, questions, writes, status, unwritten,
                   known, changes>>

Stop ==
    /\ ~stop
    /\ stop' = TRUE /\ refresh' = TRUE
    /\ UNCHANGED <<store, loop, groups, questions, writes, status, unwritten, tray,
                   known, gone, changes>>

-----------------------------------------------------------------------------
(* The loop of the service. *)

ClearRefresh ==
    /\ loop = "clear"
    /\ loop' = IF stop THEN "ended" ELSE "load"
    /\ refresh' = IF stop THEN refresh ELSE FALSE
    /\ UNCHANGED <<store, stop, groups, questions, writes, status, unwritten, tray,
                   known, gone, changes>>

(* receiver_groups: the devices that have phones, each with its session.   *)
GroupsOf(s) ==
    [o \in Origins |->
        IF PairsFor(s, o) = {} THEN NoGroup
        ELSE LET d == CHOOSE e \in DeviceFor(s, o) : TRUE IN
             [device |-> d, pairs |-> {p \in PairsFor(s, o) : p.device = d.id},
              session |-> d.session, at |-> "start"]]

Load ==
    /\ loop = "load"
    /\ groups' = GroupsOf(store)
    /\ Record({}, {o \in Origins : groups'[o] # NoGroup})
    /\ loop' = "run"
    /\ UNCHANGED <<store, refresh, stop, questions, writes, tray, known, gone, changes>>

(* SecureStorageError: the next try is five seconds or a refresh away.     *)
LoadFails ==
    /\ loop = "load" /\ loop' = "retry"
    /\ UNCHANGED <<store, refresh, stop, groups, questions, writes, status, unwritten,
                   tray, known, gone, changes>>

(* Mutant: the next try waits for a refresh. *)
RetryOnRefresh ==
    /\ loop = "retry" /\ (refresh \/ stop) /\ loop' = "clear"
    /\ UNCHANGED <<store, refresh, stop, groups, questions, writes, status, unwritten,
                   tray, known, gone, changes>>

Retry ==
    /\ loop = "retry" /\ loop' = "clear"
    /\ UNCHANGED <<store, refresh, stop, groups, questions, writes, status, unwritten,
                   tray, known, gone, changes>>

CancelTasks ==
    /\ loop = "run" /\ (stop \/ refresh)
    /\ groups' = [o \in Origins |-> NoGroup]
    /\ questions' = {[q EXCEPT !.task = FALSE] : q \in questions}
    /\ writes' = {[w EXCEPT !.task = FALSE] : w \in writes}
    /\ loop' = "clear"
    /\ UNCHANGED <<store, refresh, stop, tray, known, gone, changes>>

(* Mutant: a receiver that is cancelled does not report its end. *)
CancelGroupsSilently == CancelTasks /\ UNCHANGED <<status, unwritten>>

RunsAt(places) == {o \in Origins : groups[o] # NoGroup /\ groups[o].at \in places}

(* The tasks are cancelled and awaited; each receiver reports its end, one *)
(* between two receivers has done so, and one that had not begun does not. *)
(* The threads they wait for run on.                                       *)
CancelGroups ==
    /\ CancelTasks
    /\ \E begun \in SUBSET RunsAt({"start"}) :
           Record({}, begun \cup RunsAt({"connected", "asking", "storing"}))

-----------------------------------------------------------------------------
(* The task of one origin. *)

Connect(o) ==
    /\ groups[o] # NoGroup /\ groups[o].at = "start"
    /\ groups' = [groups EXCEPT ![o].at = "connected"]
    /\ Record({o}, {})
    /\ UNCHANGED <<store, refresh, stop, loop, questions, writes, tray, known, gone, changes>>

(* A receiver ends with an error; a new one starts after a delay.          *)
Break(o) ==
    /\ groups[o] # NoGroup /\ groups[o].at \in {"start", "connected"}
    /\ groups' = [groups EXCEPT ![o].at = "delay"]
    /\ Record({}, {o})
    /\ UNCHANGED <<store, refresh, stop, loop, questions, writes, tray, known, gone, changes>>

Reconnect(o) ==
    /\ groups[o] # NoGroup /\ groups[o].at = "delay" /\ ~refresh /\ ~stop
    /\ groups' = [groups EXCEPT ![o].at = "start"]
    /\ UNCHANGED <<store, refresh, stop, loop, questions, writes, status, unwritten,
                   tray, known, gone, changes>>

(* A message was acknowledged; its question waits in a thread and the task *)
(* waits for the thread.                                                   *)
Receive(o, n, p) ==
    /\ groups[o] # NoGroup /\ groups[o].at = "connected"
    /\ p \in groups[o].pairs
    /\ \A q \in questions : q.n # n
    /\ questions' = questions \cup
            {[n |-> n, origin |-> o, pair |-> p.id, at |-> "waiting", task |-> TRUE]}
    /\ groups' = [groups EXCEPT ![o].at = "asking"]
    /\ UNCHANGED <<store, refresh, stop, loop, writes, status, unwritten, tray, known,
                   gone, changes>>

(* _prompt_lock: the questions of all origins are asked one by one.        *)
Show(q) ==
    /\ q \in questions /\ q.at = "waiting"
    /\ \A r \in questions : r.at # "shown"
    /\ questions' = (questions \ {q}) \cup {[q EXCEPT !.at = "shown"]}
    /\ UNCHANGED <<store, refresh, stop, loop, groups, writes, status, unwritten,
                   tray, known, gone, changes>>

(* The user answers; the task goes on, if it still exists.                 *)
Answer(q) ==
    /\ q \in questions /\ q.at = "shown"
    /\ questions' = questions \ {q}
    /\ groups' = IF q.task THEN [groups EXCEPT ![q.origin].at = "connected"] ELSE groups
    /\ UNCHANGED <<store, refresh, stop, loop, writes, status, unwritten, tray, known,
                   gone, changes>>

(* The Realtime client hands its session, refreshed or not, to on_session: *)
(* at every connection, not only after a refresh.                          *)
HandOver(o, rotated) ==
    /\ groups[o] # NoGroup /\ groups[o].at = "connected"
    /\ rotated => groups[o].session.number < bound.rotations
    /\ LET session == [groups[o].session EXCEPT !.number = IF rotated THEN @ + 1 ELSE @] IN
       /\ \A w \in writes : w.session # session
       /\ writes' = writes \cup {[origin |-> o, session |-> session, task |-> TRUE]}
    /\ groups' = [groups EXCEPT ![o].at = "storing"]
    /\ UNCHANGED <<store, refresh, stop, loop, questions, status, unwritten, tray,
                   known, gone, changes>>

(* persist_realtime_session ends: the file has the session, or raised.     *)
StoreSession(w) ==
    /\ w \in writes
    /\ writes' = writes \ {w}
    /\ store' = UpdateSession(store, w.origin, w.session)
    /\ groups' = IF ~w.task THEN groups
                 ELSE [groups EXCEPT ![w.origin].at = "connected",
                                     ![w.origin].session = w.session]
    /\ UNCHANGED <<refresh, stop, loop, questions, status, unwritten, tray, known,
                   gone, changes>>

-----------------------------------------------------------------------------
ServiceStep == ClearRefresh \/ Load \/ Retry \/ CancelGroups

Tray ==
    \/ \E o \in bound.origins, d \in DeviceIds : Register(o, d)
    \/ \E o \in Origins : StartPairing(o)
    \/ \E id \in PairIds : Persist(id)
    \/ AbandonPairing
    \/ Announce
    \/ \E p \in store.pairs : Remove(p)
    \/ AnnounceRemoval
    \/ Stop

Task ==
    \/ \E o \in Origins : Connect(o) \/ Break(o) \/ Reconnect(o)
    \/ \E o \in Origins, n \in 1..bound.questions, p \in store.pairs \cup
            UNION {g.pairs : g \in {groups[x] : x \in Origins} \ {NoGroup}} : Receive(o, n, p)
    \/ \E q \in questions : Show(q) \/ Answer(q)
    \/ \E o \in Origins, rotated \in BOOLEAN : HandOver(o, rotated)
    \/ \E w \in writes : StoreSession(w)

Next == (Tray \/ ServiceStep \/ LoadFails \/ Task) /\ UNCHANGED bound

Spec == Init /\ [][Next]_vars

(* The service's own loop is fair; a file that is readable again and again *)
(* is loaded.                                                              *)
FairSpec == /\ Spec
            /\ WF_vars((ClearRefresh \/ Retry \/ CancelGroups) /\ UNCHANGED bound)
            /\ SF_vars(Load /\ UNCHANGED bound)

-----------------------------------------------------------------------------
Received == UNION {g.pairs : g \in {groups[o] : o \in Origins} \ {NoGroup}}

ReceivedIds == {p.id : p \in Received}

(* While the tasks run and no refresh is pending, a phone the user was     *)
(* told is paired is received from, and one the user was told is removed   *)
(* is not: no request for a refresh falls between clearing the event and   *)
(* loading the file.                                                       *)
RefreshIsKept ==
    loop = "run" /\ ~refresh =>
        known \subseteq ReceivedIds /\ gone \cap ReceivedIds = {}

(* An origin is recorded as reachable only while a task of it is past its  *)
(* connection, unless its last report could not be written: whichever way  *)
(* a receiver ends, by a removal, a refresh, an error or the stop, takes   *)
(* its own report back, and no record of an earlier task survives a load.  *)
StatusIsTrue ==
    \A o \in status \ unwritten :
        groups[o] # NoGroup /\ groups[o].at \notin {"start", "delay"}

(* The receivers' states are of their types and their reports are true.    *)
ReportsAreTrue == TypeOK /\ StatusIsTrue

(* A refresh that was asked for is served: sooner or later the tasks run   *)
(* on what the file holds, or the service has been stopped.                *)
RefreshIsServed == refresh ~> (loop = "run" /\ ~refresh) \/ stop

(* The session of a device is one of the user it was registered by         *)
(* (secure_storage.py:272: "Rotate only the DPAPI-protected Supabase       *)
(* session for one device.").  Violated: the task of a replaced device, or *)
(* a thread it left, stores its session under the new device.              *)
SessionOfDevice == \A d \in store.devices : d.session.user = d.id
=============================================================================
