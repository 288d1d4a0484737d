------------------------ MODULE ReceiverService_proofs ------------------------
(***************************************************************************)
(* No request for a refresh is lost, and what the tasks of all origins     *)
(* share stays true to them, for any origins, devices, phones and bounds.  *)
(***************************************************************************)
EXTENDS ReceiverService, TLAPS

-----------------------------------------------------------------------------
(* The tray's and the service's own transactions keep a file that load     *)
(* accepts.                                                                *)

LEMMA EmptyIsWellFormed == EmptyStore \in Store /\ WellFormed(EmptyStore)
BY DEF EmptyStore, Store, WellFormed

LEMMA RegisteredIsWellFormed ==
    ASSUME NEW file \in Store, WellFormed(file), NEW d \in Device
    PROVE  ReplaceDevice(file, d, TRUE) \in Store
           /\ WellFormed(ReplaceDevice(file, d, TRUE))
BY DEF ReplaceDevice, Store, WellFormed, KnownDevice, Device, Pair

LEMMA AddedIsWellFormed ==
    ASSUME NEW file \in Store, WellFormed(file), NEW p \in Pair, KnownDevice(file, p)
    PROVE  AddPair(file, p) \in Store /\ WellFormed(AddPair(file, p))
BY DEF AddPair, Store, WellFormed, KnownDevice

LEMMA RemovedIsWellFormed ==
    ASSUME NEW file \in Store, WellFormed(file), NEW o, NEW id
    PROVE  RemovePair(file, o, id) \in Store /\ WellFormed(RemovePair(file, o, id))
BY DEF RemovePair, Store, WellFormed, KnownDevice

LEMMA SessionIsWellFormed ==
    ASSUME NEW file \in Store, WellFormed(file), NEW o, NEW session \in Sessions
    PROVE  UpdateSession(file, o, session) \in Store
           /\ WellFormed(UpdateSession(file, o, session))
<1> DEFINE new(d) == IF d.origin = o THEN [d EXCEPT !.session = session] ELSE d
           now == UpdateSession(file, o, session)
<1>1. now.devices = {new(d) : d \in file.devices} /\ now.pairs = file.pairs
  BY DEF UpdateSession, Store
<1>2. \A d \in file.devices : new(d).origin = d.origin /\ new(d).id = d.id
  BY DEF Store, Device
<1> HIDE DEF new, now
<1>3. \A d, e \in now.devices : d.origin = e.origin => d = e
  BY <1>1, <1>2 DEF WellFormed
<1>4. \A p \in now.pairs : KnownDevice(now, p)
  BY <1>1, <1>2 DEF WellFormed, KnownDevice
<1>5. WellFormed(now)
  BY <1>1, <1>3, <1>4 DEF WellFormed
<1>6. now \in Store
  BY DEF now, UpdateSession, Store, Device
<1> QED
  BY <1>5, <1>6 DEF now

(* The types TypeOK leaves open. *)
TrayWork == [do: {"nothing"}]
         \cup [do: {"pair"}, origin: Origins, device: DeviceIds]
         \cup [do: {"announce", "removed"}, id: PairIds]
Question == [n: Nat, origin: Origins, pair: PairIds, at: {"waiting", "shown"}, task: BOOLEAN]
Writing == [origin: Origins, session: Sessions, task: BOOLEAN]

Types ==
    /\ TypeOK /\ tray \in TrayWork /\ bound \in Bounds
    /\ questions \subseteq Question /\ writes \subseteq Writing

(* The file is one that load accepts, a pair's name is used once, and a    *)
(* device has a session.                                                   *)
FileInv ==
    /\ WellFormed(store)
    /\ \A p, q \in store.pairs : p.id = q.id => p = q
    /\ \A d \in store.devices : d.session \in Sessions

(* What the user was told, or is about to be told, is in the file.         *)
ToldInv ==
    /\ known \subseteq StoredIds /\ gone \cap StoredIds = {}
    /\ tray.do = "announce" => tray.id \in StoredIds
    /\ tray.do = "removed" => tray.id \notin StoredIds

(* Tasks exist while the loop runs them; a thread knows a task that does.  *)
TaskInv ==
    /\ loop # "run" => \A o \in Origins : groups[o] = NoGroup
    /\ \A q \in questions : q.task => groups[q.origin] # NoGroup
    /\ \A w \in writes : w.task => groups[w.origin] # NoGroup

ServiceInv == Types /\ FileInv /\ ToldInv /\ TaskInv /\ StatusIsTrue /\ RefreshIsKept

USE DEF StoredIds

LEMMA BoundTypes ==
    ASSUME bound \in Bounds
    PROVE  /\ bound.origins \subseteq Origins /\ bound.changes \in Nat
           /\ bound.questions \in Nat /\ bound.rotations \in 0..MaxRotations
BY SessionAssumption

LEMMA InitHolds == Init => ServiceInv
<1> SUFFICES ASSUME Init PROVE ServiceInv
  OBVIOUS
<1>1. /\ bound \in Bounds /\ store = EmptyStore /\ refresh = TRUE /\ stop = FALSE
      /\ loop = "clear" /\ groups = [o \in Origins |-> NoGroup]
      /\ questions = {} /\ writes = {} /\ status = {} /\ unwritten = {} /\ tray = [do |-> "nothing"]
      /\ known = {} /\ gone = {} /\ changes = 0
  BY DEF Init
<1>2. Types
  <2>1. store \in Store /\ tray \in TrayWork /\ groups \in [Origins -> Group \cup {NoGroup}]
    BY <1>1, EmptyIsWellFormed DEF TrayWork
  <2>2. changes \in 0..bound.changes
    BY <1>1, BoundTypes
  <2>3. refresh \in BOOLEAN /\ stop \in BOOLEAN
    BY <1>1
  <2> QED
    BY <1>1, <2>1, <2>2, <2>3 DEF Types, TypeOK
<1>3. FileInv
  BY <1>1, EmptyIsWellFormed DEF FileInv, EmptyStore
<1>4. ToldInv /\ TaskInv
  BY <1>1 DEF ToldInv, TaskInv, EmptyStore
<1>5. StatusIsTrue /\ RefreshIsKept
  BY <1>1 DEF StatusIsTrue, RefreshIsKept
<1> QED
  BY <1>2, <1>3, <1>4, <1>5 DEF ServiceInv

-----------------------------------------------------------------------------
(* The file and what is said of it.                                        *)

FileTypes ==
    /\ store \in Store /\ tray \in TrayWork
    /\ known \subseteq PairIds /\ gone \subseteq PairIds

FilePart == FileTypes /\ FileInv /\ ToldInv

LEMMA PairsTyped ==
    ASSUME NEW s \in Store
    PROVE  /\ s = [devices |-> s.devices, pairs |-> s.pairs]
           /\ s.devices \subseteq Device /\ s.pairs \subseteq Pair
           /\ \A p \in s.pairs : p.origin \in Origins /\ p.device \in DeviceIds
                                 /\ p.id \in PairIds
BY DEF Store, Pair

LEMMA RegisterKeeps ==
    ASSUME FilePart, NEW o \in Origins, NEW d \in DeviceIds, Register(o, d)
    PROVE  FilePart'
<1> DEFINE device == [origin |-> o, id |-> d, session |-> FirstSession(d)]
<1>1. FirstSession(d) \in Sessions
  BY SessionAssumption DEF FirstSession
<1>2. device \in Device
  BY <1>1 DEF Device
<1>5. store' = ReplaceDevice(store, device, TRUE)
  BY DEF Register
<1>6. store' \in Store /\ WellFormed(store)'
  BY <1>2, <1>5, RegisteredIsWellFormed DEF FilePart, FileTypes, FileInv
<1>7. /\ store'.devices = {e \in store.devices : e.origin # o} \cup {device}
      /\ store'.pairs = {p \in store.pairs : p.origin # o}
  BY DEF Register, ReplaceDevice
<1>8. FileInv'
  BY <1>1, <1>6, <1>7 DEF FilePart, FileInv
<1>9. FileTypes'
  BY <1>6 DEF Register, FilePart, FileTypes, TrayWork
<1>10. /\ known' = known \ {p.id : p \in PairsFor(store, o)} /\ gone' = gone
       /\ tray'.do = "pair"
  BY DEF Register
<1>11. ToldInv'
  BY <1>7, <1>10 DEF FilePart, ToldInv, PairsFor
<1> QED
  BY <1>8, <1>9, <1>11 DEF FilePart

LEMMA PersistKeeps ==
    ASSUME FilePart, NEW id \in PairIds, Persist(id)
    PROVE  FilePart'
<1> DEFINE pair == [origin |-> tray.origin, device |-> tray.device, id |-> id]
<1>1. tray.do = "pair" /\ tray.origin \in Origins /\ tray.device \in DeviceIds
  BY DEF Persist, FilePart, FileTypes, TrayWork
<1>2. pair \in Pair
  BY <1>1 DEF Pair
<1>3. KnownDevice(store, pair)
  BY DEF Persist
<1>4. store' = AddPair(store, pair)
  BY DEF Persist
<1>5. store' \in Store /\ WellFormed(store)'
  BY <1>2, <1>3, <1>4, AddedIsWellFormed DEF FilePart, FileTypes, FileInv
<1>6. /\ store'.devices = store.devices
      /\ store'.pairs = {p \in store.pairs : ~(p.origin = tray.origin /\ p.id = id)} \cup {pair}
  BY <1>4, PairsTyped DEF AddPair, FilePart, FileTypes
<1>7. \A p \in store.pairs : p.id # id
  BY DEF Persist
<1>8. store'.pairs = store.pairs \cup {pair}
  BY <1>6, <1>7
<1>9. FileInv'
  BY <1>5, <1>6, <1>7, <1>8 DEF FilePart, FileInv
<1>10. tray' \in TrayWork /\ (tray'.do = "announce" => tray'.id = id) /\ tray'.do # "removed"
  BY DEF Persist, TrayWork
<1>11. known' = known /\ gone' = gone /\ id \notin gone
  BY DEF Persist
<1>12. FileTypes'
  BY <1>5, <1>10, <1>11 DEF FilePart, FileTypes
<1>13. StoredIds' = StoredIds \cup {id}
  <2>1. pair.id = id
    OBVIOUS
  <2> HIDE DEF pair
  <2>2. StoredIds' = {p.id : p \in store.pairs \cup {pair}}
    BY <1>8
  <2> QED
    BY <2>1, <2>2
<1>14. ToldInv'
  <2> USE <1>10, <1>11, <1>13 DEF FilePart, ToldInv
  <2> HIDE DEF StoredIds
  <2> QED
    OBVIOUS
<1> QED
  BY <1>9, <1>12, <1>14 DEF FilePart

LEMMA RemoveKeeps ==
    ASSUME FilePart, NEW p \in store.pairs, Remove(p)
    PROVE  FilePart'
<1>1. p.origin \in Origins /\ p.id \in PairIds
  BY PairsTyped DEF FilePart, FileTypes
<1>3. store' = RemovePair(store, p.origin, p.id)
  BY DEF Remove
<1>4. store' \in Store /\ WellFormed(store)'
  BY <1>3, RemovedIsWellFormed DEF FilePart, FileTypes, FileInv
<1>5. /\ store'.devices = store.devices
      /\ store'.pairs = {q \in store.pairs : ~(q.origin = p.origin /\ q.id = p.id)}
  BY <1>3, PairsTyped DEF RemovePair, FilePart, FileTypes
<1>6. store'.pairs = {q \in store.pairs : q.id # p.id}
  BY <1>5 DEF FilePart, FileInv
<1>7. FileInv'
  BY <1>4, <1>5, <1>6 DEF FilePart, FileInv
<1>8. /\ tray' = [do |-> "removed", id |-> p.id]
      /\ known' = known \ {p.id} /\ gone' = gone
  BY DEF Remove
<1>9. FileTypes'
  BY <1>1, <1>4, <1>8 DEF FilePart, FileTypes, TrayWork
<1>10. ToldInv'
  BY <1>6, <1>8 DEF FilePart, ToldInv
<1> QED
  BY <1>7, <1>9, <1>10 DEF FilePart

LEMMA StoreSessionKeeps ==
    ASSUME FilePart, writes \subseteq Writing, NEW w \in writes, StoreSession(w)
    PROVE  FilePart'
<1> DEFINE now(d) == IF d.origin = w.origin THEN [d EXCEPT !.session = w.session] ELSE d
<1>1. w.origin \in Origins /\ w.session \in Sessions
  BY DEF Writing
<1>3. store' = UpdateSession(store, w.origin, w.session)
  BY DEF StoreSession
<1>4. store' \in Store /\ WellFormed(store)'
  BY <1>1, <1>3, SessionIsWellFormed DEF FilePart, FileTypes, FileInv
<1>5. store'.pairs = store.pairs /\ store'.devices = {now(d) : d \in store.devices}
  BY <1>3, PairsTyped DEF UpdateSession, FilePart, FileTypes
<1>6. \A d \in store.devices : now(d).session \in Sessions
  BY <1>1, PairsTyped DEF FilePart, FileTypes, FileInv, Device
<1>7. \A d \in store'.devices : d.session \in Sessions
  <2> HIDE DEF now
  <2> QED
    BY <1>5, <1>6
<1>8. FileInv'
  BY <1>4, <1>5, <1>7 DEF FilePart, FileInv
<1>9. UNCHANGED <<tray, known, gone>>
  BY DEF StoreSession
<1>10. FileTypes' /\ ToldInv'
  BY <1>4, <1>5, <1>9 DEF FilePart, FileTypes, ToldInv
<1> QED
  BY <1>8, <1>10 DEF FilePart

LEMMA FileNext ==
    ASSUME FilePart, questions \subseteq Question, writes \subseteq Writing,
           bound \in Bounds, [Next]_vars
    PROVE  FilePart'
<1>1. ASSUME NEW o \in bound.origins, NEW d \in DeviceIds, Register(o, d) PROVE FilePart'
  BY <1>1, BoundTypes, RegisterKeeps
<1>2. ASSUME NEW o \in Origins, StartPairing(o) PROVE FilePart'
  <2>1. PICK d \in DeviceFor(store, o) :
            tray' = [do |-> "pair", origin |-> o, device |-> d.id]
    BY <1>2 DEF StartPairing
  <2>2. d.id \in DeviceIds
    BY <2>1 DEF DeviceFor, FilePart, FileTypes, Store, Device
  <2>3. tray' \in TrayWork /\ tray'.do = "pair" /\ UNCHANGED <<store, known, gone>>
    BY <1>2, <2>1, <2>2 DEF StartPairing, TrayWork
  <2> QED
    BY <2>3 DEF FilePart, FileTypes, FileInv, ToldInv
<1>3. ASSUME NEW id \in PairIds, Persist(id) PROVE FilePart'
  BY <1>3, PersistKeeps
<1>4. CASE AbandonPairing
  BY <1>4 DEF AbandonPairing, FilePart, FileTypes, FileInv, ToldInv, TrayWork
<1>5. CASE Announce
  <2>1. tray.id \in PairIds /\ tray.id \in StoredIds
    BY <1>5 DEF Announce, FilePart, FileTypes, ToldInv, TrayWork
  <2> QED
    BY <1>5, <2>1 DEF Announce, FilePart, FileTypes, FileInv, ToldInv, TrayWork
<1>6. CASE AnnounceRemoval
  <2>1. tray.id \in PairIds /\ tray.id \notin StoredIds
    BY <1>6 DEF AnnounceRemoval, FilePart, FileTypes, ToldInv, TrayWork
  <2> QED
    BY <1>6, <2>1 DEF AnnounceRemoval, FilePart, FileTypes, FileInv, ToldInv, TrayWork
<1>7. ASSUME NEW p \in store.pairs, Remove(p) PROVE FilePart'
  BY <1>7, RemoveKeeps
<1>8. ASSUME NEW w \in writes, StoreSession(w) PROVE FilePart'
  BY <1>8, StoreSessionKeeps
<1>9. ASSUME UNCHANGED <<store, tray, known, gone>> PROVE FilePart'
  BY <1>9 DEF FilePart, FileTypes, FileInv, ToldInv
<1>10. CASE Stop \/ ServiceStep \/ LoadFails \/ UNCHANGED vars
  BY <1>9, <1>10 DEF Stop, ServiceStep, ClearRefresh, Load, Retry, CancelGroups,
                   CancelTasks, LoadFails, vars
<1>11. ASSUME NEW o, Connect(o) \/ Break(o) \/ Reconnect(o) PROVE FilePart'
  BY <1>9, <1>11 DEF Connect, Break, Reconnect
<1>12. ASSUME NEW o, NEW n, NEW p, Receive(o, n, p) PROVE FilePart'
  BY <1>9, <1>12 DEF Receive
<1>13. ASSUME NEW q, Show(q) \/ Answer(q) PROVE FilePart'
  BY <1>9, <1>13 DEF Show, Answer
<1>14. ASSUME NEW o, NEW rotated, HandOver(o, rotated) PROVE FilePart'
  BY <1>9, <1>14 DEF HandOver
<1>15. CASE Tray
  BY <1>1, <1>2, <1>3, <1>4, <1>5, <1>6, <1>7, <1>10, <1>15 DEF Tray
<1>16. CASE Task
  BY <1>8, <1>11, <1>12, <1>13, <1>14, <1>16 DEF Task
<1> QED
  BY <1>10, <1>15, <1>16 DEF Next

-----------------------------------------------------------------------------
(* The tasks, their threads and the recorded connections.                  *)

TaskTypes ==
    /\ groups \in [Origins -> Group \cup {NoGroup}]
    /\ status \subseteq Origins /\ unwritten \subseteq Origins
    /\ questions \subseteq Question /\ writes \subseteq Writing

TaskPart == TaskTypes /\ TaskInv /\ StatusIsTrue

(* What a task does changes neither the origins with one nor its phones.   *)
SamePairs ==
    \A o \in Origins :
        /\ groups'[o] = NoGroup <=> groups[o] = NoGroup
        /\ groups[o] # NoGroup => groups'[o].pairs = groups[o].pairs

LEMMA GroupChange ==
    ASSUME TaskTypes, NEW o \in Origins, groups[o] # NoGroup, NEW g \in Group,
           g.pairs = groups[o].pairs, groups' = [groups EXCEPT ![o] = g]
    PROVE  /\ groups' \in [Origins -> Group \cup {NoGroup}] /\ SamePairs
           /\ groups'[o] = g /\ \A x \in Origins \ {o} : groups'[x] = groups[x]
BY GroupAssumption DEF TaskTypes, SamePairs

(* An origin that reported its end is recorded so, if that was written.    *)
LEMMA Reported ==
    ASSUME status \subseteq Origins, unwritten \subseteq Origins,
           NEW down \in SUBSET Origins, Record({}, down)
    PROVE  /\ status' \subseteq Origins /\ unwritten' \subseteq Origins
           /\ status' \ unwritten' \subseteq (status \ unwritten) \ down
BY DEF Record

LEMMA PlaceChange ==
    ASSUME TaskTypes, NEW o \in Origins, groups[o] # NoGroup,
           NEW a \in {"start", "connected", "asking", "storing", "delay"},
           groups' = [groups EXCEPT ![o].at = a]
    PROVE  /\ groups' \in [Origins -> Group \cup {NoGroup}] /\ SamePairs
           /\ groups'[o].at = a /\ \A x \in Origins \ {o} : groups'[x] = groups[x]
<1>1. groups[o] \in Group
  BY DEF TaskTypes
<1>2. [groups[o] EXCEPT !.at = a] \in Group
      /\ [groups[o] EXCEPT !.at = a].pairs = groups[o].pairs
      /\ [groups[o] EXCEPT !.at = a].at = a
  BY <1>1 DEF Group
<1>3. groups' = [groups EXCEPT ![o] = [groups[o] EXCEPT !.at = a]]
  OBVIOUS
<1> QED
  BY <1>2, <1>3, GroupChange

LEMMA TaskStep ==
    ASSUME TaskPart, bound \in Bounds, store \in Store, Task
    PROVE  TaskPart' /\ SamePairs
<1> USE DEF TaskPart, TaskTypes, TaskInv, StatusIsTrue
<1>1. ASSUME NEW o \in Origins, Connect(o) \/ Break(o) \/ Reconnect(o)
      PROVE  TaskPart' /\ SamePairs
  <2>1. groups[o] # NoGroup /\ UNCHANGED <<loop, questions, writes>>
    BY <1>1 DEF Connect, Break, Reconnect
  <2>2. \/ groups' = [groups EXCEPT ![o].at = "connected"] /\ Record({o}, {})
        \/ groups' = [groups EXCEPT ![o].at = "delay"] /\ Record({}, {o})
        \/ /\ groups' = [groups EXCEPT ![o].at = "start"] /\ groups[o].at = "delay"
           /\ UNCHANGED <<status, unwritten>>
    BY <1>1 DEF Connect, Break, Reconnect
  <2>3. /\ groups' \in [Origins -> Group \cup {NoGroup}] /\ SamePairs
        /\ groups'[o].at \in {"connected", "delay", "start"}
        /\ \A x \in Origins \ {o} : groups'[x] = groups[x]
    BY <2>1, <2>2, PlaceChange
  <2>4. TaskTypes' /\ StatusIsTrue'
    <3>1. CASE groups' = [groups EXCEPT ![o].at = "connected"] /\ Record({o}, {})
      <4>1. /\ status' \subseteq Origins /\ unwritten' \subseteq Origins
            /\ \A x \in status' \ unwritten' : x = o \/ x \in status \ unwritten
        BY <3>1 DEF Record
      <4>2. groups'[o].at = "connected"
        BY <2>1, <3>1, PlaceChange
      <4> QED
        BY <2>1, <2>3, <4>1, <4>2 DEF SamePairs
    <3>2. CASE groups' = [groups EXCEPT ![o].at = "delay"] /\ Record({}, {o})
      <4>1. /\ status' \subseteq Origins /\ unwritten' \subseteq Origins
            /\ \A x \in status' \ unwritten' : x \in (status \ unwritten) \ {o}
        BY <3>2 DEF Record
      <4> QED
        BY <2>1, <2>3, <4>1 DEF SamePairs
    <3>3. CASE groups[o].at = "delay" /\ UNCHANGED <<status, unwritten>>
      BY <2>1, <2>3, <3>3 DEF SamePairs
    <3> QED
      BY <2>2, <3>1, <3>2, <3>3
  <2>5. TaskInv'
    BY <2>1, <2>3 DEF SamePairs, Question, Writing
  <2> QED
    BY <2>1, <2>2, <2>3, <2>4, <2>5
<1>2. ASSUME NEW o \in Origins, NEW n \in 1..bound.questions,
             NEW p \in store.pairs \cup
               UNION {g.pairs : g \in {groups[x] : x \in Origins} \ {NoGroup}},
             Receive(o, n, p)
      PROVE  TaskPart' /\ SamePairs
  <2> DEFINE q == [n |-> n, origin |-> o, pair |-> p.id, at |-> "waiting", task |-> TRUE]
  <2>1. /\ groups[o] # NoGroup /\ groups[o].at = "connected" /\ p \in groups[o].pairs
        /\ questions' = questions \cup {q} /\ UNCHANGED <<loop, writes, status, unwritten>>
        /\ groups' = [groups EXCEPT ![o].at = "asking"]
    BY <1>2 DEF Receive
  <2>2. p.id \in PairIds
    BY <2>1 DEF Group, Pair
  <2>3. q \in Question /\ q.at = "waiting" /\ q.origin = o
    BY <2>2, BoundTypes DEF Question
  <2>4. /\ groups' \in [Origins -> Group \cup {NoGroup}] /\ SamePairs
        /\ groups'[o].at = "asking" /\ \A x \in Origins \ {o} : groups'[x] = groups[x]
    BY <2>1, PlaceChange
  <2> HIDE DEF q
  <2>6. StatusIsTrue'
    BY <2>1, <2>4 DEF SamePairs
  <2>7. TaskInv'
    BY <2>1, <2>3, <2>4 DEF SamePairs, Question, Writing
  <2> QED
    BY <2>1, <2>3, <2>4, <2>6, <2>7
<1>3. ASSUME NEW q \in questions, Show(q)
      PROVE  TaskPart' /\ SamePairs
  <2> DEFINE s == [q EXCEPT !.at = "shown"]
  <2>1. s \in Question /\ s.task = q.task /\ s.origin = q.origin
    BY DEF Question
  <2>2. /\ questions' = (questions \ {q}) \cup {s} /\ \A r \in questions : r.at # "shown"
        /\ UNCHANGED <<loop, groups, writes, status, unwritten>>
    BY <1>3 DEF Show
  <2> HIDE DEF s
  <2> QED
    BY <2>1, <2>2 DEF SamePairs
<1>4. ASSUME NEW q \in questions, Answer(q)
      PROVE  TaskPart' /\ SamePairs
  <2>1. questions' = questions \ {q} /\ UNCHANGED <<loop, writes, status, unwritten>>
    BY <1>4 DEF Answer
  <2>2. CASE q.task
    <3>1. /\ q.origin \in Origins /\ groups[q.origin] # NoGroup
          /\ groups' = [groups EXCEPT ![q.origin].at = "connected"]
      BY <1>4, <2>2 DEF Answer, Question
    <3>2. /\ groups' \in [Origins -> Group \cup {NoGroup}] /\ SamePairs
          /\ groups'[q.origin].at = "connected"
          /\ \A x \in Origins \ {q.origin} : groups'[x] = groups[x]
      BY <3>1, PlaceChange
    <3>3. StatusIsTrue'
      BY <2>1, <3>1, <3>2 DEF SamePairs
    <3> QED
      BY <2>1, <3>2, <3>3 DEF SamePairs, Question, Writing
  <2>3. CASE ~q.task
    BY <1>4, <2>1, <2>3 DEF Answer, SamePairs
  <2> QED
    BY <2>2, <2>3
<1>5. ASSUME NEW o \in Origins, NEW rotated \in BOOLEAN, HandOver(o, rotated)
      PROVE  TaskPart' /\ SamePairs
  <2> DEFINE session == [groups[o].session EXCEPT !.number = IF rotated THEN @ + 1 ELSE @]
             w == [origin |-> o, session |-> session, task |-> TRUE]
  <2>1. /\ groups[o] # NoGroup /\ groups[o].at = "connected"
        /\ rotated => groups[o].session.number < bound.rotations
        /\ writes' = writes \cup {w} /\ UNCHANGED <<loop, questions, status, unwritten>>
        /\ groups' = [groups EXCEPT ![o].at = "storing"]
    BY <1>5 DEF HandOver
  <2>2. groups[o].session \in [user: DeviceIds, number: 0..MaxRotations]
    BY <2>1, SessionAssumption DEF Group
  <2>3. session \in Sessions
    BY <2>1, <2>2, BoundTypes, SessionAssumption
  <2>4. w \in Writing /\ w.origin = o
    BY <2>3 DEF Writing
  <2>5. /\ groups' \in [Origins -> Group \cup {NoGroup}] /\ SamePairs
        /\ groups'[o].at = "storing" /\ \A x \in Origins \ {o} : groups'[x] = groups[x]
    BY <2>1, PlaceChange
  <2> HIDE DEF w
  <2>6. StatusIsTrue'
    BY <2>1, <2>5 DEF SamePairs
  <2>7. TaskInv'
    BY <2>1, <2>4, <2>5 DEF SamePairs, Question, Writing
  <2> QED
    BY <2>1, <2>4, <2>5, <2>6, <2>7
<1>6. ASSUME NEW w \in writes, StoreSession(w)
      PROVE  TaskPart' /\ SamePairs
  <2>1. /\ writes' = writes \ {w} /\ UNCHANGED <<loop, questions, status, unwritten>>
        /\ w.origin \in Origins /\ w.session \in Sessions
    BY <1>6 DEF StoreSession, Writing
  <2>2. CASE w.task
    <3> DEFINE g == [groups[w.origin] EXCEPT !.at = "connected", !.session = w.session]
    <3>1. groups[w.origin] # NoGroup
      BY <2>2
    <3>2. groups[w.origin] \in Group
      BY <2>1, <3>1
    <3>3. g \in Group /\ g.pairs = groups[w.origin].pairs /\ g.at = "connected"
      BY <2>1, <3>2 DEF Group
    <3>4. groups' = [groups EXCEPT ![w.origin] = g]
      BY <1>6, <2>2 DEF StoreSession
    <3> HIDE DEF g
    <3>5. /\ groups' \in [Origins -> Group \cup {NoGroup}] /\ SamePairs
          /\ groups'[w.origin] = g
          /\ \A x \in Origins \ {w.origin} : groups'[x] = groups[x]
      BY <2>1, <3>1, <3>3, <3>4, GroupChange
    <3>6. StatusIsTrue'
      BY <2>1, <3>1, <3>3, <3>5 DEF SamePairs
    <3> QED
      BY <2>1, <3>5, <3>6 DEF SamePairs, Question, Writing
  <2>3. CASE ~w.task
    BY <1>6, <2>1, <2>3 DEF StoreSession, SamePairs
  <2> QED
    BY <2>2, <2>3
<1> QED
  BY <1>1, <1>2, <1>3, <1>4, <1>5, <1>6 DEF Task

LEMMA Loaded ==
    ASSUME FilePart
    PROVE  /\ GroupsOf(store) \in [Origins -> Group \cup {NoGroup}]
           /\ \A o \in Origins :
                /\ GroupsOf(store)[o] = NoGroup <=> PairsFor(store, o) = {}
                /\ GroupsOf(store)[o] # NoGroup =>
                     GroupsOf(store)[o].pairs = PairsFor(store, o)
<1> SUFFICES ASSUME NEW o \in Origins
             PROVE  /\ GroupsOf(store)[o] \in Group \cup {NoGroup}
                    /\ GroupsOf(store)[o] = NoGroup <=> PairsFor(store, o) = {}
                    /\ GroupsOf(store)[o] # NoGroup =>
                         GroupsOf(store)[o].pairs = PairsFor(store, o)
  BY DEF GroupsOf
<1>1. CASE PairsFor(store, o) = {}
  BY <1>1 DEF GroupsOf
<1>2. CASE PairsFor(store, o) # {}
  <2> DEFINE d == CHOOSE e \in DeviceFor(store, o) : TRUE
             mine == {p \in PairsFor(store, o) : p.device = d.id}
  <2>1. \E e \in store.devices : e.origin = o
    BY <1>2 DEF PairsFor, FilePart, FileInv, WellFormed, KnownDevice
  <2>2. d \in store.devices /\ d.origin = o
    BY <2>1 DEF DeviceFor
  <2> HIDE DEF d
  <2>3. d \in Device /\ d.session \in Sessions
    BY <2>2 DEF FilePart, FileTypes, FileInv, Store
  <2>4. mine = PairsFor(store, o)
    BY <2>2 DEF PairsFor, FilePart, FileInv, WellFormed, KnownDevice
  <2>5. mine \in SUBSET Pair
    BY DEF PairsFor, FilePart, FileTypes, Store
  <2>6. GroupsOf(store)[o] =
          [device |-> d, pairs |-> mine, session |-> d.session, at |-> "start"]
    BY <1>2 DEF GroupsOf, d
  <2>7. GroupsOf(store)[o] \in Group /\ GroupsOf(store)[o].pairs = mine
    <3> HIDE DEF mine
    <3> QED
      BY <2>3, <2>5, <2>6 DEF Group
  <2> QED
    BY <1>2, <2>4, <2>7, GroupAssumption
<1> QED
  BY <1>1, <1>2

LEMMA TasksNext ==
    ASSUME TaskPart, FilePart, bound \in Bounds, [Next]_vars
    PROVE  TaskPart'
<1> USE DEF TaskPart, TaskTypes, TaskInv, StatusIsTrue
<1>1. ASSUME UNCHANGED <<groups, questions, writes, status, unwritten>>,
             loop' # "run" => loop # "run"
      PROVE  TaskPart'
  BY <1>1
<1>2. CASE Tray
  BY <1>1, <1>2 DEF Tray, Register, StartPairing, Persist, AbandonPairing, Announce, Remove,
                    AnnounceRemoval, Stop
<1>3. CASE ClearRefresh \/ LoadFails \/ Retry
  BY <1>1, <1>3 DEF ClearRefresh, LoadFails, Retry
<1>4. CASE Load
  <2>1. /\ groups' = GroupsOf(store) /\ loop' = "run" /\ UNCHANGED <<questions, writes>>
        /\ Record({}, {o \in Origins : groups'[o] # NoGroup})
    BY <1>4 DEF Load
  <2>2. groups' \in [Origins -> Group \cup {NoGroup}]
    BY <2>1, Loaded
  <2>3. \A o \in Origins : groups[o] = NoGroup
    BY <1>4 DEF Load
  <2>4. /\ status \ unwritten = {}
        /\ (\A q \in questions : ~q.task) /\ (\A w \in writes : ~w.task)
    BY <2>3 DEF Question, Writing
  <2>5. /\ status' \subseteq Origins /\ unwritten' \subseteq Origins
        /\ status' \ unwritten' \subseteq status \ unwritten
    BY <2>1, Reported
  <2> QED
    BY <2>1, <2>2, <2>4, <2>5
<1>5. CASE CancelGroups
  <2>1. /\ groups' = [o \in Origins |-> NoGroup]
        /\ questions' = {[q EXCEPT !.task = FALSE] : q \in questions}
        /\ writes' = {[w EXCEPT !.task = FALSE] : w \in writes}
    BY <1>5 DEF CancelGroups, CancelTasks
  <2>2. ASSUME NEW q \in questions' PROVE q \in Question /\ ~q.task
    <3>1. PICK x \in questions : q = [x EXCEPT !.task = FALSE]
      BY <2>1
    <3>2. x \in Question
      OBVIOUS
    <3> QED
      BY <3>1, <3>2 DEF Question
  <2>3. ASSUME NEW w \in writes' PROVE w \in Writing /\ ~w.task
    <3>1. PICK x \in writes : w = [x EXCEPT !.task = FALSE]
      BY <2>1
    <3>2. x \in Writing
      OBVIOUS
    <3> QED
      BY <3>1, <3>2 DEF Writing
  <2>4. PICK begun \in SUBSET RunsAt({"start"}) :
            Record({}, begun \cup RunsAt({"connected", "asking", "storing"}))
    BY <1>5 DEF CancelGroups
  <2>5. status' \subseteq Origins /\ unwritten' \subseteq Origins
        /\ status' \ unwritten' \subseteq
              (status \ unwritten) \ RunsAt({"connected", "asking", "storing"})
    BY <2>4, Reported DEF RunsAt
  <2>6. status \ unwritten \subseteq RunsAt({"connected", "asking", "storing"})
    BY DEF RunsAt, Group
  <2>7. status' \ unwritten' = {}
    BY <2>5, <2>6
  <2> QED
    BY <2>1, <2>2, <2>3, <2>5, <2>7
<1>6. CASE Task
  BY <1>6, TaskStep DEF FilePart, FileTypes
<1>7. CASE UNCHANGED vars
  BY <1>1, <1>7 DEF vars
<1> QED
  BY <1>2, <1>3, <1>4, <1>5, <1>6, <1>7 DEF Next, ServiceStep

-----------------------------------------------------------------------------
(* What is received from.                                                  *)

LEMMA ReceivedIs ==
    ASSUME TaskTypes, NEW id
    PROVE  id \in ReceivedIds <=>
             \E o \in Origins : groups[o] # NoGroup /\ \E p \in groups[o].pairs : p.id = id
BY DEF ReceivedIds, Received

LEMMA ReceivedIsPrime ==
    ASSUME TaskTypes', NEW id
    PROVE  id \in ReceivedIds' <=>
             \E o \in Origins : groups'[o] # NoGroup /\ \E p \in groups'[o].pairs : p.id = id
BY DEF ReceivedIds, Received, TaskTypes

LEMMA RefreshNext ==
    ASSUME RefreshIsKept, TaskPart, FilePart, bound \in Bounds, TaskPart', [Next]_vars
    PROVE  RefreshIsKept'
<1>1. ASSUME UNCHANGED groups, known' \subseteq known, gone' \subseteq gone,
             loop' = "run" => loop = "run" /\ (~refresh' => ~refresh)
      PROVE  RefreshIsKept'
  BY <1>1 DEF RefreshIsKept, ReceivedIds, Received
<1>2. ASSUME NEW o, NEW d, Register(o, d) PROVE RefreshIsKept'
  BY <1>1, <1>2 DEF Register
<1>3. ASSUME NEW o, StartPairing(o) PROVE RefreshIsKept'
  BY <1>1, <1>3 DEF StartPairing
<1>4. ASSUME NEW id, Persist(id) PROVE RefreshIsKept'
  BY <1>1, <1>4 DEF Persist
<1>5. ASSUME NEW p, Remove(p) PROVE RefreshIsKept'
  BY <1>1, <1>5 DEF Remove
<1>6. CASE AbandonPairing \/ LoadFails \/ Retry \/ ClearRefresh \/ UNCHANGED vars
  <2>1. CASE LoadFails \/ Retry \/ ClearRefresh
    <3>1. loop' # "run"
      BY <2>1 DEF LoadFails, Retry, ClearRefresh
    <3> QED
      BY <3>1 DEF RefreshIsKept
  <2>2. CASE AbandonPairing \/ UNCHANGED vars
    BY <1>1, <2>2 DEF AbandonPairing, vars
  <2> QED
    BY <1>6, <2>1, <2>2
<1>7. CASE Announce \/ AnnounceRemoval \/ Stop \/ CancelGroups
  BY <1>7 DEF Announce, AnnounceRemoval, Stop, CancelGroups, CancelTasks, RefreshIsKept
<1>8. CASE Load
  <2>1. groups' = GroupsOf(store) /\ UNCHANGED <<store, known, gone>>
    BY <1>8 DEF Load
  <2>2. ASSUME NEW id PROVE id \in ReceivedIds' <=> id \in StoredIds
    <3>1. id \in ReceivedIds' <=>
            \E o \in Origins : PairsFor(store, o) # {} /\ \E p \in PairsFor(store, o) : p.id = id
      BY <2>1, Loaded, ReceivedIsPrime DEF TaskPart
    <3>2. \A p \in store.pairs : p.origin \in Origins
      BY PairsTyped DEF FilePart, FileTypes
    <3> QED
      BY <3>1, <3>2 DEF PairsFor
  <2> QED
    BY <2>1, <2>2 DEF FilePart, ToldInv, RefreshIsKept
<1>9. CASE Task
  <2>1. SamePairs
    BY <1>9, TaskStep DEF FilePart, FileTypes
  <2>2. ASSUME NEW id PROVE id \in ReceivedIds' <=> id \in ReceivedIds
    BY <2>1, ReceivedIs, ReceivedIsPrime DEF TaskPart, SamePairs
  <2>3. UNCHANGED <<loop, refresh, known, gone>>
    BY <1>9 DEF Task, Connect, Break, Reconnect, Receive, Show, Answer, HandOver, StoreSession
  <2> QED
    BY <2>2, <2>3 DEF RefreshIsKept
<1> QED
  BY <1>2, <1>3, <1>4, <1>5, <1>6, <1>7, <1>8, <1>9 DEF Next, Tray, ServiceStep

LEMMA PlainTypes ==
    ASSUME Types, [Next]_vars
    PROVE  /\ refresh' \in BOOLEAN /\ stop' \in BOOLEAN /\ bound' \in Bounds
           /\ loop' \in {"clear", "load", "retry", "run", "ended"}
           /\ changes' \in 0..bound'.changes
<1> USE DEF Types, TypeOK
<1>1. bound' = bound /\ bound.changes \in Nat
  BY BoundTypes DEF Next, vars
<1>2. refresh' \in BOOLEAN /\ stop' \in BOOLEAN
  <2>1. CASE Tray
    BY <2>1 DEF Tray, Register, StartPairing, Persist, AbandonPairing, Announce, Remove,
                AnnounceRemoval, Stop
  <2>2. CASE ServiceStep \/ LoadFails
    BY <2>2 DEF ServiceStep, ClearRefresh, Load, Retry, CancelGroups, CancelTasks, LoadFails
  <2>3. CASE Task \/ UNCHANGED vars
    BY <2>3 DEF Task, Connect, Break, Reconnect, Receive, Show, Answer, HandOver,
                StoreSession, vars
  <2> QED
    BY <2>1, <2>2, <2>3 DEF Next
<1>3. loop' \in {"clear", "load", "retry", "run", "ended"}
  <2>1. CASE Tray
    BY <2>1 DEF Tray, Register, StartPairing, Persist, AbandonPairing, Announce, Remove,
                AnnounceRemoval, Stop
  <2>2. CASE ServiceStep \/ LoadFails
    BY <2>2 DEF ServiceStep, ClearRefresh, Load, Retry, CancelGroups, CancelTasks, LoadFails
  <2>3. CASE Task \/ UNCHANGED vars
    BY <2>3 DEF Task, Connect, Break, Reconnect, Receive, Show, Answer, HandOver,
                StoreSession, vars
  <2> QED
    BY <2>1, <2>2, <2>3 DEF Next
<1>4. changes' \in 0..bound.changes
  <2>1. changes' = changes \/ (changes < bound.changes /\ changes' = changes + 1)
    <3>1. CASE Tray
      BY <3>1 DEF Tray, Register, StartPairing, Persist, AbandonPairing, Announce, Remove,
                  AnnounceRemoval, Stop
    <3>2. CASE ServiceStep \/ LoadFails
      BY <3>2 DEF ServiceStep, ClearRefresh, Load, Retry, CancelGroups, CancelTasks, LoadFails
    <3>3. CASE Task \/ UNCHANGED vars
      BY <3>3 DEF Task, Connect, Break, Reconnect, Receive, Show, Answer, HandOver,
                  StoreSession, vars
    <3> QED
      BY <3>1, <3>2, <3>3 DEF Next
  <2> QED
    BY <1>1, <2>1
<1> QED
  BY <1>1, <1>2, <1>3, <1>4

LEMMA ServiceInvNext ==
    ASSUME ServiceInv, [Next]_vars
    PROVE  ServiceInv'
<1>1. /\ FilePart /\ TaskPart /\ bound \in Bounds /\ Types /\ RefreshIsKept
      /\ questions \subseteq Question /\ writes \subseteq Writing
  BY DEF ServiceInv, Types, TypeOK, FilePart, FileTypes, TaskPart, TaskTypes
<1>2. FilePart' /\ TaskPart' /\ RefreshIsKept'
  BY <1>1, FileNext, TasksNext, RefreshNext
<1>3. Types'
  <2>1. /\ \A q \in questions' : q.pair \in PairIds /\ q.at \in {"waiting", "shown"}
        /\ \A w \in writes' : w.origin \in Origins /\ w.session \in Sessions
    BY <1>2 DEF TaskPart, TaskTypes, Question, Writing
  <2> QED
    BY <1>1, <1>2, <2>1, PlainTypes
       DEF Types, TypeOK, FilePart, FileTypes, TaskPart, TaskTypes
<1> QED
  BY <1>2, <1>3 DEF ServiceInv, FilePart, TaskPart

(* Once loaded, the tasks receive from every phone announced as paired and *)
(* from none announced as removed, unless a refresh is pending: the event  *)
(* is cleared before the file is loaded and set after it is changed.       *)
THEOREM RefreshKept == Spec => []RefreshIsKept
<1>1. ServiceInv => RefreshIsKept
  BY DEF ServiceInv
<1> QED
  BY <1>1, InitHolds, ServiceInvNext, PTL DEF Spec

(* Whichever way a receiver ends it takes its report back: an origin stays *)
(* recorded as reachable after its task only if that report could not be   *)
(* written.                                                                *)
THEOREM ReportsTrue == Spec => []ReportsAreTrue
<1>1. ServiceInv => ReportsAreTrue
  BY DEF ServiceInv, Types, ReportsAreTrue
<1> QED
  BY <1>1, InitHolds, ServiceInvNext, PTL DEF Spec
===============================================================================
