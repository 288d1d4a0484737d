------------------------ MODULE TrayController_proofs ------------------------
(***************************************************************************)
(* A controller ends only on its own user's request, a cancelled pairing   *)
(* stays cancelled, the handles name the windows that are open, and the    *)
(* application never vanishes behind its icon, for any number of child     *)
(* processes, controllers and requests and any scenario.  The last part is *)
(* about the camera scanner, one of the child processes.                   *)
(***************************************************************************)
EXTENDS TrayController, CameraScan, FiniteSetTheorems, TLAPS

Child == [role : Role \cup {"none"},
          st : {"free", "running", "exited", "todo", "orphan"},
          code : Code \cup {"none"}]

\* An exit code that asks for the end was given by this controller's user.
ExitIsAsked(pr, a) ==
  \A p \in Process : pr[p].st \in {"exited", "todo"} /\ pr[p].code = "exit" => a

\* Nobody watches a child before the controller is up.
Unwatched == \A p \in Process : proc[p].st \in {"free", "orphan"}

StopInv ==
  /\ {stop, asked} \subseteq BOOLEAN
  /\ proc \in [Process -> Child]
  /\ stop => asked
  /\ phase \in {"off", "starting"} => ~stop /\ Unwatched
  /\ phase \notin {"off", "starting"} /\ "exit" \in files => asked
  /\ ExitIsAsked(proc, asked)

LEMMA Killed == "killed" \in Code
BY DEF Code

LEMMA FreeIsChild == Free \in Child
BY DEF Free, Child

\* What a call leaves of the children asks for no exit that was not asked.
LEMMA LeftKeeps ==
  ASSUME NEW q, NEW roles, NEW a \in BOOLEAN, proc \in [Process -> Child],
         ExitIsAsked(proc, a)
  PROVE  Left(q, roles) \in [Process -> Child] /\ ExitIsAsked(Left(q, roles), a)
<1>1. ASSUME NEW p \in Process
      PROVE  /\ Left(q, roles)[p] \in Child
             /\ \/ Left(q, roles)[p] = Free
                \/ Left(q, roles)[p].code = "killed"
                \/ Left(q, roles)[p] = proc[p]
  <2>1. proc[p] \in Child
    OBVIOUS
  <2>2. [proc[p] EXCEPT !.st = "exited", !.code = "killed"] \in Child
        /\ [proc[p] EXCEPT !.st = "exited", !.code = "killed"].code = "killed"
    BY <2>1, Killed DEF Child
  <2> QED
    BY <2>1, <2>2, FreeIsChild DEF Left
<1>2. Left(q, roles) \in [Process -> Child]
  BY <1>1 DEF Left
<1> QED
  BY <1>1, <1>2 DEF ExitIsAsked, Free

LEMMA NothingKeeps ==
  ASSUME NEW q, Nothing(q), proc \in [Process -> Child], NEW a \in BOOLEAN,
         ExitIsAsked(proc, a)
  PROVE  proc' \in [Process -> Child] /\ ExitIsAsked(proc', a)
BY LeftKeeps DEF Nothing

LEMMA SpawnKeeps ==
  ASSUME NEW role \in Role, NEW q, NEW roles, Spawn(role, q, roles),
         proc \in [Process -> Child], NEW a \in BOOLEAN, ExitIsAsked(proc, a)
  PROVE  proc' \in [Process -> Child] /\ ExitIsAsked(proc', a)
<1>1. PICK p \in Process :
        proc' = [Left(q, roles) EXCEPT ![p] = [role |-> role, st |-> "running",
                                               code |-> "none"]]
  BY DEF Spawn
<1>2. [role |-> role, st |-> "running", code |-> "none"] \in Child
  BY DEF Child
<1> QED
  BY <1>1, <1>2, LeftKeeps DEF ExitIsAsked

LEMMA LaunchKeeps ==
  ASSUME NEW q, proc \in [Process -> Child], NEW a \in BOOLEAN, ExitIsAsked(proc, a),
         \/ LaunchCamera(q) \/ LaunchScreen(q) \/ LaunchHome(q)
         \/ LaunchOnce("creator", q) \/ LaunchOnce("settings", q)
  PROVE  proc' \in [Process -> Child] /\ ExitIsAsked(proc', a)
<1>1. {"camera", "screen", "home", "creator", "settings"} \subseteq Role
  BY DEF Role, Tracked
<1>2. \/ Nothing(q)
      \/ \E role \in Role : \E roles \in {{}, ControlWindows} : Spawn(role, q, roles)
  BY <1>1 DEF LaunchCamera, LaunchScreen, LaunchHome, LaunchOnce
<1> QED
  BY <1>2, NothingKeeps, SpawnKeeps

LEMMA PairingKeeps ==
  ASSUME NEW q, StartPairing(q), proc \in [Process -> Child], NEW a \in BOOLEAN,
         ExitIsAsked(proc, a)
  PROVE  proc' \in [Process -> Child] /\ ExitIsAsked(proc', a)
BY NothingKeeps, LeftKeeps DEF StartPairing

LEMMA PhonesKeep ==
  ASSUME NEW q, LaunchPhones(q), proc \in [Process -> Child], NEW a \in BOOLEAN,
         ExitIsAsked(proc, a)
  PROVE  proc' \in [Process -> Child] /\ ExitIsAsked(proc', a)
<1>1. "phones" \in Role
  BY DEF Role, Tracked
<1>2. \/ Nothing(q) \/ StartPairing(q) \/ Spawn("phones", q, {"home"})
      \/ proc' = Left(q, {"home"})
  BY DEF LaunchPhones
<1> QED
  BY <1>1, <1>2, NothingKeeps, PairingKeeps, SpawnKeeps, LeftKeeps

\* What a step of a controller that is up has to show.
LEMMA AliveKeeps ==
  ASSUME StopInv, Alive, phase' \in {phase, "stopping", "ended"},
         {stop', asked'} \subseteq BOOLEAN, stop' => asked', asked => asked',
         proc' \in [Process -> Child] /\ ExitIsAsked(proc', asked'),
         "exit" \in files' => "exit" \in files
  PROVE  StopInv'
BY DEF StopInv, Alive, ExitIsAsked

LEMMA StopInvInit == Init => StopInv
<1> SUFFICES ASSUME Init PROVE StopInv
  OBVIOUS
<1>1. phase = "off" /\ stop = FALSE /\ asked = FALSE
  BY DEF Init
<1>2. proc = [p \in Process |-> Free]
  BY DEF Init
<1>3. proc \in [Process -> Child]
  BY <1>2, FreeIsChild
<1>4. \A p \in Process : proc[p].st = "free"
  BY <1>2 DEF Free
<1>5. Unwatched /\ ExitIsAsked(proc, asked)
  BY <1>4 DEF Unwatched, ExitIsAsked
<1> QED
  BY <1>1, <1>3, <1>5 DEF StopInv

LEMMA StopInvNext ==
  ASSUME StopInv, [Next]_vars
  PROVE  StopInv'
<1> DEFINE Kept(a) == proc' \in [Process -> Child] /\ ExitIsAsked(proc', a)
<1>1. /\ stop \in BOOLEAN /\ asked \in BOOLEAN
      /\ proc \in [Process -> Child] /\ ExitIsAsked(proc, asked)
  BY DEF StopInv
<1>2. CASE Start
  BY <1>1, <1>2 DEF Start, StopInv, windows, requests, Unwatched, ExitIsAsked
<1>3. ASSUME NEW f \in {"camera", "home", "none"}, SetUp(f)
      PROVE  StopInv'
  <2>1. ~stop /\ ExitIsAsked(proc, FALSE)
    BY <1>3 DEF SetUp, StopInv, Unwatched, ExitIsAsked
  <2>2. Kept(FALSE)
    <3>1. LaunchCamera(NoProcess) \/ LaunchHome(NoProcess) \/ proc' = proc
      BY <1>3 DEF SetUp, First
    <3> QED
      BY <1>1, <2>1, <3>1, LaunchKeeps
  <2>3. phase' = "up" /\ asked' = FALSE /\ stop' = stop /\ files' = {}
    BY <1>3 DEF SetUp
  <2> QED
    BY <2>1, <2>2, <2>3 DEF StopInv
<1>4. ASSUME NEW x \in Request, Route(x)
      PROVE  StopInv'
  <2>1. UNCHANGED <<phase, stop, asked, proc>> /\ ("exit" \in files' => "exit" \in files)
    BY <1>4 DEF Route, Leave, life, windows
  <2> QED
    BY <1>1, <2>1 DEF StopInv, Unwatched, ExitIsAsked
<1>5. CASE Watch
  <2>1. Alive /\ asked' = asked /\ files' = files \ {watch}
    BY <1>5 DEF Watch, Unlocked, Consume
  <2>2. Kept(asked)
    <3>1. LaunchCamera(NoProcess) \/ LaunchHome(NoProcess) \/ proc' = proc
      BY <1>5 DEF Watch, windows
    <3> QED
      BY <1>1, <3>1, LaunchKeeps
  <2>3. \/ stop' = stop /\ phase' = phase
        \/ /\ stop' = TRUE /\ phase' \in {phase, "stopping"}
           /\ "exit" \in files
    BY <1>5 DEF Watch, Stop, NoStop
  <2>4. (stop => asked) /\ ("exit" \in files => asked)
    BY <2>1 DEF StopInv, Alive
  <2>5. stop' \in BOOLEAN /\ (stop' => asked')
    <3>1. CASE stop' = stop
      BY <1>1, <2>1, <2>4, <3>1
    <3>2. CASE stop' = TRUE /\ asked
      BY <2>1, <3>2, Zenon
    <3> QED
      BY <2>3, <2>4, <3>1, <3>2
  <2>6. phase' \in {phase, "stopping", "ended"}
    BY <2>3
  <2> QED
    BY <1>1, <2>1, <2>2, <2>5, <2>6, AliveKeeps
<1>6. ASSUME NEW p \in Process, NEW c \in Code, ChildExits(p, c)
      PROVE  StopInv'
  <2>1. /\ UNCHANGED <<phase, stop>> /\ asked' = (asked \/ c = "exit")
        /\ proc' = [proc EXCEPT ![p] = IF Running(p)
                       THEN [proc[p] EXCEPT !.st = "exited", !.code = c] ELSE Free]
        /\ proc[p].st \in {"running", "orphan"}
    BY <1>6 DEF ChildExits
  <2>2. "exit" \in files' => "exit" \in files \/ c = "exit"
    BY <1>6 DEF ChildExits, Leave
  <2>3. [proc[p] EXCEPT !.st = "exited", !.code = c] \in Child
        /\ [proc[p] EXCEPT !.st = "exited", !.code = c].code = c
    BY <1>1 DEF Child
  <2>4. Kept(asked')
    BY <1>1, <2>1, <2>3, FreeIsChild DEF ExitIsAsked, Free
  <2>5. Unwatched => Unwatched'
    BY <1>1, <2>1 DEF Unwatched, Running, Free
  <2> QED
    BY <1>1, <2>1, <2>2, <2>4, <2>5 DEF StopInv
<1>7. ASSUME NEW p \in Process, Reap(p)
      PROVE  StopInv'
  <2>1. /\ Alive /\ UNCHANGED <<phase, stop, asked, files>> /\ proc[p].st = "exited"
        /\ proc' = [proc EXCEPT ![p] = [proc[p] EXCEPT !.st = "todo"]]
    BY <1>7 DEF Reap, Unlocked, life, requests
  <2>2. [proc[p] EXCEPT !.st = "todo"] \in Child
        /\ [proc[p] EXCEPT !.st = "todo"].code = proc[p].code
    BY <1>1 DEF Child
  <2>3. Kept(asked)
    BY <1>1, <2>1, <2>2 DEF ExitIsAsked
  <2> QED
    BY <1>1, <2>1, <2>3, AliveKeeps DEF StopInv
<1>8. ASSUME NEW p \in Process, ActExit(p)
      PROVE  StopInv'
  <2>1. /\ Alive /\ UNCHANGED <<asked, files>> /\ proc[p].st = "todo"
        /\ \/ stop' = stop /\ phase' = phase
           \/ /\ stop' = TRUE /\ phase' \in {phase, "stopping"}
              /\ proc[p].code = "exit"
    BY <1>8 DEF ActExit, requests, Stop, NoStop
  <2>2. proc[p].code = "exit" => asked
    BY <1>1, <2>1 DEF ExitIsAsked
  <2>3. Kept(asked)
    BY <1>1, <1>8, NothingKeeps DEF ActExit
  <2>4. stop' \in BOOLEAN /\ (stop' => asked')
    <3>1. CASE stop' = stop
      BY <1>1, <2>1, <3>1 DEF StopInv
    <3>2. CASE stop' = TRUE /\ asked
      BY <2>1, <3>2, Zenon
    <3> QED
      BY <2>1, <2>2, <3>1, <3>2
  <2>5. phase' \in {phase, "stopping", "ended"}
    BY <2>1
  <2> QED
    BY <1>1, <2>1, <2>3, <2>4, <2>5, AliveKeeps
<1>9. ASSUME NEW p \in Process, ActWindow(p) \/ ActPhone(p) \/ ActRemove(p)
      PROVE  StopInv'
  <2>1. Alive /\ UNCHANGED <<phase, stop, asked, files>>
    BY <1>9 DEF ActWindow, ActPhone, ActRemove, Acts, Unlocked, life, requests
  <2>2. Kept(asked)
    <3>1. CASE ActWindow(p)
      BY <1>1, <3>1, LaunchKeeps, NothingKeeps, LeftKeeps DEF ActWindow, Nothing, Ends
    <3>2. CASE ActPhone(p)
      BY <1>1, <3>2, PairingKeeps, PhonesKeep DEF ActPhone
    <3>3. CASE ActRemove(p)
      BY <1>1, <3>3, LaunchKeeps, PhonesKeep DEF ActRemove
    <3> QED
      BY <1>9, <3>1, <3>2, <3>3
  <2> QED
    BY <1>1, <2>1, <2>2, AliveKeeps DEF StopInv
<1>10. ASSUME NEW x \in {"camera", "screen", "home", "creator", "settings", "phone"},
              Menu(x)
       PROVE  StopInv'
  <2>1. Alive /\ UNCHANGED <<phase, stop, asked, files>>
    BY <1>10 DEF Menu, Unlocked, life, requests
  <2>2. Kept(asked)
    BY <1>1, <1>10, LaunchKeeps, PairingKeeps, PhonesKeep DEF Menu
  <2> QED
    BY <1>1, <2>1, <2>2, AliveKeeps DEF StopInv
<1>11. CASE UnreadableClosed \/ Restore
  <2>1. Alive /\ UNCHANGED <<phase, stop, asked, files>>
    BY <1>11 DEF UnreadableClosed, Restore, Unlocked, life, requests
  <2>2. Kept(asked)
    BY <1>1, <1>11, LaunchKeeps DEF UnreadableClosed, Restore
  <2> QED
    BY <1>1, <2>1, <2>2, AliveKeeps DEF StopInv
<1>12. ASSUME NEW x \in Questions, Prepare(x) \/ Ask(x)
       PROVE  StopInv'
  BY <1>1, <1>12, AliveKeeps
     DEF Prepare, Ask, Unlocked, life, windows, requests, StopInv
<1>13. ASSUME NEW x \in Questions, Finish(x, TRUE) \/ Finish(x, FALSE)
       PROVE  StopInv'
  <2>1. Alive /\ UNCHANGED <<proc, files>>
    BY <1>13 DEF Finish, Answer, Unlocked, requests
  <2>2. \/ UNCHANGED <<phase, stop, asked>>
        \/ stop' = TRUE /\ asked' = TRUE /\ phase' \in {phase, "stopping"}
    BY <1>13 DEF Finish, Answer, Stop, NoStop
  <2>3. Kept(asked')
    BY <1>1, <2>1, <2>2 DEF ExitIsAsked
  <2>4. {stop', asked'} \subseteq BOOLEAN /\ (stop' => asked') /\ (asked => asked')
    <3>1. CASE UNCHANGED <<phase, stop, asked>>
      BY <1>1, <3>1 DEF StopInv
    <3>2. CASE stop' = TRUE /\ asked' = TRUE
      BY <3>2, Zenon
    <3> QED
      BY <2>2, <3>1, <3>2
  <2>5. phase' \in {phase, "stopping", "ended"}
    BY <2>2
  <2> QED
    BY <2>1, <2>3, <2>4, <2>5, AliveKeeps
<1>14. CASE PairingShows \/ PairingHides \/ PairingResult \/ PairingDone \/ PairingLeaves
  <2>1. Alive /\ UNCHANGED <<phase, stop, asked, proc, files>>
    BY <1>14 DEF PairingShows, PairingHides, PairingResult, PairingDone, PairingLeaves,
                 Goes, PairingOnly, Unlocked, life, windows, requests
  <2> QED
    BY <1>1, <2>1, AliveKeeps DEF StopInv
<1>15. CASE Terminate
  <2>1. Alive /\ phase' = "ended" /\ UNCHANGED <<stop, asked, files>>
    BY <1>15 DEF Terminate, Alive, requests
  <2>2. \A p \in Process : proc'[p] \in Child
                           /\ (proc'[p] = proc[p] \/ proc'[p].code = "killed")
    <3> SUFFICES ASSUME NEW p \in Process
                 PROVE  proc'[p] \in Child
                        /\ (proc'[p] = proc[p] \/ proc'[p].code = "killed")
      OBVIOUS
    <3>1. [proc[p] EXCEPT !.st = "exited", !.code = "killed"] \in Child
          /\ [proc[p] EXCEPT !.st = "exited", !.code = "killed"].code = "killed"
      BY <1>1, Killed DEF Child
    <3> QED
      BY <1>1, <1>15, <3>1 DEF Terminate
  <2>3. proc' \in [Process -> Child]
    BY <1>15, <2>2 DEF Terminate
  <2>4. Kept(asked)
    BY <1>1, <2>2, <2>3 DEF ExitIsAsked
  <2> QED
    BY <1>1, <2>1, <2>4, AliveKeeps DEF StopInv
<1>16. CASE Quit
  <2>1. phase' = "off" /\ stop' = FALSE /\ asked' = asked
    BY <1>16 DEF Quit
  <2>2. \A p \in Process : proc'[p] \in Child /\ proc'[p].st \in {"free", "orphan"}
    <3> SUFFICES ASSUME NEW p \in Process
                 PROVE  proc'[p] \in Child /\ proc'[p].st \in {"free", "orphan"}
      OBVIOUS
    <3>1. [proc[p] EXCEPT !.st = "orphan"] \in Child
          /\ [proc[p] EXCEPT !.st = "orphan"].st = "orphan"
      BY <1>1 DEF Child
    <3>2. Free \in Child /\ Free.st = "free"
      BY FreeIsChild DEF Free
    <3> QED
      BY <1>1, <1>16, <3>1, <3>2 DEF Quit
  <2>3. proc' \in [Process -> Child]
    BY <1>16, <2>2 DEF Quit
  <2> QED
    BY <1>1, <2>1, <2>2, <2>3 DEF StopInv, Unwatched, ExitIsAsked
<1>17. CASE UNCHANGED vars
  BY <1>1, <1>17 DEF vars, life, windows, requests, StopInv, Unwatched, ExitIsAsked
<1> QED
  BY <1>2, <1>3, <1>4, <1>5, <1>6, <1>7, <1>8, <1>9, <1>10, <1>11, <1>12, <1>13, <1>14,
     <1>15, <1>16, <1>17 DEF Next, Step

\* A controller ends because its own user asked for it: a request file left by
\* an earlier controller is cleared before anything is read, and every exit
\* code and exit file after that comes from a window the user ended that way.
THEOREM Stopped == Spec => []StopIsAsked
<1>1. StopInv => StopIsAsked
  BY DEF StopInv, StopIsAsked
<1> QED
  BY <1>1, StopInvInit, StopInvNext, PTL DEF Spec

-----------------------------------------------------------------------------
(***************************************************************************)
(* The windows.  A handle is forgotten before its process can be reused,   *)
(* and every running window of a tracked role is the one its handle names, *)
(* so that the look at the handle before a launch finds it.                *)
(***************************************************************************)
Window == [role : Role, st : {"running", "orphan"}, code : {"none"}]
            \cup [role : Role, st : {"exited", "todo"}, code : Code]
            \cup {Free}

HandlesHold ==
  \A r \in Tracked : handle[r] # NoProcess =>
    proc[handle[r]].role = r /\ proc[handle[r]].st \in {"running", "exited"}

RunningHeld ==
  \A p \in Process : Running(p) =>
    p \in children /\ (proc[p].role \in Tracked => handle[proc[p].role] = p)

WindowInv ==
  /\ proc \in [Process -> Window]
  /\ handle \in [Tracked -> Process \cup {NoProcess}]
  /\ children \in SUBSET Process
  /\ excuse \in {"no", "user", "error"}
  /\ HandlesHold
  /\ RunningHeld

\* The variables of the controller that say nothing of its windows.
ThreadTypes ==
  /\ scenario \in Scenarios
  /\ phase \in {"off", "starting", "up", "stopping", "ended"}
  /\ {stop, locked, cancel, closed, paired, asked} \subseteq BOOLEAN
  /\ question \in [Questions -> {"none", "preparing", "asking"}]
  /\ due \in 0 .. MaxDue
  /\ pairing \in {"none", "opening", "window", "waiting", "ending", "closing"}
  /\ files \in SUBSET Request
  /\ watch \in Request \cup {"none"}
  /\ dropped \in SUBSET Request
  /\ starts \in 0 .. scenario.starts

HandleInv == WindowInv /\ ThreadTypes /\ ClosedIsTrue

\* Whoever will show a window, hide the application or end it: a window, the
\* monitor of one that was not dismissed for another, the dialog under the
\* lock, a question, a thread on its way to the home window, a pairing.
Shows == \E p \in children : Running(p)
Dismissed(p) == proc[p].code = "killed"
                  /\ proc[p].role \in {"home", "phones", "creator", "settings"}
Monitored == \E p \in Process : proc[p].st \in {"exited", "todo"} /\ ~Dismissed(p)
Asking == \E x \in Questions : question[x] # "none"
Pending == Shows \/ Monitored \/ locked \/ Asking \/ due > 0 \/ pairing # "none"

ShowInv == /\ phase = "up" => ~stop
           /\ phase = "up" /\ excuse = "no" => Pending

\* What a call does to the windows: it dismisses some, or launches one.
Dismiss(q, roles) ==
  proc' = Left(q, roles) /\ handle' = Forget(roles) /\ UNCHANGED <<children, excuse>>
Opens(q) ==
  \E role \in Role : \E roles \in SUBSET Tracked :
    Spawn(role, q, roles) /\ (role \in Tracked => ~Open(role))
Dismisses(q) == \E roles \in SUBSET Tracked : Dismiss(q, roles)
Acting(q) == q \in Process => proc[q].st = "todo"

LEMMA SomeRoles ==
  /\ Tracked \subseteq Role
  /\ {"camera", "screen", "home", "creator", "settings", "phones"} \subseteq Role
  /\ {} \in SUBSET Tracked /\ {"home"} \in SUBSET Tracked
  /\ ControlWindows \in SUBSET Tracked
BY DEF Role, Tracked, ControlWindows

LEMMA WindowFields ==
  ASSUME NEW w \in Window
  PROVE  /\ w.st \in {"free", "running", "orphan", "exited", "todo"}
         /\ w.st = "free" => w = Free
         /\ w.st # "free" => w.role \in Role
         /\ w.st = "running" => w.code = "none"
BY DEF Window, Free

\* The ways a process goes on.
LEMMA WindowEnds ==
  ASSUME NEW w \in Window, w.st = "running", NEW c \in Code
  PROVE  LET x == [w EXCEPT !.st = "exited", !.code = c]
         IN  x \in Window /\ x.st = "exited" /\ x.role = w.role /\ x.code = c
<1>1. w \in [role : Role, st : {"running", "orphan"}, code : {"none"}]
  BY DEF Window, Free
<1> QED
  BY <1>1 DEF Window

LEMMA WindowIsOrphaned ==
  ASSUME NEW w \in Window, w.st = "running"
  PROVE  LET x == [w EXCEPT !.st = "orphan"]
         IN  x \in Window /\ x.st = "orphan"
<1>1. w \in [role : Role, st : {"running", "orphan"}, code : {"none"}]
  BY DEF Window, Free
<1> QED
  BY <1>1 DEF Window

LEMMA WindowIsReaped ==
  ASSUME NEW w \in Window, w.st = "exited"
  PROVE  LET x == [w EXCEPT !.st = "todo"]
         IN  x \in Window /\ x.st = "todo" /\ x.role = w.role /\ x.code = w.code
<1>1. w \in [role : Role, st : {"exited", "todo"}, code : Code]
  BY DEF Window, Free
<1> QED
  BY <1>1 DEF Window

LEMMA FreeIsWindow == Free \in Window /\ Free.st = "free" /\ Free.role = "none"
BY DEF Window, Free

LEMMA NewIsWindow ==
  ASSUME NEW role \in Role
  PROVE  LET w == [role |-> role, st |-> "running", code |-> "none"]
         IN  w \in Window /\ w.st = "running" /\ w.role = role
BY DEF Window

\* A process after a call: freed, ended, or as it was.
LEMMA LeftProcess ==
  ASSUME WindowInv, NEW q, NEW roles \in SUBSET Tracked, NEW p \in Process
  PROVE  LET w == Left(q, roles)[p]
             gone == p # q /\ Running(p) /\ p \in {handle[r] : r \in roles}
         IN  /\ p = q => w = Free
             /\ gone => w \in Window /\ w.st = "exited" /\ w.role = proc[p].role
             /\ p # q /\ ~gone => w = proc[p]
             /\ w \in Window
<1>1. proc[p] \in Window
  BY DEF WindowInv
<1>2. Running(p) =>
        LET x == [proc[p] EXCEPT !.st = "exited", !.code = "killed"]
        IN  x \in Window /\ x.st = "exited" /\ x.role = proc[p].role
  BY <1>1, WindowEnds, Killed DEF Running
<1> QED
  BY <1>1, <1>2, FreeIsWindow DEF Left

LEMMA LeftTypes ==
  ASSUME WindowInv, NEW q, NEW roles \in SUBSET Tracked
  PROVE  Left(q, roles) \in [Process -> Window]
<1>1. \A p \in Process : Left(q, roles)[p] \in Window
  BY LeftProcess
<1> QED
  BY <1>1 DEF Left

\* A running window that was not dismissed is not one of the dismissed roles.
LEMMA LeftRunning ==
  ASSUME WindowInv, NEW q, NEW roles \in SUBSET Tracked, NEW p \in Process,
         Left(q, roles)[p].st = "running"
  PROVE  /\ Running(p) /\ p \in children /\ Left(q, roles)[p] = proc[p] /\ p # q
         /\ proc[p].role \in Tracked =>
              handle[proc[p].role] = p /\ proc[p].role \notin roles
<1>1. p # q /\ Left(q, roles)[p] = proc[p]
  BY LeftProcess, FreeIsWindow
<1>2. Running(p)
  BY <1>1 DEF Running
<1>3. p \notin {handle[r] : r \in roles}
  BY <1>1, <1>2, LeftProcess DEF Running
<1>4. p \in children /\ (proc[p].role \in Tracked => handle[proc[p].role] = p)
  BY <1>2 DEF WindowInv, RunningHeld
<1> QED
  BY <1>1, <1>2, <1>3, <1>4

\* A process whose handle is kept keeps its role, and does not become free.
LEMMA LeftHeld ==
  ASSUME WindowInv, NEW q, Acting(q), NEW roles \in SUBSET Tracked, NEW r \in Tracked,
         handle[r] # NoProcess
  PROVE  /\ handle[r] \in Process
         /\ Left(q, roles)[handle[r]].role = r
         /\ Left(q, roles)[handle[r]].st \in {"running", "exited"}
<1>1. handle[r] \in Process
  BY DEF WindowInv
<1>2. proc[handle[r]].role = r /\ proc[handle[r]].st \in {"running", "exited"}
  BY DEF WindowInv, HandlesHold
<1>3. handle[r] # q
  BY <1>1, <1>2 DEF Acting
<1> QED
  BY <1>1, <1>2, <1>3, LeftProcess DEF Running

LEMMA DismissKeepsWindows ==
  ASSUME WindowInv, NEW q, Acting(q), Dismisses(q)
  PROVE  WindowInv'
<1>1. PICK roles \in SUBSET Tracked : Dismiss(q, roles)
  BY DEF Dismisses
<1>2. /\ proc' = Left(q, roles) /\ children' = children /\ excuse' = excuse
      /\ \A r \in Tracked : handle'[r] = IF r \in roles THEN NoProcess ELSE handle[r]
      /\ handle' \in [Tracked -> Process \cup {NoProcess}]
  BY <1>1 DEF Dismiss, Forget, WindowInv
<1>3. HandlesHold'
  <2> SUFFICES ASSUME NEW r \in Tracked, handle'[r] # NoProcess
               PROVE  proc'[handle'[r]].role = r
                      /\ proc'[handle'[r]].st \in {"running", "exited"}
    BY DEF HandlesHold
  <2>1. handle'[r] = handle[r]
    BY <1>2
  <2> QED
    BY <1>2, <2>1, LeftHeld
<1>4. RunningHeld'
  <2> SUFFICES ASSUME NEW p \in Process, proc'[p].st = "running"
               PROVE  p \in children'
                      /\ (proc'[p].role \in Tracked => handle'[proc'[p].role] = p)
    BY DEF RunningHeld, Running
  <2> QED
    BY <1>2, LeftRunning
<1>5. /\ proc' \in [Process -> Window] /\ children' \in SUBSET Process
      /\ excuse' \in {"no", "user", "error"}
  BY <1>2, LeftTypes DEF WindowInv
<1> QED
  BY <1>2, <1>3, <1>4, <1>5 DEF WindowInv

LEMMA OpenKeepsWindows ==
  ASSUME WindowInv, NEW q, Acting(q), Opens(q)
  PROVE  WindowInv'
<1>1. PICK role \in Role, roles \in SUBSET Tracked :
        Spawn(role, q, roles) /\ (role \in Tracked => ~Open(role))
  BY DEF Opens
<1> DEFINE new == [role |-> role, st |-> "running", code |-> "none"]
<1>2. PICK p \in Process :
        /\ Left(q, roles)[p].st = "free"
        /\ proc' = [Left(q, roles) EXCEPT ![p] = new]
        /\ handle' = [r \in Tracked |-> IF r = role THEN p ELSE Forget(roles)[r]]
        /\ children' = children \cup {p}
        /\ excuse' = "no"
  BY <1>1 DEF Spawn
<1>3. new \in Window /\ new.st = "running" /\ new.role = role
  BY NewIsWindow
<1> HIDE DEF new
<1>4. /\ proc' \in [Process -> Window]
      /\ proc'[p] = new
      /\ \A x \in Process : x # p => proc'[x] = Left(q, roles)[x]
  BY <1>2, <1>3, LeftTypes
<1>5. \A r \in Tracked :
        handle'[r] = IF r = role THEN p ELSE IF r \in roles THEN NoProcess ELSE handle[r]
  BY <1>2 DEF Forget
<1>6. handle' \in [Tracked -> Process \cup {NoProcess}]
  BY <1>2, <1>5 DEF WindowInv
<1>7. HandlesHold'
  <2> SUFFICES ASSUME NEW r \in Tracked, handle'[r] # NoProcess
               PROVE  proc'[handle'[r]].role = r
                      /\ proc'[handle'[r]].st \in {"running", "exited"}
    BY DEF HandlesHold
  <2>1. CASE r = role
    BY <1>3, <1>4, <1>5, <2>1
  <2>2. CASE r # role
    <3>1. handle'[r] = handle[r] /\ handle[r] # NoProcess
      BY <1>5, <2>2
    <3>2. /\ handle[r] \in Process
          /\ Left(q, roles)[handle[r]].role = r
          /\ Left(q, roles)[handle[r]].st \in {"running", "exited"}
      BY <3>1, LeftHeld
    <3>3. handle[r] # p
      BY <1>2, <3>2
    <3> QED
      BY <1>4, <3>1, <3>2, <3>3
  <2> QED
    BY <2>1, <2>2
<1>8. RunningHeld'
  <2> SUFFICES ASSUME NEW x \in Process, proc'[x].st = "running"
               PROVE  x \in children'
                      /\ (proc'[x].role \in Tracked => handle'[proc'[x].role] = x)
    BY DEF RunningHeld, Running
  <2>1. CASE x = p
    BY <1>2, <1>3, <1>4, <1>5, <2>1
  <2>2. CASE x # p
    <3>1. proc'[x] = Left(q, roles)[x]
      BY <1>4, <2>2
    <3>2. /\ Running(x) /\ x \in children /\ proc'[x] = proc[x]
          /\ proc[x].role \in Tracked =>
               handle[proc[x].role] = x /\ proc[x].role \notin roles
      BY <3>1, LeftRunning
    <3>3. ASSUME proc[x].role \in Tracked
          PROVE  handle'[proc[x].role] = x
      <4>1. handle[proc[x].role] = x /\ proc[x].role \notin roles
        BY <3>2, <3>3
      <4>2. x # NoProcess
        BY TrayAssumption
      <4>3. proc[x].role # role
        BY <1>1, <3>2, <3>3, <4>1, <4>2 DEF Open
      <4> QED
        BY <1>5, <3>3, <4>1, <4>3
    <3> QED
      BY <1>2, <3>2, <3>3
  <2> QED
    BY <2>1, <2>2
<1>9. children' \in SUBSET Process
  BY <1>2 DEF WindowInv
<1>10. excuse' \in {"no", "user", "error"}
  BY <1>2, Zenon
<1> QED
  BY <1>4, <1>6, <1>7, <1>8, <1>9, <1>10 DEF WindowInv

-----------------------------------------------------------------------------
(* Each launch is one of the two.                                          *)
LEMMA NothingDismisses ==
  ASSUME WindowInv, NEW q, Nothing(q)
  PROVE  Dismisses(q)
<1>1. Forget({}) = handle
  BY DEF Forget, WindowInv
<1>2. Dismiss(q, {})
  BY <1>1 DEF Nothing, Dismiss
<1> QED
  BY <1>2, SomeRoles DEF Dismisses

LEMMA LaunchMoves ==
  ASSUME WindowInv, NEW q,
         \/ LaunchCamera(q) \/ LaunchScreen(q) \/ LaunchHome(q)
         \/ LaunchOnce("creator", q) \/ LaunchOnce("settings", q)
  PROVE  Dismisses(q) \/ Opens(q)
<1>1. "screen" \notin Tracked
  BY DEF Tracked
<1>2. \/ Nothing(q)
      \/ \E role \in {"camera", "home", "creator", "settings", "screen"} :
         \E roles \in {{}, ControlWindows} :
            Spawn(role, q, roles) /\ (role \in Tracked => ~Open(role))
  BY <1>1 DEF LaunchCamera, LaunchScreen, LaunchHome, LaunchOnce
<1> QED
  BY <1>2, NothingDismisses, SomeRoles DEF Opens

LEMMA PairingMoves ==
  ASSUME WindowInv, NEW q, StartPairing(q)
  PROVE  Dismisses(q)
BY NothingDismisses, SomeRoles DEF StartPairing, Dismisses, Dismiss

LEMMA PhonesMove ==
  ASSUME WindowInv, NEW q, LaunchPhones(q)
  PROVE  Dismisses(q) \/ Opens(q)
<1>1. \/ Nothing(q) \/ StartPairing(q) \/ Dismiss(q, {"home"})
      \/ Spawn("phones", q, {"home"}) /\ ~Open("phones")
  BY DEF LaunchPhones, Dismiss
<1> QED
  BY <1>1, NothingDismisses, PairingMoves, SomeRoles DEF Dismisses, Opens

LEMMA MovesKeepWindows ==
  ASSUME WindowInv, NEW q, Acting(q), Dismisses(q) \/ Opens(q)
  PROVE  WindowInv'
BY DismissKeepsWindows, OpenKeepsWindows

LEMMA NobodyActs == Acting(NoProcess)
BY TrayAssumption DEF Acting

LEMMA SameWindows ==
  ASSUME WindowInv, UNCHANGED <<proc, handle, children>>, excuse' \in {"no", "user", "error"}
  PROVE  WindowInv'
BY DEF WindowInv, HandlesHold, RunningHeld, Running

LEMMA ExitKeepsWindows ==
  ASSUME WindowInv, NEW p \in Process, NEW c \in Code, ChildExits(p, c)
  PROVE  WindowInv'
<1>1. /\ proc[p].st \in {"running", "orphan"}
      /\ proc' = [proc EXCEPT ![p] = IF Running(p)
                     THEN [proc[p] EXCEPT !.st = "exited", !.code = c] ELSE Free]
      /\ UNCHANGED <<handle, children, excuse>>
  BY DEF ChildExits
<1>2. /\ proc'[p] \in Window
      /\ Running(p) => proc'[p].st = "exited" /\ proc'[p].role = proc[p].role
      /\ ~Running(p) => proc'[p] = Free
  <2>1. proc[p] \in Window
    BY DEF WindowInv
  <2>2. proc'[p] = IF Running(p) THEN [proc[p] EXCEPT !.st = "exited", !.code = c]
                   ELSE Free
    BY <1>1 DEF WindowInv
  <2>3. CASE Running(p)
    <3>1. proc'[p] = [proc[p] EXCEPT !.st = "exited", !.code = c]
      BY <2>2, <2>3
    <3>2. proc[p].st = "running"
      BY <2>3 DEF Running
    <3>3. LET x == [proc[p] EXCEPT !.st = "exited", !.code = c]
          IN  x \in Window /\ x.st = "exited" /\ x.role = proc[p].role
      BY <2>1, <3>2, WindowEnds, Zenon
    <3>4. proc'[p] \in Window /\ proc'[p].st = "exited" /\ proc'[p].role = proc[p].role
      BY <3>1, <3>3
    <3> QED
      BY <2>3, <3>4
  <2>4. CASE ~Running(p)
    BY <2>2, <2>4, FreeIsWindow
  <2> QED
    BY <2>3, <2>4
<1>3. \A x \in Process : x # p => proc'[x] = proc[x]
  BY <1>1 DEF WindowInv
<1>4. proc' \in [Process -> Window]
  BY <1>1, <1>2, <1>3 DEF WindowInv
<1>5. HandlesHold'
  <2> SUFFICES ASSUME NEW r \in Tracked, handle[r] # NoProcess
               PROVE  proc'[handle[r]].role = r
                      /\ proc'[handle[r]].st \in {"running", "exited"}
    BY <1>1 DEF HandlesHold
  <2>1. handle[r] \in Process /\ proc[handle[r]].role = r
        /\ proc[handle[r]].st \in {"running", "exited"}
    BY DEF WindowInv, HandlesHold
  <2>2. handle[r] = p => Running(p)
    BY <1>1, <2>1 DEF Running
  <2> QED
    BY <1>2, <1>3, <2>1, <2>2
<1>6. RunningHeld'
  BY <1>1, <1>2, <1>3, FreeIsWindow DEF WindowInv, RunningHeld, Running
<1> QED
  BY <1>1, <1>4, <1>5, <1>6 DEF WindowInv

LEMMA ReapKeepsWindows ==
  ASSUME WindowInv, NEW p \in Process, Reap(p)
  PROVE  WindowInv'
<1>1. /\ proc[p].st = "exited"
      /\ children' = children \ {p} /\ excuse' = excuse
      /\ handle' = [r \in Tracked |-> IF handle[r] = p THEN NoProcess ELSE handle[r]]
      /\ proc' = [proc EXCEPT ![p] = [proc[p] EXCEPT !.st = "todo"]]
  BY DEF Reap
<1>2. proc'[p] \in Window /\ proc'[p].st = "todo"
  BY <1>1, WindowIsReaped DEF WindowInv
<1>3. \A x \in Process : x # p => proc'[x] = proc[x]
  BY <1>1 DEF WindowInv
<1>4. proc' \in [Process -> Window]
  BY <1>1, <1>2, <1>3 DEF WindowInv
<1>5. handle' \in [Tracked -> Process \cup {NoProcess}]
  BY <1>1 DEF WindowInv
<1>6. HandlesHold'
  BY <1>1, <1>3 DEF WindowInv, HandlesHold
<1>7. RunningHeld'
  BY <1>1, <1>2, <1>3 DEF WindowInv, RunningHeld, Running
<1> QED
  BY <1>1, <1>4, <1>5, <1>6, <1>7 DEF WindowInv

LEMMA TerminateKeepsWindows ==
  ASSUME WindowInv, Terminate
  PROVE  WindowInv'
<1>1. /\ children' = {} /\ UNCHANGED <<handle, excuse>>
      /\ proc' = [p \in Process |-> IF p \in children /\ Running(p)
                     THEN [proc[p] EXCEPT !.st = "exited", !.code = "killed"]
                     ELSE proc[p]]
  BY DEF Terminate
<1>2. ASSUME NEW p \in Process
      PROVE  /\ proc'[p] \in Window
             /\ Running(p) => proc'[p].st = "exited" /\ proc'[p].role = proc[p].role
             /\ ~Running(p) => proc'[p] = proc[p]
  <2>1. Running(p) => p \in children
    BY DEF WindowInv, RunningHeld
  <2> QED
    BY <1>1, <2>1, WindowEnds, Killed, ZenonT(30) DEF WindowInv, Running
<1>3. proc' \in [Process -> Window]
  BY <1>1, <1>2
<1>4. HandlesHold'
  <2> SUFFICES ASSUME NEW r \in Tracked, handle[r] # NoProcess
               PROVE  proc'[handle[r]].role = r
                      /\ proc'[handle[r]].st \in {"running", "exited"}
    BY <1>1 DEF HandlesHold
  <2>1. handle[r] \in Process /\ proc[handle[r]].role = r
        /\ proc[handle[r]].st \in {"running", "exited"}
    BY DEF WindowInv, HandlesHold
  <2> QED
    BY <1>2, <2>1
<1>5. RunningHeld'
  BY <1>2 DEF RunningHeld, Running
<1> QED
  BY <1>1, <1>3, <1>4, <1>5 DEF WindowInv

LEMMA QuitKeepsWindows ==
  ASSUME WindowInv, Quit
  PROVE  WindowInv'
<1>1. /\ proc' = [p \in Process |-> IF Running(p) THEN [proc[p] EXCEPT !.st = "orphan"]
                     ELSE IF proc[p].st = "orphan" THEN proc[p] ELSE Free]
      /\ handle' = [r \in Tracked |-> NoProcess] /\ children' = {}
  BY DEF Quit
<1>2. \A p \in Process : proc'[p] \in Window /\ proc'[p].st # "running"
  BY <1>1, WindowIsOrphaned, FreeIsWindow DEF WindowInv, Running
<1>3. proc' \in [Process -> Window]
  BY <1>1, <1>2
<1>4. excuse' \in {"no", "user", "error"}
  <2>1. excuse' = "user"
    BY DEF Quit
  <2> QED
    BY <2>1, Zenon
<1>5. HandlesHold' /\ RunningHeld'
  BY <1>1, <1>2 DEF HandlesHold, RunningHeld, Running
<1> QED
  BY <1>1, <1>3, <1>4, <1>5 DEF WindowInv

LEMMA WindowInvInit == Init => WindowInv
<1> SUFFICES ASSUME Init PROVE WindowInv
  OBVIOUS
<1>1. /\ proc = [p \in Process |-> Free] /\ handle = [r \in Tracked |-> NoProcess]
      /\ children = {}
  BY DEF Init
<1>2. excuse \in {"no", "user", "error"}
  BY DEF Init
<1>3. proc \in [Process -> Window] /\ HandlesHold /\ RunningHeld
  BY <1>1, FreeIsWindow DEF HandlesHold, RunningHeld, Running
<1> QED
  BY <1>1, <1>2, <1>3 DEF WindowInv

LEMMA WindowInvNext ==
  ASSUME WindowInv, [Next]_vars
  PROVE  WindowInv'
<1> USE NobodyActs
<1>0. excuse \in {"no", "user", "error"}
  BY DEF WindowInv
<1>1. CASE Start \/ \E x \in Request : Route(x)
  BY <1>0, <1>1, SameWindows DEF Start, Route, windows
<1>2. ASSUME NEW f \in {"camera", "home", "none"}, SetUp(f)
      PROVE  WindowInv'
  <2>1. CASE f = "camera"
    BY <1>2, <2>1, LaunchMoves, MovesKeepWindows DEF SetUp, First
  <2>2. CASE f = "home"
    BY <1>2, <2>2, LaunchMoves, MovesKeepWindows DEF SetUp, First
  <2>3. CASE f = "none"
    <3>1. excuse' = "user" /\ UNCHANGED <<proc, handle, children>>
      BY <1>2, <2>3 DEF SetUp, First
    <3>2. excuse' \in {"no", "user", "error"}
      BY <3>1, Zenon
    <3> QED
      BY <3>1, <3>2, SameWindows
  <2> QED
    BY <2>1, <2>2, <2>3
<1>3. CASE Watch
  <2>1. LaunchCamera(NoProcess) \/ LaunchHome(NoProcess) \/ UNCHANGED windows
    BY <1>3 DEF Watch
  <2> QED
    BY <1>0, <2>1, LaunchMoves, MovesKeepWindows, SameWindows DEF windows
<1>4. ASSUME NEW p \in Process,
             (\E c \in Code : ChildExits(p, c)) \/ Reap(p)
      PROVE  WindowInv'
  BY <1>4, ExitKeepsWindows, ReapKeepsWindows
<1>5. ASSUME NEW p \in Process,
             ActExit(p) \/ ActWindow(p) \/ ActPhone(p) \/ ActRemove(p)
      PROVE  WindowInv'
  <2>1. Acting(p)
    BY <1>5 DEF Acting, ActExit, ActWindow, ActPhone, ActRemove, Acts
  <2>2. CASE ActExit(p)
    BY <2>1, <2>2, NothingDismisses, MovesKeepWindows DEF ActExit
  <2>3. CASE ActWindow(p)
    <3>1. \/ LaunchCamera(p) \/ LaunchScreen(p) \/ LaunchHome(p)
          \/ LaunchOnce("creator", p) \/ Nothing(p)
          \/ Ends(p, "user") \/ Ends(p, IF AnyWindow THEN excuse ELSE "error")
      BY <2>3 DEF ActWindow
    <3>2. CASE Ends(p, "user") \/ Ends(p, IF AnyWindow THEN excuse ELSE "error")
      <4> USE DEF Ends
      <4>1. excuse' \in {"no", "user", "error"}
        BY <1>0, <3>2
      <4>2. proc' \in [Process -> Window]
        BY <3>2, LeftTypes, SomeRoles
      <4>3. HandlesHold'
        BY <2>1, <3>2, LeftHeld, SomeRoles DEF HandlesHold
      <4>4. RunningHeld'
        BY <3>2, LeftRunning, SomeRoles DEF RunningHeld, Running
      <4> QED
        BY <3>2, <4>1, <4>2, <4>3, <4>4 DEF WindowInv
    <3>3. CASE \/ LaunchCamera(p) \/ LaunchScreen(p) \/ LaunchHome(p)
               \/ LaunchOnce("creator", p)
      BY <2>1, <3>3, LaunchMoves, MovesKeepWindows
    <3>4. CASE Nothing(p)
      BY <2>1, <3>4, NothingDismisses, MovesKeepWindows
    <3> QED
      BY <3>1, <3>2, <3>3, <3>4
  <2>4. CASE ActPhone(p)
    <3>1. StartPairing(p) \/ LaunchPhones(p)
      BY <2>4 DEF ActPhone
    <3> QED
      BY <2>1, <3>1, PairingMoves, PhonesMove, MovesKeepWindows
  <2>5. CASE ActRemove(p)
    <3>1. LaunchHome(p) \/ LaunchPhones(p)
      BY <2>5 DEF ActRemove
    <3> QED
      BY <2>1, <3>1, LaunchMoves, PhonesMove, MovesKeepWindows
  <2> QED
    BY <1>5, <2>2, <2>3, <2>4, <2>5
<1>6. ASSUME NEW x \in {"camera", "screen", "home", "creator", "settings", "phone"},
             Menu(x)
      PROVE  WindowInv'
  <2>1. \/ LaunchCamera(NoProcess) \/ LaunchScreen(NoProcess) \/ LaunchHome(NoProcess)
        \/ LaunchOnce("creator", NoProcess) \/ LaunchOnce("settings", NoProcess)
        \/ LaunchPhones(NoProcess) \/ StartPairing(NoProcess)
    BY <1>6 DEF Menu
  <2> QED
    BY <2>1, LaunchMoves, PhonesMove, PairingMoves, MovesKeepWindows
<1>7. CASE UnreadableClosed \/ Restore
  BY <1>7, LaunchMoves, MovesKeepWindows DEF UnreadableClosed, Restore
<1>8. ASSUME NEW x \in Questions, Prepare(x) \/ Ask(x)
      PROVE  WindowInv'
  BY <1>0, <1>8, SameWindows DEF Prepare, Ask, windows
<1>9. ASSUME NEW x \in Questions, NEW yes \in BOOLEAN, Finish(x, yes)
      PROVE  WindowInv'
  <2>1. /\ UNCHANGED <<proc, handle, children>>
        /\ excuse' = IF x = "link" /\ yes /\ ~AnyWindow THEN "user" ELSE excuse
    BY <1>9 DEF Finish, Answer
  <2>2. excuse' \in {"no", "user", "error"}
    BY <1>0, <2>1
  <2> QED
    BY <2>1, <2>2, SameWindows
<1>10. CASE PairingShows \/ PairingHides \/ PairingResult \/ PairingDone \/ PairingLeaves
  BY <1>0, <1>10, SameWindows
     DEF PairingShows, PairingHides, PairingResult, PairingDone, PairingLeaves,
         PairingOnly, windows
<1>11. CASE Terminate \/ Quit
  BY <1>11, TerminateKeepsWindows, QuitKeepsWindows
<1>12. CASE UNCHANGED vars
  BY <1>0, <1>12, SameWindows DEF vars, windows
<1> QED
  BY <1>1, <1>2, <1>3, <1>4, <1>5, <1>6, <1>7, <1>8, <1>9, <1>10, <1>11, <1>12
     DEF Next, Step

-----------------------------------------------------------------------------
(* The rest of the types, and the pairing window's event.                  *)
LEMMA Events ==
  ASSUME ThreadTypes
  PROVE  /\ {stop, locked, cancel, closed, paired, asked} \subseteq BOOLEAN
         /\ phase \in {"off", "starting", "up", "stopping", "ended"}
         /\ due \in Nat
BY TrayAssumption DEF ThreadTypes

\* The pairing thread's variables, and whether a dialog holds the lock.
PairingTypes ==
  /\ locked \in BOOLEAN /\ cancel \in BOOLEAN /\ closed \in BOOLEAN
  /\ pairing \in {"none", "opening", "window", "waiting", "ending", "closing"}
  /\ ClosedIsTrue

LEMMA PairingStartKeeps ==
  ASSUME PairingTypes, NEW q, StartPairing(q), UNCHANGED locked
  PROVE  PairingTypes'
<1>1. CASE UNCHANGED pairThread
  BY <1>1 DEF PairingTypes, ClosedIsTrue, pairThread
<1>2. CASE pairing' = "opening" /\ cancel' = FALSE /\ closed' = FALSE
  <2>1. cancel' \in BOOLEAN /\ closed' \in BOOLEAN
    BY <1>2, Zenon
  <2> QED
    BY <1>2, <2>1 DEF PairingTypes, ClosedIsTrue
<1> QED
  BY <1>1, <1>2 DEF StartPairing

LEMMA PhonesKeepPairing ==
  ASSUME PairingTypes, NEW q, LaunchPhones(q)
  PROVE  PairingTypes'
<1>1. CASE UNCHANGED <<pairThread, locked>>
  BY <1>1 DEF PairingTypes, ClosedIsTrue, pairThread
<1>2. CASE StartPairing(q) /\ UNCHANGED locked
  BY <1>2, PairingStartKeeps
<1>3. CASE locked' = TRUE /\ UNCHANGED pairThread
  <2>1. locked' \in BOOLEAN
    BY <1>3, Zenon
  <2> QED
    BY <1>3, <2>1 DEF PairingTypes, ClosedIsTrue, pairThread
<1> QED
  BY <1>1, <1>2, <1>3 DEF LaunchPhones

\* The life of the controller, its questions and its requests.
LifeTypes ==
  /\ scenario \in Scenarios
  /\ phase \in {"off", "starting", "up", "stopping", "ended"}
  /\ stop \in BOOLEAN /\ asked \in BOOLEAN /\ paired \in BOOLEAN
  /\ question \in [Questions -> {"none", "preparing", "asking"}]
  /\ due \in 0 .. MaxDue
  /\ files \in SUBSET Request
  /\ watch \in Request \cup {"none"}
  /\ dropped \in SUBSET Request
  /\ starts \in 0 .. scenario.starts

LEMMA ThreadParts == ThreadTypes /\ ClosedIsTrue <=> LifeTypes /\ PairingTypes
BY DEF ThreadTypes, LifeTypes, PairingTypes

LEMMA LifeKeeps ==
  ASSUME LifeTypes, UNCHANGED <<scenario, life, questions, requests, paired>>
  PROVE  LifeTypes'
BY DEF LifeTypes, life, questions, requests

LEMMA PairingTypesNext ==
  ASSUME PairingTypes, [Next]_vars
  PROVE  PairingTypes'
<1> DEFINE Same == UNCHANGED <<pairThread, locked>>
<1>1. ASSUME Same
      PROVE  PairingTypes'
  BY <1>1 DEF PairingTypes, ClosedIsTrue, pairThread
<1>2. ASSUME \/ Start \/ (\E f \in {"camera", "home", "none"} : SetUp(f))
             \/ (\E x \in Request : Route(x))
             \/ (\E p \in Process : \/ \E c \in Code : ChildExits(p, c)
                                    \/ Reap(p) \/ ActWindow(p))
             \/ Restore \/ Terminate \/ (\E x \in Questions : Ask(x)) \/ UNCHANGED vars
      PROVE  PairingTypes'
  <2>1. Same
    BY <1>2 DEF Start, SetUp, Route, ChildExits, Reap, ActWindow, Restore, Terminate,
                Ask, vars
  <2> QED
    BY <1>1, <2>1
<1>3. ASSUME cancel' = TRUE, UNCHANGED <<pairing, closed, locked>>
      PROVE  PairingTypes'
  <2>1. cancel' \in BOOLEAN
    BY <1>3, Zenon
  <2> QED
    BY <1>3, <2>1 DEF PairingTypes, ClosedIsTrue
<1>4. ASSUME \/ Watch \/ (\E p \in Process : ActExit(p))
             \/ (\E x \in Questions : Prepare(x) \/ Finish(x, TRUE) \/ Finish(x, FALSE))
      PROVE  PairingTypes'
  <2>1. /\ UNCHANGED <<pairing, closed, locked>>
        /\ cancel' = TRUE \/ cancel' = cancel
    BY <1>4 DEF Watch, ActExit, Prepare, Finish, Answer, Stop, NoStop
  <2>2. cancel' = cancel => Same
    BY <2>1 DEF pairThread
  <2> QED
    BY <1>1, <1>3, <2>1, <2>2
<1>5. ASSUME NEW p \in Process, ActPhone(p) \/ ActRemove(p)
      PROVE  PairingTypes'
  <2>1. \/ StartPairing(p) /\ UNCHANGED locked
        \/ LaunchPhones(p)
        \/ Same
    BY <1>5 DEF ActPhone, ActRemove
  <2> QED
    BY <1>1, <2>1, PairingStartKeeps, PhonesKeepPairing
<1>6. ASSUME NEW x \in {"camera", "screen", "home", "creator", "settings", "phone"},
             Menu(x)
      PROVE  PairingTypes'
  <2>1. \/ StartPairing(NoProcess) /\ UNCHANGED locked
        \/ LaunchPhones(NoProcess)
        \/ Same
    BY <1>6 DEF Menu
  <2> QED
    BY <1>1, <2>1, PairingStartKeeps, PhonesKeepPairing
<1>7. CASE UnreadableClosed
  <2>1. locked' = FALSE /\ UNCHANGED pairThread
    BY <1>7 DEF UnreadableClosed
  <2>2. locked' \in BOOLEAN
    BY <2>1, Zenon
  <2> QED
    BY <2>1, <2>2 DEF PairingTypes, ClosedIsTrue, pairThread
<1>8. CASE PairingShows \/ PairingResult \/ PairingLeaves
  <2>1. /\ UNCHANGED <<closed, cancel, locked>>
        /\ pairing' \in {"window", "ending", "none"}
        /\ pairing' = "window" => pairing = "opening"
    BY <1>8 DEF PairingShows, PairingResult, PairingLeaves, Goes, PairingOnly
  <2> QED
    BY <2>1 DEF PairingTypes, ClosedIsTrue
<1>9. CASE PairingHides \/ PairingDone
  <2>1. /\ closed' = TRUE /\ UNCHANGED <<cancel, locked>>
        /\ pairing' \in {"waiting", "ending", "closing"}
    BY <1>9 DEF PairingHides, PairingDone, Goes, PairingOnly
  <2>2. closed' \in BOOLEAN
    BY <2>1, Zenon
  <2> QED
    BY <2>1, <2>2 DEF PairingTypes, ClosedIsTrue
<1>10. CASE Quit
  <2>1. pairing' = "none" /\ locked' = FALSE /\ cancel' = FALSE /\ closed' = TRUE
    BY <1>10 DEF Quit
  <2>2. locked' \in BOOLEAN /\ cancel' \in BOOLEAN /\ closed' \in BOOLEAN
    BY <2>1, Zenon
  <2> QED
    BY <2>1, <2>2 DEF PairingTypes, ClosedIsTrue
<1> QED
  BY <1>2, <1>4, <1>5, <1>6, <1>7, <1>8, <1>9, <1>10 DEF Next, Step

LEMMA LifeTypesNext ==
  ASSUME LifeTypes, [Next]_vars
  PROVE  LifeTypes'
<1> DEFINE Same == UNCHANGED <<life, questions, requests, paired>>
<1>0. scenario' = scenario
  BY DEF Next, vars
<1>1. ASSUME Same
      PROVE  LifeTypes'
  BY <1>0, <1>1, LifeKeeps
<1>2. /\ stop \in BOOLEAN /\ asked \in BOOLEAN /\ paired \in BOOLEAN
      /\ phase \in {"off", "starting", "up", "stopping", "ended"}
      /\ due \in 0 .. MaxDue /\ starts \in 0 .. scenario.starts
      /\ scenario.starts \in Nat /\ MaxDue \in Nat
      /\ files \in SUBSET Request /\ dropped \in SUBSET Request
      /\ watch \in Request \cup {"none"}
      /\ question \in [Questions -> {"none", "preparing", "asking"}]
  BY TrayAssumption DEF LifeTypes
<1>3. CASE Start
  BY <1>0, <1>2, <1>3 DEF Start, questions, requests, LifeTypes
<1>4. ASSUME NEW f \in {"camera", "home", "none"}, SetUp(f)
      PROVE  LifeTypes'
  <2>1. /\ phase' = "up" /\ watch' = "exit" /\ asked' = FALSE /\ files' = {}
        /\ dropped' = dropped \cup (files \cap {"camera", "home"})
        /\ UNCHANGED <<stop, starts, question, due, paired>>
    BY <1>4 DEF SetUp, questions
  <2>2. asked' \in BOOLEAN
    BY <2>1, Zenon
  <2>3. watch' \in Request
    BY <2>1 DEF Request
  <2> QED
    BY <1>0, <1>2, <2>1, <2>2, <2>3 DEF LifeTypes
<1>5. ASSUME NEW x \in Request, Route(x)
      PROVE  LifeTypes'
  BY <1>0, <1>2, <1>5 DEF Route, Leave, life, questions, LifeTypes
<1>6. ASSUME Stop \/ NoStop
      PROVE  /\ stop' \in BOOLEAN
             /\ phase' \in {"off", "starting", "up", "stopping", "ended"}
  <2>1. CASE Stop
    <3>1. stop' = TRUE /\ phase' = IF phase = "up" THEN "stopping" ELSE phase
      BY <2>1 DEF Stop
    <3>2. stop' \in BOOLEAN
      BY <3>1, Zenon
    <3> QED
      BY <1>2, <3>1, <3>2
  <2>2. CASE NoStop
    BY <1>2, <2>2 DEF NoStop
  <2> QED
    BY <1>6, <2>1, <2>2
<1>7. CASE Watch
  <2>1. /\ Stop \/ NoStop
        /\ files' = files \ {watch}
        /\ watch' \in {"none", AfterWatch[watch]} /\ watch # "none"
        /\ UNCHANGED <<starts, asked, question, due, dropped, paired>>
    BY <1>7 DEF Watch, Consume, questions
  <2>2. AfterWatch[watch] \in Request
    BY <1>2, <2>1 DEF AfterWatch, Request
  <2> QED
    BY <1>0, <1>2, <1>6, <2>1, <2>2 DEF LifeTypes
<1>8. ASSUME NEW p \in Process, NEW c \in Code, ChildExits(p, c)
      PROVE  LifeTypes'
  <2>1. /\ asked' = (asked \/ c = "exit")
        /\ UNCHANGED <<phase, stop, starts, question, due, watch, dropped, paired>>
        /\ files' \in {files \cup {"camera_closed"}, files \cup {"exit"}, files \cup {}}
    BY <1>8 DEF ChildExits, Leave, questions
  <2>2. asked' \in BOOLEAN
    BY <2>1, Zenon
  <2>3. files' \in SUBSET Request
    BY <1>2, <2>1 DEF Request
  <2> QED
    BY <1>0, <1>2, <2>1, <2>2, <2>3 DEF LifeTypes
<1>9. ASSUME NEW p \in Process, Reap(p) \/ ActWindow(p) \/ ActPhone(p)
      PROVE  LifeTypes'
  BY <1>1, <1>9 DEF Reap, ActWindow, ActPhone
<1>10. ASSUME NEW p \in Process, ActExit(p)
       PROVE  LifeTypes'
  <2>1. (Stop \/ NoStop) /\ UNCHANGED <<starts, asked, questions, requests, paired>>
    BY <1>10 DEF ActExit
  <2> QED
    BY <1>0, <1>2, <1>6, <2>1 DEF LifeTypes, questions, requests
<1>11. ASSUME NEW p \in Process, ActRemove(p)
       PROVE  LifeTypes'
  <2>1. paired' \in {FALSE, paired} /\ UNCHANGED <<life, questions, requests>>
    BY <1>11 DEF ActRemove
  <2>2. paired' \in BOOLEAN
    <3>1. FALSE \in BOOLEAN
      BY Zenon
    <3> QED
      BY <1>2, <2>1, <3>1
  <2> QED
    BY <1>0, <1>2, <2>1, <2>2 DEF LifeTypes, life, questions, requests
<1>12. ASSUME NEW x \in {"camera", "screen", "home", "creator", "settings", "phone"},
              Menu(x)
       PROVE  LifeTypes'
  BY <1>1, <1>12 DEF Menu
<1>13. CASE UnreadableClosed
  BY <1>1, <1>13 DEF UnreadableClosed
<1>14. ASSUME NEW x \in Questions, Prepare(x) \/ Ask(x)
       PROVE  LifeTypes'
  BY <1>0, <1>2, <1>14 DEF Prepare, Ask, life, requests, LifeTypes
<1>15. ASSUME NEW x \in Questions, NEW yes \in BOOLEAN, Finish(x, yes)
       PROVE  LifeTypes'
  <2>1. /\ question' = [question EXCEPT ![x] = "none"]
        /\ (Stop /\ asked' = TRUE) \/ (NoStop /\ UNCHANGED asked)
        /\ due' = due \/ (due' = due + 1 /\ due < MaxDue)
        /\ UNCHANGED <<starts, files, watch, dropped, paired>>
    BY <1>15 DEF Finish, Answer, requests
  <2>2. asked' \in BOOLEAN
    <3>1. TRUE \in BOOLEAN
      BY Zenon
    <3> QED
      BY <1>2, <2>1, <3>1
  <2>3. due' \in 0 .. MaxDue
    BY <1>2, <2>1
  <2> QED
    BY <1>0, <1>2, <1>6, <2>1, <2>2, <2>3 DEF LifeTypes
<1>16. CASE Restore
  BY <1>0, <1>2, <1>16 DEF Restore, life, requests, LifeTypes
<1>17. CASE PairingShows \/ PairingHides \/ PairingDone
  BY <1>1, <1>17 DEF PairingShows, PairingHides, PairingDone, PairingOnly, questions
<1>18. CASE PairingResult
  <2>1. paired' \in {paired, TRUE} /\ UNCHANGED <<life, questions, requests>>
    BY <1>18 DEF PairingResult, PairingOnly, questions
  <2>2. paired' \in BOOLEAN
    <3>1. TRUE \in BOOLEAN
      BY Zenon
    <3> QED
      BY <1>2, <2>1, <3>1
  <2> QED
    BY <1>0, <1>2, <2>1, <2>2 DEF LifeTypes, life, questions, requests
<1>19. CASE PairingLeaves
  <2>1. /\ UNCHANGED <<life, question, requests, paired>>
        /\ due' = due \/ (due' = due + 1 /\ due < MaxDue)
    BY <1>19 DEF PairingLeaves, PairingOnly
  <2> QED
    BY <1>0, <1>2, <2>1 DEF LifeTypes, life, requests
<1>20. CASE Terminate
  BY <1>0, <1>2, <1>20 DEF Terminate, questions, requests, LifeTypes
<1>21. CASE Quit
  <2>1. /\ phase' = "off" /\ stop' = FALSE /\ due' = 0 /\ watch' = "none"
        /\ question' = [x \in Questions |-> "none"]
        /\ UNCHANGED <<starts, asked, files, dropped, paired>>
    BY <1>21 DEF Quit
  <2>2. stop' \in BOOLEAN
    BY <2>1, Zenon
  <2> QED
    BY <1>0, <1>2, <2>1, <2>2 DEF LifeTypes
<1>22. CASE UNCHANGED vars
  BY <1>1, <1>22 DEF vars
<1> QED
  BY <1>3, <1>4, <1>5, <1>7, <1>8, <1>9, <1>10, <1>11, <1>12, <1>13, <1>14, <1>15, <1>16,
     <1>17, <1>18, <1>19, <1>20, <1>21, <1>22 DEF Next, Step

LEMMA HandleInvInit == Init => HandleInv
<1> SUFFICES ASSUME Init PROVE HandleInv
  OBVIOUS
<1>1. /\ scenario \in Scenarios /\ phase = "off" /\ stop = FALSE /\ starts = 0
      /\ asked = FALSE /\ question = [x \in Questions |-> "none"] /\ due = 0
      /\ pairing = "none" /\ cancel = FALSE /\ closed = TRUE
      /\ files = {} /\ watch = "none" /\ dropped = {}
      /\ locked = FALSE /\ paired \in BOOLEAN
  BY DEF Init
<1>2. /\ stop \in BOOLEAN /\ asked \in BOOLEAN /\ cancel \in BOOLEAN
      /\ closed \in BOOLEAN /\ locked \in BOOLEAN
  BY <1>1, Zenon
<1>3. LifeTypes
  BY <1>1, <1>2, TrayAssumption DEF LifeTypes
<1>4. PairingTypes
  BY <1>1, <1>2 DEF PairingTypes, ClosedIsTrue
<1> QED
  BY <1>3, <1>4, ThreadParts, WindowInvInit DEF HandleInv

LEMMA HandleInvNext ==
  ASSUME HandleInv, [Next]_vars
  PROVE  HandleInv'
<1>1. WindowInv'
  BY WindowInvNext DEF HandleInv
<1>2. LifeTypes /\ PairingTypes
  BY ThreadParts DEF HandleInv
<1>3. LifeTypes' /\ PairingTypes'
  BY <1>2, LifeTypesNext, PairingTypesNext
<1>4. (ThreadTypes /\ ClosedIsTrue)'
  BY <1>3 DEF ThreadTypes, LifeTypes, PairingTypes
<1> QED
  BY <1>1, <1>4 DEF HandleInv

\* The controller's handles and events tell the truth: one window of each kind
\* is open, however late the monitor of an earlier one wakes up, and the closed
\* event is not set under a pairing window.
THEOREM HandlesTrue == Spec => []HandlesAreTrue
<1>1. HandleInv => HandlesAreTrue
  <2> SUFFICES ASSUME HandleInv PROVE HandlesAreTrue
    OBVIOUS
  <2>1. WindowInv /\ ThreadTypes /\ ClosedIsTrue
    BY DEF HandleInv
  <2>2. OneWindowPerRole
    BY <2>1 DEF OneWindowPerRole, WindowInv, RunningHeld
  <2>3. TypeOK
    BY <2>1 DEF TypeOK, WindowInv, Window, ThreadTypes
  <2> QED
    BY <2>1, <2>2, <2>3 DEF HandlesAreTrue
<1> QED
  BY <1>1, HandleInvInit, HandleInvNext, PTL DEF Spec

-----------------------------------------------------------------------------
(* What is on the screen after each call.                                  *)
LEMMA QuestionsAreFew ==
  /\ Dialogs = 0 <=> ~Asking
  /\ \A x \in Questions : {y \in Questions : question[y] # "none"} = {x} => Dialogs = 1
<1> DEFINE open == {x \in Questions : question[x] # "none"}
<1>1. IsFiniteSet({"link"}) /\ IsFiniteSet({"exit"})
  BY FS_Singleton
<1>2. IsFiniteSet({"link"} \cup {"exit"})
  BY <1>1, FS_Union
<1>3. Questions = {"link"} \cup {"exit"}
  BY DEF Questions
<1>4. IsFiniteSet(open)
  BY <1>2, <1>3, FS_Subset
<1>5. Cardinality(open) = 0 <=> open = {}
  BY <1>4, FS_EmptySet
<1>6. open = {} <=> ~Asking
  BY DEF Asking
<1>7. Dialogs = Cardinality(open)
  BY DEF Dialogs
<1>8. ASSUME NEW x \in Questions, open = {x}
      PROVE  Dialogs = 1
  BY <1>7, <1>8, FS_Singleton
<1> QED
  BY <1>5, <1>6, <1>7, <1>8

LEMMA SpawnShows ==
  ASSUME WindowInv, NEW role, NEW q, NEW roles \in SUBSET Tracked, Spawn(role, q, roles)
  PROVE  Shows'
<1>1. PICK p \in Process :
        /\ proc' = [Left(q, roles) EXCEPT ![p] = [role |-> role, st |-> "running",
                                                  code |-> "none"]]
        /\ children' = children \cup {p}
  BY DEF Spawn
<1>2. p \in children' /\ proc'[p].st = "running"
  BY <1>1, LeftTypes
<1> QED
  BY <1>2 DEF Shows, Running

LEMMA NothingHides ==
  ASSUME WindowInv, NEW q, Acting(q), Nothing(q)
  PROVE  /\ children' = children
         /\ \A p \in Process : p # q => proc'[p] = proc[p]
         /\ Shows => Shows'
<1>1. children' = children
  BY DEF Nothing
<1>2. \A p \in Process : p # q => proc'[p] = proc[p]
  BY LeftProcess, SomeRoles DEF Nothing
<1>3. \A p \in children : Running(p) => p \in Process /\ p # q
  BY DEF WindowInv, Acting, Running
<1> QED
  BY <1>1, <1>2, <1>3 DEF Shows, Running

LEMMA OpenShows ==
  ASSUME WindowInv, NEW r \in Tracked, Open(r)
  PROVE  Shows
<1>1. handle[r] \in Process
  BY DEF WindowInv, Open
<1>2. handle[r] \in children
  BY <1>1 DEF WindowInv, RunningHeld, Open
<1> QED
  BY <1>2 DEF Open, Shows

\* A launch shows its window, finds it open, or leaves it to a question.
LEMMA LaunchShows ==
  ASSUME WindowInv, ~stop, NEW q, Acting(q),
         \/ LaunchCamera(q) \/ LaunchScreen(q) \/ LaunchHome(q)
         \/ LaunchOnce("creator", q) \/ LaunchOnce("settings", q)
  PROVE  Shows' \/ Asking
<1>1. {"camera", "creator", "settings", "phones", "home"} \subseteq Tracked
  BY DEF Tracked
<1>2. \/ Nothing(q) /\ ~Quiet
      \/ Nothing(q) /\ \E r \in {"camera", "creator", "settings", "phones", "home"} : Open(r)
      \/ \E role \in Role : \E roles \in {{}, ControlWindows} : Spawn(role, q, roles)
  BY SomeRoles DEF LaunchCamera, LaunchScreen, LaunchHome, LaunchOnce
<1>3. ~Quiet => Asking
  BY QuestionsAreFew DEF Quiet
<1> QED
  BY <1>1, <1>2, <1>3, NothingHides, OpenShows, SpawnShows, SomeRoles

LEMMA PairingIsPending ==
  ASSUME NEW q, StartPairing(q)
  PROVE  pairing' # "none"
BY DEF StartPairing, pairThread

LEMMA PhonesShow ==
  ASSUME WindowInv, ~stop, NEW q, Acting(q), LaunchPhones(q)
  PROVE  Shows' \/ Asking \/ pairing' # "none" \/ locked'
<1>1. "phones" \in Tracked
  BY DEF Tracked
<1>2. \/ Nothing(q) /\ ~Quiet
      \/ Nothing(q) /\ Open("phones")
      \/ StartPairing(q)
      \/ Spawn("phones", q, {"home"})
      \/ locked' = TRUE
  BY DEF LaunchPhones
<1>3. ~Quiet => Asking
  BY QuestionsAreFew DEF Quiet
<1>4. CASE locked' = TRUE
  BY <1>4, Zenon
<1> QED
  BY <1>1, <1>2, <1>3, <1>4, NothingHides, OpenShows, SpawnShows, PairingIsPending, SomeRoles

\* The monitor of a window that was dismissed leaves the rest as it is.
LEMMA DismissedIsNothing ==
  ASSUME WindowInv, NEW q \in Process, Acting(q), Nothing(q), Dismissed(q), Pending,
         UNCHANGED <<locked, question, due, pairing>>
  PROVE  Pending'
<1>1. CASE Shows
  BY <1>1, NothingHides DEF Pending
<1>2. CASE Monitored
  <2>1. PICK p \in Process : proc[p].st \in {"exited", "todo"} /\ ~Dismissed(p)
    BY <1>2 DEF Monitored
  <2>2. proc'[p] = proc[p]
    BY <2>1, NothingHides
  <2>3. Monitored'
    BY <2>1, <2>2 DEF Monitored, Dismissed
  <2> QED
    BY <2>3 DEF Pending
<1>3. CASE locked \/ Asking \/ due > 0 \/ pairing # "none"
  BY <1>3 DEF Pending, Asking
<1> QED
  BY <1>1, <1>2, <1>3 DEF Pending

LEMMA ExitIsMonitored ==
  ASSUME WindowInv, NEW p \in Process, NEW c \in Code, ChildExits(p, c), Pending,
         UNCHANGED <<locked, question, due, pairing>>
  PROVE  Pending'
<1>1. /\ proc[p].st \in {"running", "orphan"} /\ c \in Codes[proc[p].role]
      /\ proc' = [proc EXCEPT ![p] = IF Running(p)
                     THEN [proc[p] EXCEPT !.st = "exited", !.code = c] ELSE Free]
      /\ children' = children
  BY DEF ChildExits
<1>2. \A x \in Process : x # p => proc'[x] = proc[x]
  BY <1>1 DEF WindowInv
<1>3. proc[p] \in Window /\ proc[p].role \in Role
  BY <1>1, WindowFields DEF WindowInv
<1>4. c # "killed"
  BY <1>1, <1>3 DEF Codes, Role, Tracked
<1>5. CASE Shows
  <2>1. PICK x \in children : Running(x)
    BY <1>5 DEF Shows
  <2>2. x \in Process
    BY DEF WindowInv
  <2>3. CASE x = p
    <3>1. proc'[p] = [proc[p] EXCEPT !.st = "exited", !.code = c]
      BY <1>1, <2>1, <2>3 DEF WindowInv
    <3>2. LET y == [proc[p] EXCEPT !.st = "exited", !.code = c]
          IN  y.st = "exited" /\ y.code = c
      BY <1>3, <2>1, <2>3, WindowEnds DEF Running
    <3>3. proc'[p].st = "exited" /\ proc'[p].code # "killed"
      BY <1>4, <3>1, <3>2
    <3>4. Monitored'
      BY <3>3 DEF Monitored, Dismissed
    <3> QED
      BY <3>4 DEF Pending
  <2>4. CASE x # p
    <3>1. Shows'
      BY <1>1, <1>2, <2>1, <2>2, <2>4 DEF Shows, Running
    <3> QED
      BY <3>1 DEF Pending
  <2> QED
    BY <2>3, <2>4
<1>6. CASE Monitored
  <2>1. PICK x \in Process : proc[x].st \in {"exited", "todo"} /\ ~Dismissed(x)
    BY <1>6 DEF Monitored
  <2>2. proc'[x] = proc[x]
    BY <1>1, <1>2, <2>1
  <2>3. Monitored'
    BY <2>1, <2>2 DEF Monitored, Dismissed
  <2> QED
    BY <2>3 DEF Pending
<1>7. CASE locked \/ Asking \/ due > 0 \/ pairing # "none"
  BY <1>7 DEF Pending, Asking
<1> QED
  BY <1>5, <1>6, <1>7 DEF Pending

LEMMA ReapIsPending ==
  ASSUME WindowInv, NEW p \in Process, Reap(p), Pending
  PROVE  Pending'
<1>1. /\ proc[p].st = "exited" /\ children' = children \ {p}
      /\ proc' = [proc EXCEPT ![p] = [proc[p] EXCEPT !.st = "todo"]]
      /\ UNCHANGED <<locked, question, due, pairing>>
  BY DEF Reap, questions, pairThread
<1>2. \A x \in Process : x # p => proc'[x] = proc[x]
  BY <1>1 DEF WindowInv
<1>3. proc'[p].st = "todo" /\ proc'[p].role = proc[p].role /\ proc'[p].code = proc[p].code
  <2>1. LET y == [proc[p] EXCEPT !.st = "todo"]
        IN  y.st = "todo" /\ y.role = proc[p].role /\ y.code = proc[p].code
    BY <1>1, WindowIsReaped DEF WindowInv
  <2>2. proc'[p] = [proc[p] EXCEPT !.st = "todo"]
    BY <1>1 DEF WindowInv
  <2> QED
    BY <2>1, <2>2
<1>4. CASE Shows
  <2>1. PICK x \in children : Running(x)
    BY <1>4 DEF Shows
  <2>2. x \in Process /\ x # p
    BY <1>1, <2>1 DEF WindowInv, Running
  <2>3. Shows'
    BY <1>1, <1>2, <2>1, <2>2 DEF Shows, Running
  <2> QED
    BY <2>3 DEF Pending
<1>5. CASE Monitored
  <2>1. PICK x \in Process : proc[x].st \in {"exited", "todo"} /\ ~Dismissed(x)
    BY <1>5 DEF Monitored
  <2>2. proc'[x].st \in {"exited", "todo"} /\ proc'[x].role = proc[x].role
        /\ proc'[x].code = proc[x].code
    BY <1>2, <1>3, <2>1
  <2>3. Monitored'
    BY <2>1, <2>2 DEF Monitored, Dismissed
  <2> QED
    BY <2>3 DEF Pending
<1>6. CASE locked \/ Asking \/ due > 0 \/ pairing # "none"
  BY <1>1, <1>6 DEF Pending, Asking
<1> QED
  BY <1>4, <1>5, <1>6 DEF Pending

LEMMA SamePending ==
  ASSUME Pending, UNCHANGED <<proc, children, locked, question, due, pairing>>
  PROVE  Pending'
BY DEF Pending, Shows, Monitored, Dismissed, Running, Asking

LEMMA ShowInvNext ==
  ASSUME HandleInv, StopInv, ShowInv, [Next]_vars
  PROVE  ShowInv'
<1> USE NobodyActs
<1>0. WindowInv /\ excuse \in {"no", "user", "error"}
  BY DEF HandleInv, WindowInv
<1>1. ASSUME UNCHANGED <<phase, stop, proc, children, excuse, locked, question, due,
                         pairing>>
      PROVE  ShowInv'
  BY <1>1, SamePending DEF ShowInv
<1>2. ASSUME phase' # "up"
      PROVE  ShowInv'
  BY <1>2 DEF ShowInv
<1>3. ASSUME Stop
      PROVE  ShowInv'
  BY <1>2, <1>3 DEF Stop
<1>4. ASSUME phase = "up"
      PROVE  ~stop
  BY <1>4 DEF ShowInv
<1>5. ASSUME NEW q, Acting(q), UNCHANGED <<phase, stop, question>>,
             \/ LaunchCamera(q) \/ LaunchScreen(q) \/ LaunchHome(q)
             \/ LaunchOnce("creator", q) \/ LaunchOnce("settings", q)
      PROVE  ShowInv'
  <2>1. CASE phase = "up"
    <3>1. Shows' \/ Asking'
      BY <1>0, <1>4, <1>5, <2>1, LaunchShows DEF Asking
    <3>2. Pending'
      BY <3>1 DEF Pending
    <3> QED
      BY <1>4, <1>5, <2>1, <3>2 DEF ShowInv
  <2>2. CASE phase # "up"
    BY <1>2, <1>5, <2>2
  <2> QED
    BY <2>1, <2>2
<1>6. ASSUME NEW q, Acting(q), UNCHANGED <<phase, stop, question>>,
             StartPairing(q) \/ LaunchPhones(q)
      PROVE  ShowInv'
  <2>1. CASE phase = "up"
    <3>1. Shows' \/ Asking' \/ pairing' # "none" \/ locked'
      BY <1>0, <1>4, <1>6, <2>1, PhonesShow, PairingIsPending DEF Asking
    <3>2. Pending'
      BY <3>1 DEF Pending
    <3> QED
      BY <1>4, <1>6, <2>1, <3>2 DEF ShowInv
  <2>2. CASE phase # "up"
    BY <1>2, <1>6, <2>2
  <2> QED
    BY <2>1, <2>2
<1>7. CASE Start
  BY <1>2, <1>7 DEF Start
<1>8. ASSUME NEW f \in {"camera", "home", "none"}, SetUp(f)
      PROVE  ShowInv'
  <2>1. ~stop /\ stop' = stop /\ UNCHANGED <<question, due, pairing, locked>>
    BY <1>8 DEF SetUp, StopInv, questions, pairThread
  <2>2. CASE f \in {"camera", "home"}
    <3>1. LaunchCamera(NoProcess) \/ LaunchHome(NoProcess)
      BY <1>8, <2>2 DEF SetUp, First
    <3>2. Shows' \/ Asking'
      BY <1>0, <2>1, <3>1, LaunchShows DEF Asking
    <3> QED
      BY <2>1, <3>2 DEF ShowInv, Pending
  <2>3. CASE f = "none"
    <3>1. excuse' = "user"
      BY <1>8, <2>3 DEF SetUp, First
    <3> QED
      BY <2>1, <3>1 DEF ShowInv
  <2> QED
    BY <2>2, <2>3
<1>9. ASSUME NEW x \in Request, Route(x)
      PROVE  ShowInv'
  BY <1>1, <1>9 DEF Route, life, windows, questions, pairThread
<1>10. CASE Watch
  <2>1. (Stop \/ NoStop) /\ UNCHANGED <<question, due, pairing, locked>>
    BY <1>10 DEF Watch, questions
  <2>2. CASE NoStop
    <3>1. LaunchCamera(NoProcess) \/ LaunchHome(NoProcess) \/ UNCHANGED windows
      BY <1>10 DEF Watch
    <3> QED
      BY <1>1, <1>5, <2>1, <2>2, <3>1 DEF NoStop, windows
  <2> QED
    BY <1>3, <2>1, <2>2
<1>11. ASSUME NEW p \in Process, NEW c \in Code, ChildExits(p, c)
       PROVE  ShowInv'
  <2>1. UNCHANGED <<phase, stop, excuse, locked, question, due, pairing>>
    BY <1>11 DEF ChildExits, questions, pairThread
  <2>2. Pending => Pending'
    BY <1>0, <1>11, <2>1, ExitIsMonitored
  <2> QED
    BY <2>1, <2>2 DEF ShowInv
<1>12. ASSUME NEW p \in Process, Reap(p)
       PROVE  ShowInv'
  <2>1. UNCHANGED <<phase, stop, excuse>>
    BY <1>12 DEF Reap, life
  <2>2. Pending => Pending'
    BY <1>0, <1>12, ReapIsPending
  <2> QED
    BY <2>1, <2>2 DEF ShowInv
<1>13. ASSUME NEW p \in Process, ActExit(p)
       PROVE  ShowInv'
  <2>1. CASE Stop
    BY <1>3, <2>1
  <2>2. CASE stop /\ NoStop
    BY <1>2, <1>4, <2>2 DEF NoStop
  <2> QED
    BY <1>13, <2>1, <2>2 DEF ActExit
<1>14. ASSUME NEW p \in Process, ActWindow(p)
       PROVE  ShowInv'
  <2>1. Acting(p) /\ UNCHANGED <<phase, stop, question, due, pairing, locked>>
    BY <1>14 DEF ActWindow, Acts, Acting, life, questions, pairThread
  <2>2. \/ LaunchCamera(p) \/ LaunchScreen(p) \/ LaunchHome(p) \/ LaunchOnce("creator", p)
        \/ /\ \E r \in {"home", "phones", "creator", "settings"} : Acts(p, r, {"killed"})
           /\ Nothing(p)
        \/ excuse' = "user" \/ (excuse' = "error" /\ ~AnyWindow)
        \/ proc' = Left(p, {}) /\ children' = children /\ AnyWindow
    BY <1>14, Zenon DEF ActWindow, NoReturn, Ends
  <2>3. CASE /\ \E r \in {"home", "phones", "creator", "settings"} : Acts(p, r, {"killed"})
             /\ Nothing(p)
    <3>1. Dismissed(p)
      BY <2>3 DEF Acts, Dismissed
    <3>2. Pending => Pending'
      BY <1>0, <2>1, <2>3, <3>1, DismissedIsNothing
    <3>3. excuse' = excuse
      BY <2>3 DEF Nothing
    <3> QED
      BY <2>1, <3>2, <3>3 DEF ShowInv
  <2>4. CASE excuse' = "user" \/ excuse' = "error"
    BY <2>1, <2>4 DEF ShowInv
  <2>5. CASE proc' = Left(p, {}) /\ children' = children /\ AnyWindow
    <3>1. PICK x \in Process : Running(x)
      BY <2>5 DEF AnyWindow
    <3>2. x \in children /\ x # p
      BY <1>0, <2>1, <3>1 DEF WindowInv, RunningHeld, Running, Acting
    <3>3. proc'[x] = proc[x]
      BY <2>5, <3>2 DEF Left
    <3>4. Pending'
      BY <2>5, <3>1, <3>2, <3>3 DEF Pending, Shows, Running
    <3> QED
      BY <1>4, <2>1, <3>4 DEF ShowInv
  <2> QED
    BY <1>5, <2>1, <2>2, <2>3, <2>4, <2>5
<1>15. ASSUME NEW p \in Process, ActPhone(p)
       PROVE  ShowInv'
  <2>1. Acting(p) /\ UNCHANGED <<phase, stop, question>>
        /\ (StartPairing(p) \/ LaunchPhones(p))
    BY <1>15 DEF ActPhone, Acts, Acting, life, questions
  <2> QED
    BY <1>6, <2>1
<1>16. ASSUME NEW p \in Process, ActRemove(p)
       PROVE  ShowInv'
  <2>1. Acting(p) /\ UNCHANGED <<phase, stop, question>>
        /\ (LaunchHome(p) \/ LaunchPhones(p))
    BY <1>16 DEF ActRemove, Acts, Acting, life, questions
  <2> QED
    BY <1>5, <1>6, <2>1
<1>17. ASSUME NEW x \in {"camera", "screen", "home", "creator", "settings", "phone"},
              Menu(x)
       PROVE  ShowInv'
  <2>1. \/ LaunchCamera(NoProcess) \/ LaunchScreen(NoProcess) \/ LaunchHome(NoProcess)
        \/ LaunchOnce("creator", NoProcess) \/ LaunchOnce("settings", NoProcess)
        \/ LaunchPhones(NoProcess) \/ StartPairing(NoProcess)
    BY <1>17 DEF Menu
  <2>2. UNCHANGED <<phase, stop, question>>
    BY <1>17 DEF Menu, life, questions
  <2> QED
    BY <1>5, <1>6, <2>1, <2>2
<1>18. CASE UnreadableClosed
  BY <1>5, <1>18 DEF UnreadableClosed, life, questions
<1>19. CASE Restore
  BY <1>5, <1>19 DEF Restore, life
<1>20. ASSUME NEW x \in Questions, Prepare(x) \/ Ask(x)
       PROVE  ShowInv'
  <2>1. /\ UNCHANGED <<phase, stop, excuse>>
        /\ question' = [question EXCEPT ![x] = "preparing"]
             \/ question' = [question EXCEPT ![x] = "asking"]
    BY <1>20 DEF Prepare, Ask, life, windows
  <2>2. question \in [Questions -> {"none", "preparing", "asking"}]
    BY DEF HandleInv, ThreadTypes
  <2>3. question'[x] # "none"
    BY <2>1, <2>2
  <2>4. Pending'
    BY <2>3 DEF Pending, Asking
  <2> QED
    BY <2>1, <2>4 DEF ShowInv
<1>21. ASSUME NEW x \in Questions, NEW yes \in BOOLEAN, Finish(x, yes)
       PROVE  ShowInv'
  <2>1. /\ question[x] = "asking" /\ question' = [question EXCEPT ![x] = "none"]
        /\ Stop \/ (NoStop /\ ~(x = "exit" /\ yes))
        /\ excuse' = IF x = "link" /\ yes /\ ~AnyWindow THEN "user" ELSE excuse
        /\ UNCHANGED <<proc, children, locked, pairing>>
    BY <1>21 DEF Finish, Answer
  <2>2. CASE Stop
    BY <1>3, <2>2
  <2>3. CASE NoStop /\ ~(x = "exit" /\ yes)
    <3>1. stop' = stop /\ phase' = phase
      BY <2>3 DEF NoStop
    <3>2. CASE yes
      <4>1. x = "link"
        BY <2>3, <3>2 DEF Questions
      <4>2. CASE ~AnyWindow
        BY <1>4, <2>1, <3>1, <3>2, <4>1, <4>2 DEF ShowInv
      <4>3. CASE AnyWindow
        <5>1. Shows'
          BY <1>0, <2>1, <4>3 DEF AnyWindow, Shows, WindowInv, RunningHeld, Running
        <5> QED
          BY <1>4, <3>1, <5>1 DEF ShowInv, Pending
      <4> QED
        BY <4>2, <4>3
    <3>3. CASE ~yes /\ phase = "up" /\ Asking'
      BY <1>4, <3>1, <3>3 DEF ShowInv, Pending
    <3>4. CASE ~yes /\ phase = "up" /\ ~Asking'
      <4>1. \A y \in Questions : question'[y] = "none"
        BY <3>4 DEF Asking
      <4>2. question \in [Questions -> {"none", "preparing", "asking"}]
        BY DEF HandleInv, ThreadTypes
      <4>3. {y \in Questions : question[y] # "none"} = {x}
        BY <2>1, <4>1, <4>2
      <4>4. Dialogs = 1
        BY <4>3, QuestionsAreFew
      <4>5. due' = due + 1
        BY <1>4, <1>21, <3>4, <4>4 DEF Finish
      <4>6. due \in Nat
        BY Events DEF HandleInv
      <4>7. Pending'
        BY <4>5, <4>6 DEF Pending
      <4> QED
        BY <1>4, <3>1, <3>4, <4>7 DEF ShowInv
    <3>5. CASE phase # "up"
      BY <1>2, <3>1, <3>5
    <3> QED
      BY <3>2, <3>3, <3>4, <3>5
  <2> QED
    BY <2>1, <2>2, <2>3
<1>22. CASE PairingShows \/ PairingHides \/ PairingResult \/ PairingDone
  <2>1. UNCHANGED <<phase, stop, excuse>> /\ pairing' # "none"
    BY <1>22 DEF PairingShows, PairingHides, PairingResult, PairingDone, Goes,
                 PairingOnly, life, windows
  <2> QED
    BY <2>1 DEF ShowInv, Pending
<1>23. CASE PairingLeaves
  <2>1. /\ UNCHANGED <<phase, stop, excuse>>
        /\ due' = IF stop THEN due ELSE due + 1
    BY <1>23 DEF PairingLeaves, PairingOnly, life, windows
  <2>2. due \in Nat
    BY Events DEF HandleInv
  <2>3. phase = "up" => due' > 0
    BY <1>4, <2>1, <2>2
  <2> QED
    BY <2>1, <2>3 DEF ShowInv, Pending
<1>24. CASE Terminate \/ Quit
  BY <1>2, <1>24 DEF Terminate, Quit
<1>25. CASE UNCHANGED vars
  BY <1>1, <1>25 DEF vars, life, windows, questions, pairThread
<1> QED
  BY <1>7, <1>8, <1>9, <1>10, <1>11, <1>12, <1>13, <1>14, <1>15, <1>16, <1>17, <1>18,
     <1>19, <1>20, <1>21, <1>22, <1>23, <1>24, <1>25 DEF Next, Step

\* The application does not vanish behind its icon: whatever closes its last
\* window, a monitor, a question, a pairing or the dialog under the lock is
\* still there to show the next one, unless the user wanted none or the last one
\* ended with an error.
THEOREM Visible == Spec => []NeverVanishes
<1>1. Init => ShowInv
  BY DEF Init, ShowInv
<1>2. HandleInv /\ ShowInv => NeverVanishes
  <2> SUFFICES ASSUME HandleInv, ShowInv, Settled, excuse = "no"
               PROVE  \E p \in children : Running(p)
    BY DEF NeverVanishes
  <2>1. Pending /\ ~locked /\ due = 0 /\ pairing = "none"
        /\ \A p \in Process : proc[p].st \in {"free", "running"}
    BY DEF ShowInv, Settled
  <2>2. ~Asking
    BY QuestionsAreFew DEF Settled
  <2>3. ~Monitored
    BY <2>1 DEF Monitored
  <2>4. Shows
    BY <2>1, <2>2, <2>3 DEF Pending
  <2> QED
    BY <2>4 DEF Shows
<1> QED
  BY <1>1, <1>2, HandleInvInit, HandleInvNext, StopInvInit, StopInvNext, ShowInvNext,
     PTL DEF Spec

-----------------------------------------------------------------------------
(*              The camera scanner, one of the child processes              *)

(***************************************************************************)
(* Behind the window that the tray application opens runs a program of its *)
(* own (CameraScan).  A code every cheap pass reads is in each result that *)
(* the loop polls while it is in view, so its age cannot reach Rearm       *)
(* before the loop has gone Rearm ticks without good results, which the    *)
(* model calls slow.                                                       *)
(***************************************************************************)
Easy == {c \in QrCodes : Pass(c) = 1}

(* What the loop knows of an easy code that was reported and seen since.   *)
Gate ==
    /\ elapsed <= quiet /\ quiet < Rearm
    /\ \A c \in Easy \ absent :
         IF c \in batch THEN age[c] < Rearm ELSE age[c] + elapsed <= quiet
    /\ repeated \cap Easy = {}

Results == fresh /\ good => Easy \subseteq latest \cup missing

ScanInv ==
    /\ ScanTypeOK /\ Results
    /\ at \in {"open", "read"} => batch = {}
    /\ slow \/ Gate

-----------------------------------------------------------------------------
LEMMA UpToBound ==
    ASSUME NEW bound \in Nat, NEW n \in Nat
    PROVE  /\ UpTo(bound, n) \in 0..bound /\ UpTo(bound, n) <= n
           /\ n < bound => UpTo(bound, n) = n
           /\ n >= bound => UpTo(bound, n) = bound
BY DEF UpTo

(* The cheap pass decides when it reads anything at all. *)
LEMMA EasyIsRead ==
    ASSUME NEW frame \in SUBSET QrCodes, NEW thorough \in BOOLEAN
    PROVE  /\ Reads(frame, thorough) \subseteq QrCodes
           /\ frame \cap Easy \subseteq Reads(frame, thorough)
<1>1. Reads(frame, thorough) \subseteq frame
  BY DEF Reads
<1>2. ASSUME NEW c \in frame, Pass(c) = 1
      PROVE  c \in Reads(frame, thorough)
  <2> DEFINE passes == {Pass(d) : d \in frame} \cap (IF thorough THEN 1..3 ELSE {1})
  <2>1. 1 \in passes /\ passes \subseteq 1..3
    BY <1>2
  <2> HIDE DEF passes
  <2>2. Min(passes) = 1
    <3>1. \E x \in passes : \A y \in passes : x <= y
      BY <2>1
    <3>2. Min(passes) \in passes /\ \A y \in passes : Min(passes) <= y
      BY <3>1 DEF Min
    <3>3. PICK m : m = Min(passes)
      OBVIOUS
    <3>4. m \in 1..3 /\ m <= 1
      BY <2>1, <3>2, <3>3
    <3> QED
      BY <3>3, <3>4
  <2>3. Reads(frame, thorough)
          = {d \in frame : passes # {} /\ Pass(d) = Min(passes)}
    BY DEF Reads, passes
  <2> QED
    BY <1>2, <2>1, <2>2, <2>3
<1> QED
  BY <1>1, <1>2 DEF Easy

LEMMA ScanInvInit == ScanInit => ScanInv
<1> SUFFICES ASSUME ScanInit PROVE ScanInv
  OBVIOUS
<1>1. ScanTypeOK
  <2>1. changes \in 0..scene.changes /\ failures \in 0..scene.failures
    BY ScanAssumption DEF ScanInit
  <2>2. /\ Rearm \in 0..Rearm /\ 0 \in 0..Rearm /\ 0 \in 0..Backends
        /\ 0 \in 0..ThoroughEvery - 1
    BY ScanAssumption
  <2>3. age \in [QrCodes -> 0..Rearm]
    BY <2>2 DEF ScanInit
  <2> QED
    BY <2>1, <2>2, <2>3 DEF ScanInit, ScanTypeOK
<1>2. Results /\ Gate /\ batch = {}
  BY ScanAssumption DEF ScanInit, Results, Gate, Easy
<1> QED
  BY <1>1, <1>2 DEF ScanInv

LEMMA TickKeeps ==
    ASSUME ScanInv, Tick
    PROVE  ScanInv'
<1> USE DEF ScanInv
<1>1. /\ Rearm \in Nat /\ elapsed \in 0..Rearm /\ quiet \in 0..Rearm
      /\ age \in [QrCodes -> 0..Rearm]
      /\ elapsed' = UpTo(Rearm, elapsed + 1) /\ quiet' = UpTo(Rearm, quiet + 1)
  BY ScanAssumption DEF ScanTypeOK, Tick
<1>2. /\ elapsed' \in 0..Rearm /\ quiet' \in 0..Rearm
      /\ elapsed' <= elapsed + 1 /\ (quiet < Rearm => quiet' = quiet + 1)
  BY <1>1, UpToBound
<1>3. ScanTypeOK'
  <2>1. slow' \in BOOLEAN
    BY Zenon DEF Tick
  <2> QED
    BY <1>2, <2>1 DEF Tick, ScanTypeOK, worker
<1>4. Results' /\ (at' \in {"open", "read"} => batch' = {})
  BY DEF Tick, Results, worker
<1>5. slow' \/ Gate'
  <2> SUFFICES ASSUME ~slow'
               PROVE  Gate'
    OBVIOUS
  <2>1. ~slow /\ quiet' # Rearm
    BY DEF Tick
  <2>2. Gate /\ quiet' = quiet + 1 /\ quiet' < Rearm
    BY <1>1, <1>2, <2>1 DEF Gate
  <2>3. elapsed' <= quiet'
    BY <1>1, <1>2, <2>2 DEF Gate
  <2>4. UNCHANGED <<batch, age, absent, repeated>>
    BY DEF Tick
  <2>5. \A c \in Easy \ absent :
          IF c \in batch THEN age[c] < Rearm ELSE age[c] + elapsed' <= quiet'
    <3> SUFFICES ASSUME NEW c \in Easy \ absent, c \notin batch
                 PROVE  age[c] + elapsed' <= quiet'
      BY <2>2 DEF Gate
    <3>1. age[c] \in Nat /\ age[c] + elapsed <= quiet
      BY <1>1, <2>2 DEF Gate, Easy
    <3> QED
      BY <1>1, <1>2, <2>2, <3>1
  <2> QED
    BY <2>2, <2>3, <2>4, <2>5 DEF Gate
<1> QED
  BY <1>3, <1>4, <1>5

LEMMA ReadFrameKeeps ==
    ASSUME ScanInv, ReadFrame
    PROVE  ScanInv'
<1> USE DEF ScanInv
<1>1. /\ Rearm \in Nat /\ elapsed \in 0..Rearm /\ quiet \in 0..Rearm
      /\ age \in [QrCodes -> 0..Rearm]
      /\ age' = [c \in QrCodes |-> UpTo(Rearm, age[c] + elapsed)] /\ elapsed' = 0
      /\ latest \subseteq QrCodes /\ missing \subseteq QrCodes
      /\ absent \subseteq QrCodes
  BY ScanAssumption DEF ScanTypeOK, ReadFrame
<1>2. /\ batch' = (IF fresh THEN latest ELSE {}) /\ fresh' = FALSE
      /\ quiet' = (IF fresh /\ good THEN 0 ELSE quiet)
      /\ absent' = absent \cup missing /\ missing' = {}
      /\ UNCHANGED <<slow, repeated, latest, good>> /\ at' = "report" /\ batch = {}
  BY DEF ReadFrame, Poll
<1>3. \A c \in QrCodes : age'[c] \in 0..Rearm /\ age'[c] <= age[c] + elapsed
  <2> SUFFICES ASSUME NEW c \in QrCodes
               PROVE  age'[c] \in 0..Rearm /\ age'[c] <= age[c] + elapsed
    OBVIOUS
  <2>1. age[c] + elapsed \in Nat /\ age'[c] = UpTo(Rearm, age[c] + elapsed)
    BY <1>1
  <2> QED
    BY <1>1, <2>1, UpToBound
<1>4. ScanTypeOK'
  <2>1. age' \in [QrCodes -> 0..Rearm]
    BY <1>1, <1>3
  <2>2. pending' \in SUBSET QrCodes
    BY ScanAssumption DEF ReadFrame, Submit, ScanTypeOK
  <2>3. /\ scene' \in Scenes /\ view' \subseteq scene'.codes
        /\ changes' \in 0..scene'.changes /\ failures' \in 0..scene'.failures
        /\ tried' \in 0..Backends /\ scanning' \in (SUBSET QrCodes) \cup {None}
        /\ count' \in 0..ThoroughEvery - 1
    BY DEF ReadFrame, ScanTypeOK
  <2>4. /\ batch' \subseteq QrCodes /\ absent' \subseteq QrCodes
        /\ elapsed' \in 0..Rearm /\ quiet' \in 0..Rearm
    BY <1>1, <1>2
  <2>5. /\ latest' \subseteq QrCodes /\ repeated' \subseteq QrCodes
        /\ slow' \in BOOLEAN /\ good' \in BOOLEAN
    BY <1>2 DEF ScanTypeOK
  <2> QED
    BY <1>2, <2>1, <2>2, <2>3, <2>4, <2>5 DEF ScanTypeOK
<1>5. Results' /\ (at' \in {"open", "read"} => batch' = {})
  BY <1>2 DEF Results
<1>6. slow' \/ Gate'
  <2> SUFFICES ASSUME ~slow
               PROVE  Gate'
    BY <1>2
  <2>1. Gate
    OBVIOUS
  <2>2. elapsed' <= quiet' /\ quiet' < Rearm
    BY <1>1, <1>2, <2>1 DEF Gate
  <2>3. ASSUME NEW c \in Easy \ absent'
        PROVE  IF c \in batch' THEN age'[c] < Rearm ELSE age'[c] + elapsed' <= quiet'
    <3>1. c \in QrCodes /\ c \in Easy \ absent /\ c \notin missing
      BY <1>2, <2>3 DEF Easy
    <3>2. age[c] + elapsed <= quiet /\ age[c] \in Nat /\ age'[c] \in Nat
      BY <1>1, <1>2, <1>3, <2>1, <3>1 DEF Gate
    <3>3. age'[c] <= quiet /\ age'[c] < Rearm
      BY <1>1, <1>3, <2>1, <3>1, <3>2 DEF Gate
    <3>4. CASE fresh /\ good
      <4>1. c \in batch'
        BY <1>2, <3>1, <3>4 DEF Results
      <4> QED
        BY <3>3, <4>1
    <3>5. CASE ~(fresh /\ good)
      BY <1>1, <1>2, <3>2, <3>3, <3>5
    <3> QED
      BY <3>4, <3>5
  <2> QED
    BY <1>2, <2>1, <2>2, <2>3 DEF Gate
<1> QED
  BY <1>4, <1>5, <1>6

LEMMA ReportKeeps ==
    ASSUME ScanInv, NEW c \in QrCodes, Report(c)
    PROVE  ScanInv'
<1> USE DEF ScanInv
<1>1. /\ Rearm \in Nat /\ elapsed \in 0..Rearm /\ quiet \in 0..Rearm
      /\ age \in [QrCodes -> 0..Rearm]
      /\ age' = [age EXCEPT ![c] = 0] /\ batch' = batch \ {c} /\ c \in batch
      /\ UNCHANGED <<elapsed, quiet, slow, missing>>
      /\ absent' = absent \/ (absent' = absent \ {c} /\ age[c] = Rearm)
      /\ repeated' = repeated
           \/ (repeated' = repeated \cup {c} /\ c \notin absent /\ age[c] = Rearm)
      /\ at' \in {"report", "text", "closed"}
  BY ScanAssumption DEF ScanTypeOK, Report, Sight
<1>2. ScanTypeOK'
  <2>1. age' \in [QrCodes -> 0..Rearm]
    BY <1>1
  <2>2. /\ batch' \subseteq QrCodes /\ absent' \subseteq QrCodes
        /\ repeated' \subseteq QrCodes
    BY <1>1 DEF ScanTypeOK
  <2> QED
    BY <1>1, <2>1, <2>2 DEF ScanTypeOK, Report, worker
<1>3. Results'
  BY DEF Report, worker, Results
<1>4. slow' \/ Gate'
  <2> SUFFICES ASSUME ~slow
               PROVE  Gate'
    BY <1>1
  <2>1. Gate
    OBVIOUS
  <2>2. ASSUME NEW d \in Easy \ absent'
        PROVE  IF d \in batch' THEN age'[d] < Rearm ELSE age'[d] + elapsed <= quiet
    <3>1. CASE d = c
      BY <1>1, <2>1, <3>1 DEF Gate
    <3>2. CASE d # c
      <4>1. d \in Easy \ absent /\ d \in QrCodes
        BY <1>1, <2>2, <3>2 DEF Easy
      <4>2. age'[d] = age[d] /\ (d \in batch' <=> d \in batch)
        BY <1>1, <3>2, <4>1
      <4> QED
        BY <2>1, <4>1, <4>2 DEF Gate
    <3> QED
      BY <3>1, <3>2
  <2>3. repeated' \cap Easy = {}
    <3>1. c \in Easy /\ c \notin absent => age[c] < Rearm
      BY <1>1, <2>1 DEF Gate
    <3>2. age[c] \in Nat
      BY <1>1
    <3> QED
      BY <1>1, <2>1, <3>1, <3>2 DEF Gate
  <2> QED
    BY <1>1, <2>1, <2>2, <2>3 DEF Gate
<1> QED
  BY <1>1, <1>2, <1>3, <1>4

LEMMA PublishKeeps ==
    ASSUME ScanInv, NEW results \in SUBSET QrCodes,
           NEW complete \in BOOLEAN,
           scanning # None, complete => scanning \cap Easy \subseteq results,
           Publish(results, complete), failures' \in 0..scene.failures
    PROVE  ScanInv'
<1> USE DEF ScanInv
<1>1. ScanTypeOK'
  BY DEF ScanTypeOK, Publish, loop
<1>2. Results'
  BY DEF Results, Publish, Easy
<1>3. (at' \in {"open", "read"} => batch' = {}) /\ (slow' \/ Gate')
  BY DEF Publish, loop, Gate
<1> QED
  BY <1>1, <1>2, <1>3

LEMMA ScansKeep ==
    ASSUME ScanInv, Scan \/ ScanFails
    PROVE  ScanInv'
<1> DEFINE read == Reads(scanning, count = 0)
<1>1. scanning \in SUBSET QrCodes /\ scanning # None
  BY DEF Scan, ScanFails, ScanInv, ScanTypeOK
<1>2. read \subseteq QrCodes /\ scanning \cap Easy \subseteq read
  <2>1. (count = 0) \in BOOLEAN
    BY Zenon
  <2> QED
    BY <1>1, <2>1, EasyIsRead
<1> HIDE DEF read
<1>3. CASE Scan
  <2>1. Publish(read, TRUE) /\ failures' \in 0..scene.failures
    BY <1>3 DEF Scan, ScanInv, ScanTypeOK, read
  <2> QED
    BY <1>1, <1>2, <2>1, PublishKeeps
<1>4. CASE ScanFails
  <2>1. failures' \in 0..scene.failures
    BY ScanAssumption, <1>4 DEF ScanFails, ScanInv, ScanTypeOK
  <2>2. PICK results \in SUBSET QrCodes : Publish(results, FALSE)
    BY <1>2, <1>4 DEF ScanFails, read
  <2> QED
    BY <1>1, <2>1, <2>2, PublishKeeps
<1> QED
  BY <1>3, <1>4

(* Steps that leave the gate and the results alone. *)
LEMMA OthersKeep ==
    ASSUME ScanInv, ScanTypeOK',
           UNCHANGED <<batch, age, elapsed, latest, fresh, good, history>>,
           at' \in {"open", "read"} => batch = {}
    PROVE  ScanInv'
BY DEF ScanInv, Results, Gate, history

LEMMA ScanInvNext == ScanInv /\ [ScanNext]_scanVars => ScanInv'
<1> SUFFICES ASSUME ScanInv, [ScanNext]_scanVars PROVE ScanInv'
  OBVIOUS
<1> USE DEF ScanInv
<1>1. CASE UNCHANGED scanVars
  BY <1>1, OthersKeep DEF scanVars, ScanTypeOK, history
<1>2. ASSUME NEW v \in SUBSET scene.codes, Change(v)
      PROVE  ScanInv'
  <2>1. changes' \in 0..scene.changes
    BY ScanAssumption, <1>2 DEF Change, ScanTypeOK
  <2>2. ScanTypeOK'
    BY <1>2, <2>1 DEF Change, ScanTypeOK, loop, worker, history
  <2> QED
    BY <1>2, <2>2, OthersKeep DEF Change, loop, worker
<1>3. CASE OpenCamera
  <2>1. tried' \in 0..Backends
    BY ScanAssumption, <1>3 DEF OpenCamera, ScanTypeOK
  <2>2. ScanTypeOK'
    BY <1>3, <2>1 DEF OpenCamera, ScanTypeOK, worker, history
  <2> QED
    BY <1>3, <2>2, OthersKeep DEF OpenCamera, worker
<1>4. CASE CloseText \/ Show \/ UserCloses
  <2>1. ScanTypeOK'
    BY <1>4 DEF CloseText, Show, UserCloses, ScanTypeOK,
               worker, history
  <2> QED
    BY <1>4, <2>1, OthersKeep
    DEF CloseText, Show, UserCloses, worker
<1>5. CASE CameraFails
  <2>1. failures' \in 0..scene.failures
    BY ScanAssumption, <1>5 DEF CameraFails, ScanTypeOK
  <2>2. ScanTypeOK'
    BY <1>5, <2>1 DEF CameraFails, ScanTypeOK, worker, history
  <2> QED
    BY <1>5, <2>2, OthersKeep DEF CameraFails, worker
<1>6. CASE TakeFrame
  <2>1. count' \in 0..ThoroughEvery - 1
    BY ScanAssumption, <1>6 DEF TakeFrame, ScanTypeOK
  <2>2. ScanTypeOK'
    BY <1>6, <2>1 DEF TakeFrame, ScanTypeOK, loop, history
  <2> QED
    BY <1>6, <2>2, OthersKeep DEF TakeFrame, loop
<1> QED
  BY <1>1, <1>2, <1>3, <1>4, <1>5, <1>6, TickKeeps, ReadFrameKeeps, ReportKeeps, ScansKeep
  DEF ScanNext, LoopSteps

\* A code that the cheap pass reads is reported once while it stays in view, as
\* long as the loop does not go Rearm ticks without good results (app.py).
THEOREM ReportedOnce == ScanSpec => []OncePerPresence
<1>1. ScanInv => OncePerPresence
  BY DEF ScanInv, Gate, Easy, OncePerPresence, ScanTypeOK
<1> QED
  BY <1>1, ScanInvInit, ScanInvNext, PTL DEF ScanSpec
=============================================================================
