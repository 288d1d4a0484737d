--------------------------- MODULE TrayController ---------------------------
(***************************************************************************)
(* The tray application (tray_app.py): one controller process that owns    *)
(* the scanner, home, paired-phones, creator and settings windows as child *)
(* processes, a pairing thread and the foreground questions, and that is   *)
(* reached by later launches through request files (launcher.py,           *)
(* bridge_signals.py).                                                     *)
(*                                                                         *)
(* Every child has a monitor thread: it waits for the exit, clears the     *)
(* controller's handle, and then acts on the exit code.  Code that holds   *)
(* _children_lock is one step, except the dialog shown under the lock when *)
(* the paired-phone list cannot be read.                                   *)
(***************************************************************************)
EXTENDS Naturals, FiniteSets

CONSTANTS Process,   \* child processes that can exist at one time
          NoProcess,
          Scenarios,   \* what users and other programs do, and the bounds on
                       \* starts of the controller and on windows at a time:
                       \* one of these in a behaviour
          MaxDue       \* bound on threads about to show the home window

ASSUME TrayAssumption ==
  /\ NoProcess \notin Process /\ MaxDue \in Nat
  /\ \A s \in Scenarios : s.starts \in Nat /\ s.windows \in Nat

VARIABLES
  scenario,  \* the scenario of this behaviour
  phase,     \* the controller: off, starting, up, stopping, ended
  stop,      \* _stop_event
  proc,      \* the children and the progress of their monitors
  handle,    \* _camera_process, _home_process, ...
  children,  \* _children
  locked,    \* a modal dialog is shown while _children_lock is held
  question,  \* foreground questions: an incoming link, a full exit
  due,       \* threads that are about to call _launch_home
  pairing,   \* the pairing thread
  cancel,    \* _pairing_cancel_event
  closed,    \* _pairing_window_closed
  paired,    \* the protected store holds a phone
  files,     \* request files in the settings directory
  watch,     \* where _watch_control_requests is
  starts,
  excuse,    \* observability: why no window need be open: "no" reason, the
             \* "user" asked for none, the last one ended with an "error"
  asked,     \* observability: the user asked this controller to end
  dropped    \* observability: launches removed without having been looked at

life == <<phase, stop, starts, asked>>
windows == <<proc, handle, children, excuse>>
questions == <<question, due>>
pairThread == <<pairing, cancel, closed>>
requests == <<files, watch, dropped>>
vars == <<scenario, life, windows, questions, pairThread, requests, locked, paired>>

Tracked == {"camera", "home", "phones", "creator", "settings"}
Role == Tracked \cup {"screen"}
Questions == {"link", "exit"}
Request == {"exit", "camera", "camera_closed", "home"}

\* Exit codes a window of each role can end with; one that ends with an error
\* has the code "failed", a terminated process the code "killed".
Codes == [camera   |-> {"closed", "exit", "failed"},
          screen   |-> {"closed", "failed"},
          home     |-> {"background", "camera", "screen", "creator", "pair",
                        "phones", "exit", "failed"},
          phones   |-> {"pair", "remove", "back", "failed"},
          creator  |-> {"back", "failed"},
          settings |-> {"changed", "failed"}]
\* The wish behind an exit code (a way to keep an instance small).
Leads == [exit |-> "exit", camera |-> "camera", screen |-> "screen",
          creator |-> "creator", pair |-> "phone", phones |-> "phone",
          remove |-> "phone", failed |-> "failed"]
Code == (UNION {Codes[r] : r \in Role}) \cup {"killed"}

\* st: free, running, exited (its monitor has not woken up), todo (the handle
\* is cleared, the exit code not yet acted on), orphan (its controller is gone)
Free == [role |-> "none", st |-> "free", code |-> "none"]

TypeOK ==
  /\ phase \in {"off", "starting", "up", "stopping", "ended"}
  /\ {stop, locked, cancel, closed, paired, asked} \subseteq BOOLEAN
  /\ excuse \in {"no", "user", "error"}
  /\ proc \in [Process -> [role : Role, st : {"running", "orphan"}, code : {"none"}]
                            \cup [role : Role, st : {"exited", "todo"}, code : Code]
                            \cup {Free}]
  /\ handle \in [Tracked -> Process \cup {NoProcess}]
  /\ children \in SUBSET Process
  /\ question \in [Questions -> {"none", "preparing", "asking"}]
  /\ due \in 0 .. MaxDue
  /\ pairing \in {"none", "opening", "window", "waiting", "ending", "closing"}
  /\ files \in SUBSET Request
  /\ watch \in Request \cup {"none"}
  /\ dropped \in SUBSET Request
  /\ starts \in 0 .. scenario.starts

Init ==
  /\ scenario \in Scenarios
  /\ phase = "off" /\ stop = FALSE /\ starts = 0 /\ asked = FALSE
  /\ proc = [p \in Process |-> Free]
  /\ handle = [r \in Tracked |-> NoProcess]
  /\ children = {} /\ excuse = "user"
  /\ question = [x \in Questions |-> "none"] /\ due = 0
  /\ pairing = "none" /\ cancel = FALSE /\ closed = TRUE
  /\ files = {} /\ watch = "none" /\ dropped = {}
  /\ locked = FALSE /\ paired \in BOOLEAN
-----------------------------------------------------------------------------
Wish(x) == x \in scenario.wishes
Alive == phase \in {"up", "stopping", "ended"}
Unlocked == Alive /\ ~locked

Running(p) == proc[p].st = "running"
Open(r) == handle[r] # NoProcess /\ Running(handle[r])
Dialogs == Cardinality({x \in Questions : question[x] # "none"})
Quiet == ~stop /\ Dialogs = 0

\* What a call leaves of the children: a monitor q that acts is gone, the
\* windows of the dismissed roles are terminated and their handles forgotten.
Left(q, roles) ==
  [p \in Process |->
    CASE p = q -> Free
      [] p # q /\ Running(p) /\ p \in {handle[r] : r \in roles} ->
           [proc[p] EXCEPT !.st = "exited", !.code = "killed"]
      [] OTHER -> proc[p]]
Forget(roles) == [r \in Tracked |-> IF r \in roles THEN NoProcess ELSE handle[r]]

\* _launch_child, after some windows were dismissed.
Spawn(role, q, roles) ==
  \E p \in Process :
    /\ Left(q, roles)[p].st = "free"
    /\ Cardinality({x \in Process : Left(q, roles)[x].st # "free"}) < scenario.windows
    /\ proc' = [Left(q, roles) EXCEPT ![p] = [role |-> role, st |-> "running",
                                              code |-> "none"]]
    /\ handle' = [r \in Tracked |-> IF r = role THEN p ELSE Forget(roles)[r]]
    /\ children' = children \cup {p}
    /\ excuse' = "no"

Nothing(q) == proc' = Left(q, {}) /\ UNCHANGED <<handle, children, excuse>>

ControlWindows == {"home", "phones", "settings"}

LaunchCamera(q) == IF Open("camera") THEN Nothing(q) ELSE Spawn("camera", q, ControlWindows)
LaunchScreen(q) == Spawn("screen", q, ControlWindows)
\* _launch_creator, _launch_settings
LaunchOnce(r, q) == IF Quiet /\ ~Open(r) THEN Spawn(r, q, ControlWindows) ELSE Nothing(q)
LaunchHome(q) ==
  IF Quiet /\ \A r \in {"creator", "settings", "phones", "home"} : ~Open(r)
  THEN Spawn("home", q, {}) ELSE Nothing(q)

StartPairing(q) ==
  IF pairing # "none" THEN Nothing(q) /\ UNCHANGED pairThread
  ELSE /\ pairing' = "opening" /\ cancel' = FALSE /\ closed' = FALSE
       /\ proc' = Left(q, ControlWindows) /\ handle' = Forget(ControlWindows)
       /\ UNCHANGED <<children, excuse>>

\* The list is read again under the lock: without a phone the call turns into
\* a pairing, an unreadable list into a dialog under the lock, and so does a
\* view of it that cannot be written, when the home window is gone already.
LaunchPhones(q) ==
  LET may == Quiet /\ ~Open("phones")
  IN \/ ~may /\ Nothing(q) /\ UNCHANGED <<pairThread, locked>>
     \/ may /\ ~paired /\ StartPairing(q) /\ UNCHANGED locked
     \/ may /\ paired /\ Spawn("phones", q, {"home"}) /\ UNCHANGED <<pairThread, locked>>
     \/ may /\ Wish("unreadable") /\ locked' = TRUE /\ Nothing(q) /\ UNCHANGED pairThread
     \/ /\ may /\ paired /\ Wish("unreadable") /\ locked' = TRUE
        /\ proc' = Left(q, {"home"}) /\ handle' = Forget({"home"})
        /\ UNCHANGED <<children, excuse, pairThread>>

\* The dialog is closed; the same thread shows the home window and unlocks.
UnreadableClosed ==
  /\ Alive /\ locked /\ locked' = FALSE
  /\ LaunchHome(NoProcess)
  /\ UNCHANGED <<life, questions, pairThread, requests, paired>>

\* _stop
Stop == /\ stop' = TRUE /\ cancel' = TRUE
        /\ phase' = IF phase = "up" THEN "stopping" ELSE phase
NoStop == UNCHANGED <<stop, cancel, phase>>
-----------------------------------------------------------------------------
(* Launches and the request files.                                         *)

\* A request file replaces an older one of its name, and is consumed once.
Leave(xs) == files' = files \cup xs
Consume(x) == files' = files \ {x}

\* run_bridge: the first process owns the mutex.
Start == /\ phase = "off" /\ starts < scenario.starts
         /\ phase' = "starting" /\ starts' = starts + 1
         /\ UNCHANGED <<stop, asked, windows, questions, pairThread, requests, locked, paired>>

First(f) == CASE f = "camera" -> LaunchCamera(NoProcess)
              [] f = "home" -> LaunchHome(NoProcess)
              [] OTHER -> excuse' = "user" /\ UNCHANGED <<proc, handle, children>>

\* Mutant: the files of an earlier controller are left in place.
SetUpUncleared(f) ==
  /\ phase = "starting" /\ phase' = "up" /\ watch' = "exit" /\ asked' = FALSE
  /\ First(f)
  /\ UNCHANGED <<stop, starts, questions, pairThread, files, dropped, locked, paired>>

\* The old request files are cleared, the icon runs, the first window opens.
SetUp(f) ==
  /\ phase = "starting" /\ phase' = "up" /\ watch' = "exit" /\ asked' = FALSE
  /\ files' = {} /\ dropped' = dropped \cup (files \cap {"camera", "home"})
  /\ First(f)
  /\ UNCHANGED <<stop, starts, questions, pairThread, locked, paired>>

\* A later launch finds the mutex taken and leaves a request.
Route(x) ==
  /\ phase # "off" /\ Wish("route") /\ x \in {"camera", "home"}
  /\ Leave({x})
  /\ UNCHANGED <<life, windows, questions, pairThread, watch, dropped, locked, paired>>

AfterWatch == [exit |-> "camera", camera |-> "camera_closed",
               camera_closed |-> "home", home |-> "exit"]

\* One look of the control thread at one request file.
Watch ==
  LET found == watch \in files
  IN /\ Unlocked /\ watch # "none"
     /\ Consume(watch)
     /\ watch' = IF watch = "exit" /\ (stop \/ found) THEN "none" ELSE AfterWatch[watch]
     /\ IF watch = "exit" /\ ~stop /\ found THEN Stop ELSE NoStop
     /\ CASE found /\ watch = "camera" -> LaunchCamera(NoProcess)
          [] found /\ watch \in {"camera_closed", "home"} -> LaunchHome(NoProcess)
          [] OTHER -> UNCHANGED windows
     /\ UNCHANGED <<starts, asked, questions, pairing, closed, dropped, locked, paired>>
-----------------------------------------------------------------------------
(* The windows and their monitors.                                         *)

\* A window ends; a camera tells its controller in a file, too (run_camera).
ChildExits(p, c) ==
  /\ proc[p].st \in {"running", "orphan"} /\ c \in Codes[proc[p].role]
  /\ c \in DOMAIN Leads => Wish(Leads[c])
  /\ proc' = [proc EXCEPT ![p] = IF Running(p)
                               THEN [@ EXCEPT !.st = "exited", !.code = c] ELSE Free]
  /\ asked' = (asked \/ c = "exit")
  /\ Leave(CASE proc[p].role = "camera" /\ c = "closed" -> {"camera_closed"}
             [] proc[p].role = "camera" /\ c = "exit" -> {"exit"}
             [] OTHER -> {})
  /\ UNCHANGED <<phase, stop, starts, handle, children, excuse, questions, pairThread,
                 watch, dropped, locked, paired>>

\* Mutant: the monitor clears the handle of its role, whoever holds it.
ReapByRole(p) ==
  /\ Unlocked /\ proc[p].st = "exited"
  /\ children' = children \ {p}
  /\ handle' = [r \in Tracked |-> IF r = proc[p].role THEN NoProcess ELSE handle[r]]
  /\ proc' = [proc EXCEPT ![p] = [@ EXCEPT !.st = "todo"]]
  /\ UNCHANGED <<life, excuse, questions, pairThread, requests, locked, paired>>

\* _monitor_child wakes up and takes the lock.
Reap(p) ==
  /\ Unlocked /\ proc[p].st = "exited"
  /\ children' = children \ {p}
  /\ handle' = [r \in Tracked |-> IF handle[r] = p THEN NoProcess ELSE handle[r]]
  /\ proc' = [proc EXCEPT ![p] = [@ EXCEPT !.st = "todo"]]
  /\ UNCHANGED <<life, excuse, questions, pairThread, requests, locked, paired>>

\* An exit code that asks for the end, or a monitor that sees _stop_event.
ActExit(p) ==
  /\ Alive /\ proc[p].st = "todo"
  /\ proc[p].code = "exit" \/ stop
  /\ Nothing(p)
  /\ IF proc[p].code = "exit" /\ ~stop THEN Stop ELSE NoStop
  /\ UNCHANGED <<starts, asked, questions, pairing, closed, requests, locked, paired>>

\* A monitor acts on the exit code; it read _stop_event before it came to wait
\* for the lock.
Acts(p, r, cs) == Unlocked /\ proc[p].st = "todo" /\ proc[p].role = r /\ proc[p].code \in cs

\* Windows after whose end, by an error or by the controller, none is opened.
NoReturn == {"home", "phones", "creator", "settings"}
AnyWindow == \E p \in Process : Running(p)
Ends(p, why) == proc' = Left(p, {}) /\ excuse' = why /\ UNCHANGED <<handle, children>>

ActWindow(p) ==
  /\ \/ Acts(p, "home", {"camera"}) /\ LaunchCamera(p)
     \/ Acts(p, "home", {"screen"}) /\ LaunchScreen(p)
     \/ Acts(p, "home", {"creator"}) /\ LaunchOnce("creator", p)
     \/ /\ \/ \E r \in {"camera", "screen"} : Acts(p, r, {"closed", "failed", "killed"})
           \/ Acts(p, "creator", {"back"}) \/ Acts(p, "settings", {"changed"})
           \/ Acts(p, "phones", {"back"})
        /\ LaunchHome(p)
     \/ (\E r \in NoReturn : Acts(p, r, {"killed"})) /\ Nothing(p)
     \/ Acts(p, "home", {"background"}) /\ Ends(p, "user")
     \/ /\ \E r \in NoReturn : Acts(p, r, {"failed"})
        /\ Ends(p, IF AnyWindow THEN excuse ELSE "error")
  /\ UNCHANGED <<life, questions, pairThread, requests, locked, paired>>

ActPhone(p) ==
  /\ \/ /\ Acts(p, "home", {"pair"}) \/ Acts(p, "phones", {"pair"})
        /\ StartPairing(p) /\ UNCHANGED locked
     \/ Acts(p, "home", {"phones"}) /\ LaunchPhones(p)
  /\ UNCHANGED <<life, questions, requests, paired>>

\* _remove_requested_phone: done (nobody is left, so the home window), or
\* refused, then the list is shown again.
ActRemove(p) ==
  /\ Acts(p, "phones", {"remove"})
  /\ \/ paired' = FALSE /\ LaunchHome(p) /\ UNCHANGED <<pairThread, locked>>
     \/ LaunchPhones(p) /\ UNCHANGED paired
  /\ UNCHANGED <<life, questions, requests>>

\* The tray menu.
Menu(x) ==
  /\ phase = "up" /\ Unlocked /\ Wish(x)
  /\ \/ x = "camera" /\ LaunchCamera(NoProcess) /\ UNCHANGED <<pairThread, locked>>
     \/ x = "screen" /\ LaunchScreen(NoProcess) /\ UNCHANGED <<pairThread, locked>>
     \/ x = "home" /\ LaunchHome(NoProcess) /\ UNCHANGED <<pairThread, locked>>
     \/ x \in {"creator", "settings"} /\ LaunchOnce(x, NoProcess) /\ UNCHANGED <<pairThread, locked>>
     \/ x = "phone" /\ paired /\ LaunchPhones(NoProcess)
     \/ x = "phone" /\ ~paired /\ StartPairing(NoProcess) /\ UNCHANGED locked
  /\ UNCHANGED <<life, questions, requests, paired>>
-----------------------------------------------------------------------------
(* Questions in the foreground.                                            *)

\* _prepare_for_foreground_dialog: an incoming link, or "Exit QR Scanner".
Prepare(x) ==
  /\ phase = "up" /\ Unlocked /\ Wish(x) /\ question[x] = "none"
  /\ question' = [question EXCEPT ![x] = "preparing"]
  /\ cancel' = TRUE
  /\ UNCHANGED <<life, windows, due, pairing, closed, requests, locked, paired>>

\* The pairing window is gone, or a second has passed; dialogs are serialized.
Ask(x) ==
  /\ Unlocked /\ question[x] = "preparing"
  /\ \A y \in Questions : question[y] # "asking"
  /\ question' = [question EXCEPT ![x] = "asking"]
  /\ UNCHANGED <<life, windows, due, pairThread, requests, locked, paired>>

Answer(x, yes) ==
  /\ Unlocked /\ question[x] = "asking"
  /\ question' = [question EXCEPT ![x] = "none"]
  /\ IF x = "exit" /\ yes THEN Stop /\ asked' = TRUE ELSE NoStop /\ UNCHANGED asked
  /\ excuse' = IF x = "link" /\ yes /\ ~AnyWindow THEN "user" ELSE excuse

\* Mutant: the count is compared before the question is taken off it.
FinishOffByOne(x, yes) ==
  /\ Answer(x, yes)
  /\ due' = IF ~yes /\ ~stop /\ Dialogs = 0 /\ due < MaxDue THEN due + 1 ELSE due
  /\ UNCHANGED <<starts, proc, handle, children, pairing, closed, requests, locked, paired>>

\* _finish_foreground_dialog: the home window is restored unless a browser was
\* opened, the program is ending or another question is still open.
Finish(x, yes) ==
  /\ Answer(x, yes)
  /\ LET restore == ~yes /\ ~stop /\ Dialogs = 1
     IN /\ restore => due < MaxDue
        /\ due' = IF restore THEN due + 1 ELSE due
  /\ UNCHANGED <<starts, proc, handle, children, pairing, closed, requests, locked, paired>>

Restore ==
  /\ Unlocked /\ due > 0 /\ due' = due - 1
  /\ LaunchHome(NoProcess)
  /\ UNCHANGED <<life, question, pairThread, requests, locked, paired>>
-----------------------------------------------------------------------------
(* The pairing thread.                                                     *)

Goes(from, to) == Alive /\ pairing = from /\ pairing' = to
PairingOnly == UNCHANGED <<life, windows, question, cancel, requests, locked>>

\* The session is opened at the relay, or that fails.
PairingShows == /\ Goes("opening", "window") \/ Goes("opening", "ending")
                /\ UNCHANGED <<due, closed, paired>> /\ PairingOnly

\* The window goes away: cancelled, expired, or the phone has opened the code.
PairingHides == /\ Goes("window", "waiting") \/ Goes("window", "ending")
                /\ closed' = TRUE
                /\ UNCHANGED <<due, paired>> /\ PairingOnly

PairingResult == /\ Goes("waiting", "ending")
                 /\ paired' \in {paired, TRUE}
                 /\ UNCHANGED <<due, closed>> /\ PairingOnly

\* _run_pairing's finally: the event, the thread's handle, the home window.
PairingDone == /\ Goes("ending", "closing") /\ closed' = TRUE
               /\ UNCHANGED <<due, paired>> /\ PairingOnly

PairingLeaves == /\ Unlocked /\ Goes("closing", "none") /\ (~stop => due < MaxDue)
                 /\ due' = IF stop THEN due ELSE due + 1
                 /\ UNCHANGED <<closed, paired>> /\ PairingOnly
-----------------------------------------------------------------------------
(* The end.                                                                *)

\* run()'s finally: _terminate_children.
Terminate ==
  /\ phase = "stopping" /\ ~locked /\ phase' = "ended"
  /\ proc' = [p \in Process |-> IF p \in children /\ Running(p)
                               THEN [proc[p] EXCEPT !.st = "exited", !.code = "killed"]
                               ELSE proc[p]]
  /\ children' = {}
  /\ UNCHANGED <<stop, starts, asked, handle, excuse, questions, pairThread, requests,
                 locked, paired>>

\* The process ends and takes its threads and dialogs along.
Quit ==
  /\ phase = "ended" /\ phase' = "off" /\ stop' = FALSE /\ locked' = FALSE
  /\ proc' = [p \in Process |-> IF Running(p) THEN [proc[p] EXCEPT !.st = "orphan"]
                               ELSE IF proc[p].st = "orphan" THEN proc[p] ELSE Free]
  /\ handle' = [r \in Tracked |-> NoProcess] /\ children' = {} /\ excuse' = "user"
  /\ question' = [x \in Questions |-> "none"] /\ due' = 0
  /\ pairing' = "none" /\ cancel' = FALSE /\ closed' = TRUE /\ watch' = "none"
  /\ UNCHANGED <<starts, asked, files, dropped, paired>>

Step ==
  \/ Start \/ (\E f \in {"camera", "home", "none"} : SetUp(f))
  \/ (\E x \in Request : Route(x)) \/ Watch
  \/ \E p \in Process : \/ \E c \in Code : ChildExits(p, c)
                        \/ Reap(p) \/ ActExit(p) \/ ActWindow(p) \/ ActPhone(p)
                        \/ ActRemove(p)
  \/ \E x \in {"camera", "screen", "home", "creator", "settings", "phone"} : Menu(x)
  \/ UnreadableClosed
  \/ \E x \in Questions : Prepare(x) \/ Ask(x) \/ Finish(x, TRUE) \/ Finish(x, FALSE)
  \/ Restore
  \/ PairingShows \/ PairingHides \/ PairingResult \/ PairingDone \/ PairingLeaves
  \/ Terminate \/ Quit

Next == Step /\ UNCHANGED scenario

Spec == Init /\ [][Next]_vars
-----------------------------------------------------------------------------
\* Whatever monitors wake up late, the controller has one window of each kind
\* (tray_app.py:552-571; test_repeated_camera_action_does_not_open_second_process).
OneWindowPerRole ==
  \A p, q \in children :
    Running(p) /\ Running(q) /\ proc[p].role = proc[q].role
      /\ proc[p].role \in Tracked => p = q

\* The application does not vanish behind its tray icon: once every thread has
\* acted, a window is open, unless its user hid it or followed a link while none
\* was open, or the last window was a control window that ended with an error
\* (tray_app.py:356-370, 572-588).
Settled == /\ phase = "up" /\ ~locked /\ Dialogs = 0 /\ due = 0 /\ pairing = "none"
           /\ \A p \in Process : proc[p].st \in {"free", "running"}
NeverVanishes == Settled /\ excuse = "no" => \E p \in children : Running(p)

\* The same, errors of a window not excepted.  Refuted: the monitor of a home,
\* paired-phones, creator or settings window does nothing for an exit code it
\* does not know (tray_app.py:577-588, 591-627), so that after an error of
\* such a window only the icon is left.
ErrorsReturnHome == Settled /\ excuse # "user" => \E p \in children : Running(p)

\* While a pairing window is open its closed event is not set, so a question
\* waits for it; no thread that is leaving sets the event of the next one
\* (tray_app.py:292-294, 326-331).
ClosedIsTrue == closed => pairing \notin {"opening", "window"}

\* The controller's handles and events say what its windows and its pairing
\* really do.
HandlesAreTrue == TypeOK /\ OneWindowPerRole /\ ClosedIsTrue

\* A controller ends because its own user asked for it, never because of a
\* request left over from an earlier one (launcher.py:64).
StopIsAsked == stop => asked

\* "Confirm an action that stops every part of the application"
\* (native_dialogs.py:94): when the controller's process is gone, so are the
\* windows.  Refuted: a monitor or the control thread can start a camera after
\* _terminate_children.
ExitStopsEverything == \A p \in Process : proc[p].st # "orphan"

\* "Start the sole controller or route a window request to the existing one"
\* (launcher.py:54).  Refuted: a request that meets an ending or a starting
\* controller is deleted by the next clear_control_requests.
RoutedIsSeen == dropped = {}
=============================================================================
