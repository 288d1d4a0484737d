----------------------------- MODULE CameraScan -----------------------------
(***************************************************************************)
(* The camera scanner (app.py, scan_worker.py, qr_reader.py, camera.py):   *)
(* the loop that shows the camera hands every frame to a worker thread,    *)
(* which analyses the newest one at its own pace, and reports a code once, *)
(* until it was absent for a while.  A cheap pass reads every frame; only  *)
(* every N-th one gets the passes that read small or blurred codes.        *)
(***************************************************************************)
EXTENDS Naturals, FiniteSets, FiniteSetsExt

CONSTANTS
    QrCodes,
    Pass(_),        \* the first pass of QRReader.scan that reads a code: 1, 2 or 3
    None,
    Backends,       \* number of capture backends tried
    ThoroughEvery,  \* thorough_every
    Rearm,          \* SCAN_REARM_SECONDS, in ticks
    Scenes       \* records [codes, texts, exit, changes, failures]: the codes
                    \* that occur, those that are text, exit_after_scan, and the
                    \* bounds on changes of the view and on failing frames

ASSUME ScanAssumption ==
    /\ Rearm \in Nat \ {0} /\ ThoroughEvery \in Nat \ {0} /\ Backends \in Nat \ {0}
    /\ \A c \in QrCodes : Pass(c) \in 1..3
    /\ \A s \in Scenes : s.codes \subseteq QrCodes /\ s.changes \in Nat /\ s.failures \in Nat

VARIABLES
    scene,   \* the scenario of this behaviour
    view,       \* what is in front of the camera
    changes, failures,
    at,         \* the loop's place in run
    tried,      \* capture backends tried
    batch,      \* fresh_results still to be looked at
    age,        \* the loop's now minus _last_seen, Rearm when that or never seen
    elapsed,    \* time since the loop's now
    pending,    \* _pending_frame
    scanning,   \* the frame the worker is at
    count,      \* _scan_count
    latest,     \* _latest_results
    fresh,      \* _result_version is not the one last polled
    good,       \* history: latest are all results of its frame's passes
    quiet,      \* history: time since good results were last polled, up to Rearm
    slow,       \* history: that it reached Rearm
    missing,    \* history: codes that were not in a frame scanned since the poll
    absent,        \* history: codes not in a frame scanned since their last report
    repeated    \* history: codes reported while not due

loop == <<at, tried, batch, age, elapsed>>
worker == <<pending, scanning, count, latest, fresh, good>>
history == <<quiet, slow, missing, absent, repeated>>
scanVars == <<scene, view, changes, failures, at, tried, batch, age, elapsed, pending,
          scanning, count, latest, fresh, good, quiet, slow, missing, absent, repeated>>

ScanTypeOK ==
    /\ scene \in Scenes
    /\ view \subseteq scene.codes
    /\ changes \in 0..scene.changes /\ failures \in 0..scene.failures
    /\ at \in {"open", "read", "report", "text", "show", "closed"}
    /\ tried \in 0..Backends
    /\ batch \subseteq QrCodes /\ latest \subseteq QrCodes
    /\ age \in [QrCodes -> 0..Rearm] /\ elapsed \in 0..Rearm
    /\ pending \in (SUBSET QrCodes) \cup {None} /\ scanning \in (SUBSET QrCodes) \cup {None}
    /\ count \in 0..ThoroughEvery - 1
    /\ fresh \in BOOLEAN /\ good \in BOOLEAN /\ slow \in BOOLEAN
    /\ quiet \in 0..Rearm /\ missing \subseteq QrCodes /\ absent \subseteq QrCodes /\ repeated \subseteq QrCodes

ScanInit ==
    /\ scene \in Scenes
    /\ view \in SUBSET scene.codes
    /\ changes = 0 /\ failures = 0
    /\ at = "open" /\ tried = 0 /\ batch = {}
    /\ age = [c \in QrCodes |-> Rearm] /\ elapsed = 0
    /\ pending = None /\ scanning = None /\ count = 0
    /\ latest = {} /\ fresh = FALSE /\ good = FALSE
    /\ quiet = 0 /\ slow = FALSE /\ missing = {} /\ absent = QrCodes /\ repeated = {}

UpTo(bound, n) == IF n < bound THEN n ELSE bound

-----------------------------------------------------------------------------
(* Surroundings. *)

Change(v) ==
    /\ changes < scene.changes /\ changes' = changes + 1
    /\ view' = v
    /\ UNCHANGED <<scene, failures, loop, worker, history>>

Tick ==
    /\ at \notin {"open", "closed"}
    /\ elapsed' = UpTo(Rearm, elapsed + 1)
    /\ quiet' = UpTo(Rearm, quiet + 1)
    /\ slow' = (slow \/ quiet' = Rearm)
    /\ UNCHANGED <<scene, view, changes, failures, at, tried, batch, age, worker,
                   missing, absent, repeated>>

-----------------------------------------------------------------------------
(* The loop. *)

(* CameraStream.open: the first backend that delivers frames is used. *)
OpenCamera ==
    /\ at = "open"
    /\ \/ at' = "read" /\ UNCHANGED tried
       \/ tried + 1 < Backends /\ tried' = tried + 1 /\ UNCHANGED at
       \/ tried + 1 = Backends /\ tried' = Backends /\ at' = "closed"
    /\ UNCHANGED <<scene, view, changes, failures, batch, age, elapsed, worker, history>>

(* QRScanWorker.submit: the newest frame replaces one that still waits. *)
Submit == pending' = view

(* QRScanWorker.poll *)
Poll ==
    /\ batch' = IF fresh THEN latest ELSE {}
    /\ fresh' = FALSE
    /\ quiet' = IF fresh /\ good THEN 0 ELSE quiet
    /\ absent' = absent \cup missing /\ missing' = {}

(* One turn of the loop up to its results; its now is taken with the frame. *)
ReadFrame ==
    /\ at = "read"
    /\ at' = "report"
    /\ age' = [c \in QrCodes |-> UpTo(Rearm, age[c] + elapsed)] /\ elapsed' = 0
    /\ Submit /\ Poll
    /\ UNCHANGED <<scene, view, changes, failures, tried, scanning, count, latest, good,
                   slow, repeated>>

CameraFails ==
    /\ at = "read" /\ failures < scene.failures
    /\ failures' = failures + 1 /\ at' = "closed"
    /\ UNCHANGED <<scene, view, changes, tried, batch, age, elapsed, worker, history>>

(* Mutant: the time of the last trigger decides, not that of the last sight. *)
TriggerByReport(c) ==
    age' = IF age[c] = Rearm THEN [age EXCEPT ![c] = 0] ELSE age

(* ScanGate.should_trigger: every sight postpones the next trigger. *)
Sight(c) == age' = [age EXCEPT ![c] = 0]

(* One result: reported unless its code was seen a moment ago.  Text opens *)
(* a window the loop waits for; a report ends the loop if that is asked.   *)
Report(c) ==
    /\ at = "report" /\ c \in batch
    /\ Sight(c)
    /\ IF age[c] = Rearm
       THEN /\ repeated' = IF c \in absent THEN repeated ELSE repeated \cup {c}
            /\ absent' = absent \ {c}
            /\ at' = IF c \in scene.texts THEN "text"
                     ELSE IF scene.exit THEN "closed" ELSE "report"
       ELSE UNCHANGED <<absent, repeated, at>>
    /\ batch' = batch \ {c}
    /\ UNCHANGED <<scene, view, changes, failures, tried, elapsed, worker, quiet, slow,
                   missing>>

(* show_text_result returns. *)
CloseText ==
    /\ at = "text"
    /\ at' = IF scene.exit THEN "closed" ELSE "report"
    /\ UNCHANGED <<scene, view, changes, failures, tried, batch, age, elapsed, worker, history>>

(* The preview is drawn and the keys are read. *)
Show ==
    /\ at = "report" /\ batch = {}
    /\ at' = "read"
    /\ UNCHANGED <<scene, view, changes, failures, tried, batch, age, elapsed, worker, history>>

(* ESC, the window's close button, or Ctrl+Q and a confirmation. *)
UserCloses ==
    /\ at = "report" /\ batch = {}
    /\ at' = "closed"
    /\ UNCHANGED <<scene, view, changes, failures, tried, batch, age, elapsed, worker, history>>

-----------------------------------------------------------------------------
(* The worker; close() asks it to stop, which it does after its frame. *)

(* The passes scan makes, the first with a result deciding. *)
Reads(frame, thorough) ==
    LET passes == {Pass(c) : c \in frame} \cap (IF thorough THEN 1..3 ELSE {1})
    IN {c \in frame : passes # {} /\ Pass(c) = Min(passes)}

TakeFrame ==
    /\ at # "closed" /\ scanning = None /\ pending # None
    /\ scanning' = pending /\ pending' = None
    /\ count' = (count + 1) % ThoroughEvery
    /\ UNCHANGED <<scene, view, changes, failures, loop, latest, fresh, good, history>>

Publish(results, complete) ==
    /\ latest' = results /\ fresh' = TRUE /\ good' = complete
    /\ scanning' = None /\ missing' = missing \cup (QrCodes \ scanning)
    /\ UNCHANGED <<scene, view, changes, loop, pending, count, quiet, slow, absent, repeated>>

(* Mutant: results are dropped when a newer frame waits. *)
ScanNewest ==
    /\ scanning # None
    /\ IF pending = None
       THEN Publish(Reads(scanning, count = 0), TRUE)
       ELSE /\ scanning' = None
            /\ UNCHANGED <<scene, view, changes, loop, pending, count, latest, fresh,
                           good, history>>
    /\ UNCHANGED failures

Scan ==
    /\ scanning # None
    /\ Publish(Reads(scanning, count = 0), TRUE)
    /\ UNCHANGED failures

(* OpenCV raises: no results, or the one code single detection finds. *)
ScanFails ==
    /\ scanning # None /\ failures < scene.failures
    /\ failures' = failures + 1
    /\ \/ Publish({}, FALSE)
       \/ \E c \in Reads(scanning, count = 0) : Publish({c}, FALSE)

-----------------------------------------------------------------------------
LoopSteps == OpenCamera \/ ReadFrame \/ CloseText \/ Show \/ \E c \in QrCodes : Report(c)

ScanNext ==
    \/ \E v \in SUBSET scene.codes \ {view} : Change(v)
    \/ Tick
    \/ LoopSteps \/ CameraFails \/ UserCloses
    \/ TakeFrame \/ Scan \/ ScanFails

ScanSpec == ScanInit /\ [][ScanNext]_scanVars

(* The two threads go on, and the user closes a text window. *)
ScanFairSpec == ScanSpec /\ WF_scanVars(LoopSteps) /\ WF_scanVars(TakeFrame) /\ WF_scanVars(Scan)

-----------------------------------------------------------------------------
(* A code the cheap pass reads is reported once for each time it comes     *)
(* into the frames: while results keep arriving within the re-arm time,    *)
(* neither replaced frames, late results nor neighbours make the gate      *)
(* forget it.  (A text window stops the loop for as long as it is open.)   *)
OncePerPresence == ScanTypeOK /\ (slow \/ \A c \in repeated : Pass(c) # 1)

(* A code that stays in view is reported, even one that only the thorough  *)
(* passes read, unless a code that an earlier pass reads stays beside it.  *)
(* The exception the code leaves: the results of a thorough scan can be    *)
(* replaced by those of the next frame before the loop has polled them,    *)
(* again and again.                                                        *)
Overtaken == (Scan \/ ScanFails) /\ fresh

SeenIsReported ==
    \A c \in QrCodes :
        <>[](c \in view /\ \A d \in view : Pass(c) <= Pass(d))
            => \/ <>(c \notin absent \/ at = "closed")
               \/ Pass(c) # 1 /\ []<><<Overtaken>>_scanVars
=============================================================================
