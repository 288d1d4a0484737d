# Verification of webcam-qr-scanner

TLA+ models of the program - deliveries, pairing, the PC's receiver, store,
tray application and camera loop - TLC configurations that check them on small
instances, and TLAPS proofs for every value of the constants.

## The system

A phone's web page scans a QR code and sends the link, encrypted, through a
relay to a Windows PC, whose receiver asks its user before it opens the link.

| Component | State it keeps | Operations | Talks to |
|---|---|---|---|
| Phone delivery client (`pwa/lib/relay-client.ts`, `pwa/app/QrResultView.tsx`) | attempts per link in page memory, the state of the link on screen | send, watch, check, rescan, leave | hosted relay (HTTP) |
| Hosted relay, deliveries (`pwa/server/relay-handler.ts`, `supabase/migrations`) | `relay_pairs`, `relay_devices`, `relay_deliveries` | submit, poll and claim, acknowledge or refuse, status, revoke, cleanup | phone, PC, database |
| Hosted relay, pairings (same files) | `relay_pairings` | create, opened, request, cancel (both sides), result, register | phone, PC |
| PC receiver (`bridge/receiver.py`) | where its loop is, the prompt | poll, decrypt, acknowledge, call back, reconnect | relay, replay ledger |
| Replay protection (`bridge/replay.py`) | a SQLite ledger of message digests, shared by processes | `remember` | the file system |
| Receiver service (`bridge/receiver_service.py`) | a thread, a task per relay, labels, the prompt lock | start, stop, refresh, handle URL | store, receivers |
| Pairing (`bridge/pairing.py`, `bridge/pairing_controller.py`, `pwa/app/PairingView.tsx`) | a pairing session on both sides | start, open, request, approve, reject, cancel, complete | relay, store |
| Pair management (`bridge/pair_management.py`) | none of its own | list, remove, forget | relay, store |
| Secure storage (`bridge/secure_storage.py`, `pwa/lib/pair-store.ts`) | protected pairs, devices, Realtime sessions | load, save pair, remove, replace device, update session | everybody on the PC |
| Realtime wake-up (`bridge/realtime.py`) | a WebSocket and its session | connect, refresh, wake up | receiver, store |
| Tray application (`tray_app.py`, `bridge_signals.py`, `paired_phone_ipc.py`, `single_instance.py`) | child processes, windows, signals | launch, stop, refresh, show | scanner processes |
| Camera scanning (`scan_worker.py`, `camera.py`, `app.py`) | newest frame, results, cooldown | submit, decode, close | camera |
| Local relay (`relay/app.py`, `relay/state.py`) | rooms in memory, WebSockets, pending futures | the same interface, for development | phone, PC |
| D1 relay (`pwa/worker/relay-api.ts`) | the same tables in D1 | the same interface, an alternative deployment | phone, PC |
| Cryptography (`bridge/protocol.py`, `pwa/lib/wqrs.ts`) | none | build, encrypt, verify envelopes | - |

What is hard here: HTTP handlers that run as independent serverless calls and
keep facts they read earlier; answers that are lost after their effect; the
PC's redelivery after a lease; two or more PC processes that share one ledger;
restarts between a durable step and a visible one; revocation racing a send;
user actions at any time.  `PROJECT.json` lists the hazards line by line.

What makes each component correct, in short: a link is asked about once; an
accepted message is never silently lost and never forgotten while it could be
replayed; the phone never claims a receipt that is not one and never sends a
link twice while the first may still arrive; a removed pair leaves nothing at
the relay; a phone keeps only a pair that the PC stored for it;
the service sees every change of its store; no wake-up is lost.

## Modules

| Module | Models |
|---|---|
| `ReplayGuard` | the promise: an unexpired message is accepted at most once |
| `ReplayLedger` | `PersistentReplayGuard` with its transactions, first start, lock waits and failures; implements `ReplayGuard` |
| `Mailbox` | the relay's promise to a pair: held, answered once, forgotten only when expired or closed |
| `RelayDeliveries` | the hosted relay's message handlers over its tables; implements `Mailbox` |
| `Handover` | the promise of a delivery: taken once, then asked about once or given up for good; "delivered" only of what was taken |
| `DeliverySystem` | phone page, relay and PC receiver together; extends `RelayDeliveries`, uses the replay ledger through its promise, implements `Handover` |
| `PairStore` | the contents of the credential file and what each transaction makes of it |
| `CredentialStore` | the promise: a transaction takes effect once, in one step, or fails |
| `CredentialFile` | the file, its lock, its temporary file, loading and crashes; implements `CredentialStore` |
| `ReceiverService` | the service's loop, tasks, questions and session writes around the store; extends `PairStore` |
| `Wakeups` | the receiver's Realtime loop and the Realtime client |
| `PairingRelay` | the pairing handlers of the local relay, as functions on its tables |
| `Introduction` | the promise of a pairing: a session introduces one request at most, none once its window's task was over unused; phones keep what the PC stored for them |
| `Pairing` | the PC's controller, its QR window and the phones; extends `PairingRelay`, implements `Introduction` |
| `LocalRelay` | deliveries over the local relay's WebSockets, with phone and receiver; implements `Handover` as well |
| `TrayController` | the controller process, its windows, questions, pairing thread and later launches |
| `CameraScan` | the preview loop, the scan worker and the gate |
| `*_proofs` | theorems about `ReplayLedger`, `DeliverySystem` with `RelayDeliveries`, `CredentialFile`, `ReceiverService`, `Wakeups`, `TrayController` with `CameraScan`, `Pairing`, `LocalRelay` |
| `MC*` | instances for TLC |

A behaviour that needs several bounds at a time carries them in a variable that
is chosen initially and never changes (`scenario`, `bound`, `faults`): one run
then covers several small mixes of actors instead of one large one.  Operators
marked "Mutant" in a comment are plausible bugs of the code; no specification
uses them.

### ReplayLedger

`remember()` is cut where another process can run.  `Remember` reads the clock
and checks the record; `FindLedger` and `Publish` are `_initialize_if_missing`
with its `os.link`; `Begin` and `LockTimeout` are `BEGIN IMMEDIATE`; `Commit`
and `Refuse` are everything up to `COMMIT` or `ROLLBACK`, which SQLite makes
one step; `Abort` is a storage error or the end of the process.  A digest is
the message, and its expiry a function of it, because the envelope
authenticates `expires_at`.

### RelayDeliveries

`call` holds one HTTP call per client slot with its handler's progress: `sent`,
`mid` (after the first database request, with the time captured there) and
`reply`.  A client that gives up, or a database request that times out, may
leave the handler running as the `orphan`, of which the model keeps one at a
time.  `SubmitAuthorize`/`SubmitInsert`, `PollHeartbeat`/`PollClaim`,
`AckSelect`/`AckStore`/`NackStore`, `StatusAuthorize`/`StatusRead` and
`RevokeMark`/`RevokePurge` are the halves of the handlers; the trigger and
`relay_claim_delivery` are single statements and single steps.  `Cleanup` is
the probabilistic maintenance call.  The database's own errors are
`Unavailable`.  `RelaySpec` puts these under clients that may send any request
at any time.

### DeliverySystem

The phone's `attempt` is `deliveryAttempts`, `view` the screen's
`DeliveryState` ("checking" is "pending" with a request in flight), and its
request is `call["phone"]`.  The PC's loop is where `call["pc"]` is: polling,
acknowledging or refusing.  `AckReply` and `AckLost` are the three outcomes of
an acknowledgement: stored and shown; transport error and shown; refused by the
relay and dropped.  `Restart` is a cancelled receiver task or a crash.
`Remove`, `RemoveFailed` and `RemoveDone` are `remove_pair_async`.  Phone, PC
and relay read one clock; a PC whose clock is too far off appears as a message
it cannot read (`Refuse` as a fault).

### PairStore, CredentialStore, CredentialFile

A store is a set of devices and a set of pairs; `AddPair`, `RemovePair`,
`ReplaceDevice` and `UpdateSession` are the four transactions, `Allowed` and
`Outcome` say when they raise and what they leave, `WellFormed` is what `load`
accepts.  `CredentialFile` runs them as `_transaction` does: `Acquire` takes
the lock that all stores of one path share, `Load` or `Refuse` reads the file,
`Write` computes the new store into the temporary file, `Replace` is
`os.replace`, `SaveFails` an error before it, and `Crash` ends the process
wherever its threads are.  Calls that only load are transactions too.

### ReceiverService

`loop` is the place in `_run`: clearing the event, loading, retrying, running
or ended.  `groups` are the tasks of `_run_group`, one per relay origin with
paired phones: connecting, connected, in a question, storing a session, or
delayed before a reconnection.  `questions` and `writes` are the threads in
`_handle_url` and `update_realtime_session`, which a cancelled task leaves
running; `Show` takes the prompt lock, `Answer` gives it back.  The tray's
side is `StartPairing`, `Persist`, `AbandonPairing`, `Announce`, `Remove` and
`AnnounceRemoval`: the file is changed first and the service is told later.
Stores are those of `PairStore`, one transaction a step, as `CredentialFile`
shows they are.

`status` holds the origins that `receiver-status.json` records as reachable.
Every report of a receiver or of the loop is a `Record`: its write may fail,
which the code swallows (`receiver.py:99-101`, `receiver_service.py:98-100`) and
which leaves the old record, and a file that cannot be read is written anew
without the others' records.  `unwritten` remembers the origins whose last
report failed; `ReportsAreTrue` excepts them until their next report.  The
reader of the file trusts a record for `FRESH_SECONDS` (75), which bounds how
long such a record misleads; that age is not modelled.

### Wakeups

`at` is the receiver's place in `_run_realtime_with_fallback`, `wakeup` and
`changed` are its two `asyncio.Event`s, `client` the place of
`RealtimeWakeupClient.run`, `joined` its local, `channel` and `inbox` what the
Realtime server thinks of the socket and the frames under way.  A relay without
Realtime is polled in the same loop with the client `"off"` (`_run_polling`).
`Send` is the relay's insertion with its trigger (`Broadcast`), which fires for
an insertion only: a message whose answer was lost is offered again without
one, and rejected by the replay guard if the PC had taken it.  While `at` is
`"asking"`, or `"failing"` after a lost acknowledgement (`AckLost`), the
receiver waits for its user, whose modal question has no timeout
(`UserAnswers`).  `ChannelDies` is a socket that ends unnoticed, `Disconnect`
and `SocketFails` noticed ends, `RenewalDue` the refresh margin, `SessionFails`
a refusal, `Restart` the receiver's own reconnection, `Timeout` either of the
two timeouts.

### PairingRelay and Pairing

`PairingRelay` gives for each request an answer and the new tables, because
each handler runs one method of `RelayState` under its lock without awaiting
inside.  `Pairing` has the controller in `pc`: its stage, its polling task and
its window.  The stages are registering a device (again, if the relay forgot
it), opening a session, waiting, stopping the other task, closing or cancelling,
registering the route, `Persist`ing the pair, `Publish`ing the result and
`Revoke`ing the route when that fails.  The window ends in two steps:
`CloseWindow` is what `show_pairing_qr_window` returns or raises, `WindowGone`
the end of its `finally` and of `window_task`.  `Decide` runs when one of the
two tasks is done: a request task that ends between those two steps is alone,
and the window's outcome is then never looked at (`Closed`), so that such a
session is paired although its user closed the window.  `closed` are the
sessions whose window's task was over before the controller went on to a
request.  Phones scan, ask, poll, cancel and ask again with a new key.
`Happens` gives every exchange its three outcomes (done; done but the answer
lost; not done), `network` keeps requests whose sender gave up and which may
still `Arrive`, and `RestartRelay` empties the tables.

### LocalRelay

A socket has two ends: what the relay still serves, and what the receiver still
holds open; `down` and `up` are the frames under way.  The phone's POST goes
through authorization, `Forward` to the newest socket of the device and a
future in `pending`, which an acknowledgement, a timeout, or the end of a
socket resolves (`RelayReceives`, `DeliveryTimeout`, `RelayNotices`, `Clear`);
`Verify` is the phone's own look at the acknowledgement.  The receiver accepts
with the in-memory guard (which forgets at the second of expiry), answers and
asks its user; `Lost`, `Cancel` and `Break` are the failures of a socket and
of the receiver.  A request can repeat a message or alter it on the way.

### TrayController

`proc` are the child processes with the progress of their monitor threads:
running, exited, and `todo` between the clearing of the controller's `handle`
and the action on the exit code (`Reap`, then `ActExit`, `ActWindow`,
`ActPhone`, `ActRemove`).  Code that holds `_children_lock` is one step, except
the dialog shown under it when the paired-phone list is unreadable (`locked`).
`Prepare`, `Ask`, `Answer`, `Finish` and `Restore` are the foreground questions
of a link or an exit, with the home window that has to come back;
`PairingShows` to `PairingLeaves` are the pairing thread and its events;
`Start`, `First`, `SetUp`, `Route` and `Watch` are launches, the mutex and the
request files that survive a controller; `Terminate` and `Quit` its end.  A
scenario lists what users and other programs may wish for.

`excuse` says why the last window may have gone without another: the user hid
the application or followed a link while none was open (`"user"`), or a home,
paired-phones, creator or settings window ended with an error, for which the
monitor opens nothing (`"error"`, set only if no other window is left,
`AnyWindow`).  `NeverVanishes` excepts both; `ErrorsReturnHome`, which excepts
the user only, is refuted.

### CameraScan

`Submit` hands a frame to the worker and replaces the one that waits; `Scan`
analyses the newest with the cheap pass, and every `ThoroughEvery`-th with the
passes that find harder codes; `Poll` fetches results once; the gate of
`app.py` is `age` (time since a code was last seen).  `Pass(c)` is the first
pass that reads a code; a pass that finds anything ends the scan of its frame.
Capture back ends may fail to open or read.  The history variables state when
a code was out of the frames between two reports.

## Runs

| Run | Question | Instance |
|---|---|---|
| `ReplayLedger` | the ledger accepts nothing twice inside its window, loses no unexpired record, gives the database back, implements `ReplayGuard` | 2 processes, 3 messages with expiries 1, 2, 3, room for 2, clock to 4 |
| `RelayDeliveries` | nothing follows a revocation's DELETE, leases hold, the relay implements `Mailbox` | any client and its orphan, 1 message, clock to 3 |
| `DeliverySystem` | one question per message, none forgotten or shown after being dropped, one message of a link on its way, truthful receipts; implements `Handover` | 2 messages for 1 link, 1 fault, clock to 3 |
| `DeliveryRemoval` | removal leaves nothing at the relay; the clients fit `RelaySpec`; a delivery shown as on its way is resolved | 1 message, removable pair, 1 fault, clock to 2 |
| `DeliveryLocked` | refuted: an accepted message keeps its link locked | 2 messages, 1 fault |
| `TrayController` | handles and events are true; the application does not vanish; it ends only on its own user's request | 2 children; 5 scenarios of wishes with one controller and 2 windows, 1 scenario with two controllers after each other |
| `CredentialFile` | the file can always be loaded; transactions are atomic | 2 threads, 1 origin, 2 devices, 2 pairs, any failures and crashes |
| `Wakeups` | no wake-up is lost; sessions are stored before use; every message is polled if the user answers | 4 messages, 3 faults |
| `ReceiverService` | no refresh is lost and each is served; a report is taken back however its receiver ends | 1 origin with 3 changes, 1 question, 1 refreshed session; 2 origins with 2 changes and 2 questions; 2 origins with 2 changes whose reports may fail |
| `Pairing` | a session ended by its phone, or by its window before a request was taken up, gives no pair; what a phone saved is what the PC stored; an approved pairing is complete; pairings end; implements `Introduction` | 1 phone that tries twice with 1 loss; 2 phones with one code; 1 phone and a relay restart |
| `LocalRelay` | phones are told of their own delivery; one question per accepted message; the newest socket is used; implements `Handover` | 7 scenarios: up to 3 requests, 3 sockets, clock error of one tick either way, 1 revocation |
| `CameraScan` | one report per presence; no code in view stays unreported | 4 scenarios: easy and hard codes, texts, both exit modes, failing frames |

Why the bounds are enough:

* Deliveries: expiry, lease and receipt lifetime are one tick each (in
  `DeliveryRemoval` a message lives for its own tick), so all orders of "lease
  ends", "receipt expires" and "message expires" occur within three ticks; two
  messages of a link are what the phone's lock is about; one fault is one lost
  call, failed database request or restart at any point.  Several faults, and
  several links, are covered by `DeliverySystem_proofs`.
* Ledger: one message more than it has room for, and a third expiry between
  the other two.
* Credential file: the hazard is one transaction inside another, which two
  threads show; two devices for one origin and two pairs reach every way in
  which a transaction is refused.
* Wake-ups: one message in the receiver's hands, two behind it, one that races
  a join; three faults allow a break inside a reconnection inside a refresh.
* Service: a change between clearing and loading, another while the file is
  loaded, and a third that undoes one of them; the second instance has a task
  cancelled while another origin's question is shown; in the third a write of
  the shared file fails for one origin and not for the other.
* Pairing: a lost exchange with a second try is a late request against a new
  one; two phones with one code race for one session; a restart forgets device
  and session at any stage.  A session lives for one tick, so its end can fall
  between any two steps.
* Local relay: each scenario is one pair of events that could meet (a repeated
  request, an altered one, a replaced socket, clocks apart).
* Tray: two windows, because handles and monitors of two processes are what can
  be confused; scenarios combine the wishes that share state.
* Camera: a code that leaves and comes back, a neighbour that hides it from the
  thorough passes, one failing frame, a re-arm time of two ticks.

The named bounds are `MaxClock`, `MaxFaults`, `MaxMessages`, `MaxFailures`,
`MaxRotations`, `MaxTries`, `MaxTime`, `MaxDue`, and the fields of `Bounds`,
`Budgets` and `Scenarios`.

`CHECK_DEADLOCK FALSE` stands wherever the system may really stop: when the
clock has reached its bound and all messages have expired, when the messages
and faults of an instance are used up, when the service, the controller or the
camera has ended.  `RelayDeliveries` is the run that never stops.

Fairness:

* `ReplayLedger`: a process inside `remember()` goes on until it returns
  (SQLite's lock wait is bounded).
* `DeliveryRemoval`: time passes, the page's timers fire while it is open, and
  its status request, which has a timeout (`RECEIPT_REQUEST_TIMEOUT_MS`), is
  answered or lost.  The POST of a message has none (`relay-client.ts:296-300`)
  and is not fair: a page whose POST hangs waits with it, and
  `OnItsWayResolves` speaks of deliveries whose POST is over.  Nothing is
  assumed about the relay, the PC or the user.
* `Wakeups`: the receiver's own coroutine goes on and its timeouts fire;
  nothing about the Realtime client, whose wake-ups may all fail, and nothing
  about the user: `EverythingIsPolled` holds of behaviours in which the
  receiver does not wait forever for an answer.
* `ReceiverService`: the loop's thread goes on; loading succeeds if it is
  tried again and again (strong fairness: the file is readable, and each retry
  reloads it).  Users, phones and tasks are not assumed to do anything.
* `Pairing`: the controller's tasks go on, the window ends at its deadline, and
  time passes; phones and relay may do nothing.
* `CameraScan`: both threads go on; an open text window is closed by its user.

## What the code does against its documents

* `DeliveryLocked` (a run): an acknowledgement is lost, the lease ends, the PC
  refuses its own accepted message as a replay, the phone takes
  `delivery_rejected` as final and lets the user send the link a second time,
  against the comment at `relay-client.ts:26-28`.

These definitions were refuted by TLC while the models were written and are
kept beside the properties that hold, with the line they contradict; no run
repeats them:

* `AtMostOnce` (`ReplayLedger`): a transaction that read its clock before
  waiting for another one can accept a message again after it expired.
* `ExitStopsEverything` (`TrayController`): `_launch_camera` does not look at
  `_stop_event`, so a monitor that is late starts a camera after
  `_terminate_children`.
* `RoutedIsSeen` (`TrayController`): a launch that meets an ending or a
  starting controller is deleted by the next `clear_control_requests`.
* `SessionOfDevice` (`ReceiverService`): `update_realtime_session` finds the
  device by its origin, so a task of the device before it stores the wrong
  user's session.
* `ClosedIsCancelled` (`Pairing`): when the poll under way fails on the network
  while its window closes, the error ends the attempt before the relay's
  session is cancelled; the session stays open until it expires.
* `ClosedIsNotPaired` (`Pairing`): when the poll brings a request while the
  window that was closed, or ran out, is being taken down, `asyncio.wait`
  returns with the request alone; the window's outcome is not looked at and the
  session is paired, against README.md:363 ("Closing it invalidates the
  unfinished relay session immediately").
* `ErrorsReturnHome` (`TrayController`): `_monitor_child` does nothing for the
  error exit of a home, paired-phones, creator or settings window, so that only
  the tray icon is left (no document says otherwise).
* `OfflineIsTrue` (`LocalRelay`): the end of a replaced socket fails every
  waiting delivery of its device; a phone hears "The paired computer
  disconnected." (`relay/app.py:423`) of a message the PC accepts over the live
  socket.

## Proofs

All theorems are for any values of the constants.  The named assumptions give
the constants their types (a capacity of at least one, bounds that are
naturals, finitely many requests and devices, a device name to draw) and keep
apart what the code tells apart: `None` and `NoMessage` are no names, a pair is
not named like a device.  `RelayAssumption` also says whose device a message
is for; every run evaluates the assumptions of its modules.

* `ReplayLedger_proofs`: the inductive invariant says that captured clocks
  never run ahead (so pruning with them keeps what can still be presented),
  that nothing was accepted before the database was published (so publishing
  loses nothing), that an accepted unexpired message is on disk, and that
  nothing is accepted twice in its window.  `AcceptedOnce`,
  `AcceptedRemembered`, `NeverLost`, `Bounded` and the refinement
  `ImplementsGuard` follow.
* `DeliverySystem_proofs`, first part, the relay by itself: a call names its
  message, carries a time of the past, and a revocation which has reached its
  DELETE has marked the pair; so a row can appear only while the pair is active
  and nothing follows the DELETE (`PurgedStaysEmpty`).  `RowStep` classifies
  what a step may do to the rows; `LeaseIsHonoured` and the refinement
  `RelayImplementsMailbox` follow by cases over it.
* `DeliverySystem_proofs`, second part: every safety property of the whole
  delivery.  The invariant `SysInv` is the relay's, the types, and eight
  parts, each said once: `Clean` (whose calls a slot holds), `Page` (what the
  screen shows is what the request is about), `Asking` (accepted, being acknowledged, asked
  about), `Removal`, `Truth` (whatever says "delivered" goes back to the PC's
  acceptance), `Once` (a message has one envelope, whose POST is in one place
  and precedes its row), `Heard` (what the phone was told still holds) and
  `Locked` (what may still arrive is the attempt of its link).  The relay's
  handlers are looked at once, in `RelayHasEffect`; everything after
  it uses `RelayEffect`, what a relay step may do to calls and rows.  Each part
  then has one lemma for the relay, one for the phone and one for the PC.
  `NextFits` shows that both clients stay inside `RelaySpec`, so that the
  theorems about the relay alone hold of the system (`SystemRefinesRelay`).
  Neither `Once` nor `Heard` can be left out of `Locked`: that a definite
  rejection frees a link is safe only because no second copy of the POST is
  anywhere, and no row exists.  `SystemKeepsPromise` is the refinement of
  `Handover`: only `Accept`, the end of an acknowledgement, `Restart` and
  `WatchReply` are visible there, and `Asking` and `Truth` are what their
  abstract steps need (a message under acknowledgement is taken, not given up
  and not asked about; a genuine receipt is of a taken message).
* `CredentialFile_proofs`: each transaction keeps a store
  well formed; a thread inside one has the lock (`Held`), what it has seen is
  still the file (`SeenIsFile`), and the temporary file is its transaction's
  outcome (`TempIsFresh`); so `Replace` is the atomic step of
  `CredentialStore`, and `Atomic` is the refinement.
* `ReceiverService_proofs`: the file is well formed, what the user was told is
  in the file or about to be announced, tasks exist only while the loop runs
  them, and threads that think they have a task do; `RefreshKept` and
  `ReportsTrue` are inductive with these.  `ReportsTrue` needs that a task which
  stores or asks is past its connection, and looks at what a `Record` can do
  once, for any failed and forgotten reports.
* `Wakeups_proofs`: `SignalsAreTrue` is not inductive; the strengthening
  follows the message from an empty answer on (`SignalIsThere`), knows that a
  long sleep was chosen connected or has been told otherwise (`LongIsKnown`),
  and that a join is answered before any broadcast (`AnswerFirst`).
* `TrayController_proofs`: an exit code, an exit request of this controller and
  its stop event all go back to its user (`StopInv`), through children, files
  and questions.
  `HandlesTrue` needs both directions between windows and handles: a handle
  names a process of its role whose end its own monitor has still to see
  (`HandlesHold`), and every window that runs is known and held
  (`RunningHeld`).  `Visible` holds of settled states only because somebody is
  responsible in all the others: `ShowInv` says that as long as the controller
  is up and not excused, something is `Pending` that shows a window, excuses
  the application or ends it.  The last part is about the scanner behind the camera
  window (the module extends `CameraScan` as well): `Gate` says that, while the
  loop has gone less than `Rearm` ticks without good results, a code that the
  cheap pass reads and that has not been absent since its report was seen less
  than `Rearm` ago, by the age the gate keeps plus the time since the loop's
  `now`; `Results`, that good results hold every such code but those that were
  missing from a frame; `ReportedOnce` follows.
* `Pairing_proofs`: the relay's handlers are looked at once: `Effect` says what
  a request may do to a session (nothing, forget it, create it, update it), and
  `Exchanged` that a lost exchange does the same or nothing.  `Routes` ties the
  relay's entry of a session to its `owner`, the request the PC stored a pair
  for; `Relied` says what the PC still relies on at the relay; `AllLate` that a
  request which arrives late is about something the PC has given up (a
  cancelled session, a device it does not use, a result for the owner), so that
  it is `Harmless`.  A closed session stays without an owner (`ClosedInv`): a
  window whose task is done when the wait ends decides before the request is
  looked at, and one that failed ends the attempt wherever it is awaited.  `EndedUnpaired`, `SavedStored` and `ApprovedComplete`
  follow.  The proof corrected `ApprovedIsComplete`: a `create_pairing` that
  arrives late prunes sessions whose time is over, so the phone's result is
  there until the session expires and not for ever; with one session, as in
  the run, this cannot be seen.  `PairingIntroduces` is the refinement of
  `Introduction`: `Persist` needs an unowned, unclosed session (`Ownership`,
  `ClosedInv`), and a phone that saves reads a result that the relay can only
  have from the owner's request (`Routes`).
* `LocalRelay_proofs`: a delivery is on its way at most once and its request
  unjudged (`Deliveries`), a frame back names a request the PC has judged that
  way (`Replies`), and a receiver works on a socket of its device
  (`Receivers`); so `RepliesTrue`.  `AsksOnce` needs `Remembered` (what is
  accepted stays in the receiver's memory until its message has expired, the
  reason why no second request for it is accepted) and `Accounts` (an accepted
  message is about to be asked about, was asked about once, or was lost to a
  cancellation).  `NewestReached` is inductive with the types.
  `RelayKeepsHandover` maps a request's verdict and answer to `Handover`; it is
  the same promise as the hosted relay's, kept by different means: sockets and
  a memory of unexpired IDs instead of leases and a ledger.

Every safety property that a passing run checks is stated by a theorem.  Only
model-checked: all liveness properties (`WriterReturns`,
`OnItsWayResolves`, `EverythingIsPolled`, `RefreshIsServed`, `PairingEnds`,
`SeenIsReported`), since liveness under fairness is outside the prover's reach.

## Not modelled

* The hosted relay's pairing handlers and rate limits: the pairing protocol is
  checked against the local relay, whose handlers are single steps; the hosted
  ones split a session's check from its update.
* The D1 relay, an alternative backend that the deployment does not use.
* Cryptography and byte formats (`protocol.py`, `wqrs.ts`): an envelope is
  authentic, keeps its times, and can be read by the holder of its key.
* A reload of the phone's page, which forgets its attempts by design
  (`relay-client.ts:26`), and the connection badge; the IndexedDB schema.
* `get_pair_status` and other calls that only read; `reject_pairing_request`
  and `approved=False`, which no caller uses.
* What Supabase does with a refresh token: the model only knows whether the
  session in use is the stored one.
* `paired_phone_ipc`'s one-use files, start-up registration, child processes
  that fail to start.
* Widgets and layout, image capture and processing, the camera's resolution,
  the overlay, the one-shot screen scan, packaging: no state the properties
  speak of.

What would come next: the hosted pairing handlers with their split checks
against `Pairing`'s clients.
