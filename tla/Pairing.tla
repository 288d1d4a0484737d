------------------------------- MODULE Pairing -------------------------------
(***************************************************************************)
(* Pairing a phone: the controller of the PC with its two tasks, the one   *)
(* that polls for the phone's request and the one that shows the QR window *)
(* (pairing_controller.py, pairing.py, pairing_ui.py), the phones that     *)
(* scan the code (relay-client.ts, PairingView.tsx; fake_pairing_phone.py),*)
(* and the local relay, which loses everything when it restarts.  A        *)
(* request may get lost, its answer may get lost, and one whose sender     *)
(* gave up may still arrive later.                                         *)
(***************************************************************************)
EXTENDS PairingRelay, FiniteSets

CONSTANTS
    Home,         \* the relay's origin
    Phones,
    Ttl,          \* PAIRING_TTL_SECONDS, in ticks
    MaxTries,     \* bound: requests of one phone
    Budgets       \* a behaviour's bounds: the phones that scan, the requests
                  \* of each, restarts of the relay, lost requests or answers

ASSUME RequestAssumption ==
    /\ Requests = Phones \X (1..MaxTries)
    /\ Budgets \subseteq [phones: SUBSET Phones, tries: 0..MaxTries,
                          restarts: Nat, losses: Nat]

ASSUME NamesAssumption ==
    /\ Home \in Origins /\ Ttl \in Nat /\ MaxTries \in Nat
    /\ IsFiniteSet(DeviceIds) /\ DeviceIds # {} /\ DeviceIds \cap PairIds = {}
    /\ None \notin DeviceIds \cup PairIds \cup Requests \cup Route

VARIABLES
    relay,      \* the relay's tables
    left,       \* for each session, the ticks until its expiry
    store,      \* the credential file (PairStore)
    pc,         \* the controller and its two tasks
    phones,     \* the browsers
    network,    \* requests whose answer nobody waits for
    used,       \* devices and sessions the relay has named
    closed,     \* sessions whose window's task was over, without a phone,
                \* before the controller went on to a request
    owner,      \* for each session, whose request the PC stored a pair for
    faults      \* the phones and tries of this behaviour, the restarts and
                \* losses that are left

vars == <<relay, left, store, pc, phones, network, used, closed, owner, faults>>

Idle == [stage |-> "idle", id |-> None, device |-> None, again |-> FALSE,
         poll |-> "none", window |-> "none", gone |-> FALSE, stop |-> FALSE, opened |-> FALSE,
         received |-> FALSE, request |-> None, result |-> "none"]

TypeOK ==
    /\ relay \in Relay
    /\ left \in [PairIds -> -1..Ttl]
    /\ store \in Store
    /\ pc.stage \in {"idle", "register", "open", "wait", "stop", "await", "close", "cancel",
                     "register_pair", "persist", "publish", "revoke"}
    /\ pc.poll \in {"none", "polling", "request", "cancelled", "timeout", "refused", "broken"}
    /\ pc.window \in {"none", "shown", "cancelled", "received", "opened", "expired", "failed"}
    /\ pc.result \in {"none", "approved", "cancelled", "expired", "error"}
    /\ \A f \in Phones : phones[f].at \in {"idle", "scanned", "polling", "error"}
    /\ closed \subseteq PairIds
    /\ owner \in [PairIds -> Requests \cup {None}]

(* Names are drawn at random by the code; which one comes next is the same *)
(* to everybody.                                                           *)
Fresh(names, taken) == CHOOSE n \in names \ taken : TRUE

Named(d) == [origin |-> Home, id |-> d, session |-> NoSession]

(* The PC starts without a device, or with one of an earlier relay.        *)
Init ==
    /\ relay = EmptyRelay
    /\ left = [i \in PairIds |-> -1]
    /\ store \in {EmptyStore, ReplaceDevice(EmptyStore, Named(Fresh(DeviceIds, {})), FALSE)}
    /\ pc = Idle
    /\ phones = [f \in Phones |-> [at |-> "idle", id |-> None, try |-> 0, saved |-> {}]]
    /\ network = {} /\ used = {d.id : d \in store.devices} /\ closed = {}
    /\ owner = [i \in PairIds |-> None]
    /\ faults \in Budgets

StoredIds == {p.id : p \in store.pairs}

(* The ways one exchange over the network can end: `code` is what the      *)
(* caller sees, "network" for an httpx error.  A request that changes      *)
(* nothing leaves no trace when it is lost.                                *)
Exchanges(req) ==
    LET answer == Answer(relay, left, req)
        Lost(tables, late) == [code |-> "network", relay |-> tables, late |-> late, lost |-> 1]
    IN {[code |-> answer.code, relay |-> answer.relay, late |-> {}, lost |-> 0]}
       \cup IF faults.losses = 0 THEN {}
            ELSE {Lost(answer.relay, {}), Lost(relay, {})} \cup
                 (IF answer.relay = relay THEN {} ELSE {Lost(relay, {req})})

Happens(x) ==
    /\ relay' = x.relay
    /\ network' = network \cup x.late
    /\ faults' = [faults EXCEPT !.losses = @ - x.lost]

(* What both ends hold of a session is checked against its expiry. *)
InTime(i) == left[i] >= 0

End(result) == pc' = [pc EXCEPT !.stage = "idle", !.result = result]

Go(stage) == pc' = [pc EXCEPT !.stage = stage]

-----------------------------------------------------------------------------
(* The controller: a device, then a session. *)

(* Bound: an attempt begins while there are names for all it may need. *)
Begin ==
    /\ pc.stage = "idle"
    /\ Cardinality(DeviceIds \ used) >= 2 /\ PairIds \ used # {}
    /\ IF DeviceFor(store, Home) = {}
       THEN pc' = [Idle EXCEPT !.stage = "register"]
       ELSE \E d \in DeviceFor(store, Home) :
                pc' = [Idle EXCEPT !.stage = "open", !.device = d.id]
    /\ UNCHANGED <<relay, left, store, phones, network, used, closed, owner, faults>>

(* _register_device; the second time the old device's pairs go with it.    *)
RegisterDevice ==
    LET d == Fresh(DeviceIds, used) IN
    /\ pc.stage = "register"
    /\ \E x \in Exchanges([do |-> "create_device", device |-> d]) :
       /\ Happens(x)
       /\ used' = used \cup {d}
       /\ IF x.code = "ok"
          THEN /\ store' = ReplaceDevice(store, Named(d), pc.again)
               /\ pc' = [pc EXCEPT !.stage = "open", !.device = d]
          ELSE End("error") /\ UNCHANGED store
       /\ UNCHANGED <<left, phones, closed, owner>>

(* The session's key pair and code are made; one task polls for a request, *)
(* one shows the code.                                                     *)
Offered(i) == [pc EXCEPT !.stage = "wait", !.id = i, !.poll = "polling", !.window = "shown"]

(* open_pc_pairing; a device the relay forgot is registered once more.     *)
OpenPairing(prune) ==
    LET i == Fresh(PairIds, used) IN
    /\ pc.stage = "open"
    /\ \E x \in Exchanges([do |-> "create_pairing", device |-> pc.device, id |-> i, prune |-> prune]) :
       /\ Happens(x)
       /\ IF x.code = "unauthorized" THEN UNCHANGED <<used, left>>
          ELSE used' = used \cup {i} /\ left' = [left EXCEPT ![i] = Ttl]
       /\ CASE x.code = "ok" ->
               pc' = Offered(i)
            [] x.code = "unauthorized" /\ ~pc.again ->
               pc' = [pc EXCEPT !.stage = "register", !.again = TRUE]
            [] OTHER -> End("error")
       /\ UNCHANGED <<store, phones, closed, owner>>

(* decrypt_pairing_request; in its last second a request may be too old.   *)
Decrypted(i) == {"request"} \cup IF left[i] = 0 THEN {"broken"} ELSE {}

(* One round of _poll_for_envelope, and the decryption of what it returns. *)
PollRequest ==
    /\ pc.poll = "polling" /\ pc.stage # "idle"
    /\ \E x \in Exchanges([do |-> "read_request", device |-> pc.device, id |-> pc.id]) :
       /\ Happens(x)
       /\ CASE x.code = "request_received" ->
               \E outcome \in Decrypted(pc.id) :
                   pc' = [pc EXCEPT !.poll = outcome,
                                    !.request = relay.pairings[pc.id].request]
            [] x.code = "phone_cancelled" -> pc' = [pc EXCEPT !.poll = "cancelled"]
            [] x.code \in {"phone_opened", "waiting_for_phone"} ->
               pc' = [pc EXCEPT !.opened = @ \/ x.code = "phone_opened",
                                !.poll = IF left[pc.id] <= 0 THEN "timeout" ELSE "polling"]
            [] x.code = "network" -> pc' = [pc EXCEPT !.poll = "broken"]
            [] OTHER -> pc' = [pc EXCEPT !.poll = "refused"]
       /\ UNCHANGED <<left, store, phones, used, closed, owner>>

(* The stop is seen at the top of the loop or while it sleeps. *)
StopPolling ==
    /\ pc.poll = "polling" /\ pc.stop
    /\ pc' = [pc EXCEPT !.poll = "cancelled"]
    /\ UNCHANGED <<relay, left, store, phones, network, used, closed, owner, faults>>

(* show_pairing_qr_window decides to return, by itself or because the user *)
(* or the tray closes it, or fails; its finally still takes the window     *)
(* down.                                                                   *)
CloseWindow(outcome) ==
    /\ pc.window = "shown"
    /\ CASE outcome = "received" -> pc.received
         [] outcome = "opened" -> pc.opened /\ ~pc.received
         [] outcome = "expired" -> left[pc.id] <= 0
         [] OTHER -> TRUE
    /\ pc' = [pc EXCEPT !.window = outcome]
    /\ UNCHANGED <<relay, left, store, phones, network, used, closed, owner, faults>>

(* The window is down and its task, window_task, is done.                  *)
WindowGone ==
    /\ pc.window \notin {"none", "shown"} /\ ~pc.gone
    /\ pc' = [pc EXCEPT !.gone = TRUE]
    /\ closed' = IF \/ pc.window \in {"cancelled", "expired"} /\ pc.stage = "wait"
                    \/ pc.window = "failed"
                 THEN closed \cup {pc.id} ELSE closed
    /\ UNCHANGED <<relay, left, store, phones, network, used, owner, faults>>

PollDone == pc.poll # "polling"

(* Mutant: a request that has come in goes before a closed window. *)
DecideByRequest ==
    /\ pc.stage = "wait" /\ (PollDone \/ pc.gone)
    /\ CASE pc.gone /\ pc.window = "failed" -> End("error")
         [] pc.gone /\ pc.window \in {"cancelled", "expired"} /\ pc.poll # "request" ->
               pc' = [pc EXCEPT !.stage = "stop", !.stop = TRUE]
         [] OTHER -> Go("await")
    /\ UNCHANGED <<relay, left, store, phones, network, used, closed, owner, faults>>

(* asyncio.wait returns: a window whose task is done decides, or raises; a *)
(* window that is still being taken down is not asked.                     *)
Decide ==
    /\ pc.stage = "wait" /\ (PollDone \/ pc.gone)
    /\ CASE pc.gone /\ pc.window = "failed" -> End("error")
         [] pc.gone /\ pc.window \in {"cancelled", "expired"} ->
               pc' = [pc EXCEPT !.stage = "stop", !.stop = TRUE]
         [] OTHER -> Go("await")
    /\ UNCHANGED <<relay, left, store, phones, network, used, closed, owner, faults>>

(* After a closed window, only the errors that suppress names are dropped. *)
Stopped ==
    /\ pc.stage = "stop" /\ PollDone
    /\ IF pc.poll = "broken" THEN End("error") ELSE Go("cancel")
    /\ UNCHANGED <<relay, left, store, phones, network, used, closed, owner, faults>>

(* The request task is over; the window is told and awaited. *)
Awaited ==
    /\ pc.stage = "await" /\ PollDone
    /\ pc' = [pc EXCEPT !.stage = "close", !.received = TRUE]
    /\ UNCHANGED <<relay, left, store, phones, network, used, closed, owner, faults>>

(* Mutant: a refused or failed poll is tried again. *)
ClosedAsksAgain ==
    /\ pc.stage = "close" /\ pc.gone
    /\ CASE pc.window = "failed" -> End("error")
         [] pc.window # "failed" /\ pc.poll = "request" -> Go("register_pair")
         [] pc.window # "failed" /\ pc.poll \in {"cancelled", "timeout"} -> Go("cancel")
         [] OTHER -> pc' = [pc EXCEPT !.stage = "await", !.poll = "polling"]
    /\ UNCHANGED <<relay, left, store, phones, network, used, closed, owner, faults>>

(* The window is awaited until it is gone; its outcome is not looked at,   *)
(* only its exception.                                                     *)
Closed ==
    /\ pc.stage = "close" /\ pc.gone
    /\ CASE pc.window = "failed" -> End("error")
         [] pc.window # "failed" /\ pc.poll = "request" -> Go("register_pair")
         [] pc.window # "failed" /\ pc.poll \in {"cancelled", "timeout"} -> Go("cancel")
         [] OTHER -> End("error")
    /\ UNCHANGED <<relay, left, store, phones, network, used, closed, owner, faults>>

(* _best_effort_cancel_pairing, whatever comes of it. *)
Cancel ==
    /\ pc.stage = "cancel"
    /\ \E x \in Exchanges([do |-> "cancel", device |-> pc.device, id |-> pc.id]) :
       /\ Happens(x)
       /\ End(IF pc.window = "expired" \/ pc.poll = "timeout" THEN "expired" ELSE "cancelled")
       /\ UNCHANGED <<left, store, phones, used, closed, owner>>

-----------------------------------------------------------------------------
(* complete_pc_pairing: the route, the PC's pair, the phone's result.      *)

RegisterRoute ==
    /\ pc.stage = "register_pair" /\ InTime(pc.id)
    /\ \E x \in Exchanges([do |-> "register_pair", device |-> pc.device, id |-> pc.id]) :
       /\ Happens(x)
       /\ IF x.code = "ok" THEN Go("persist") ELSE End("error")
       /\ UNCHANGED <<left, store, phones, used, closed, owner>>

(* approve_pairing_request refuses to build a result that has expired.     *)
ApproveTooLate ==
    /\ pc.stage = "register_pair" /\ ~InTime(pc.id)
    /\ End("error")
    /\ UNCHANGED <<relay, left, store, phones, network, used, closed, owner, faults>>

PcPair == [origin |-> Home, device |-> pc.device, id |-> pc.id]

(* Mutant: the phone gets its result although the store failed. *)
PersistOrNot(ok) ==
    /\ pc.stage = "persist"
    /\ store' = IF ok THEN AddPair(store, PcPair) ELSE store
    /\ owner' = IF ok THEN [owner EXCEPT ![pc.id] = pc.request] ELSE owner
    /\ Go("publish")
    /\ UNCHANGED <<relay, left, phones, network, used, closed, faults>>

Persist(ok) ==
    /\ pc.stage = "persist"
    /\ IF ok
       THEN /\ KnownDevice(store, PcPair)
            /\ store' = AddPair(store, PcPair)
            /\ owner' = [owner EXCEPT ![pc.id] = pc.request]
            /\ Go("publish")
       ELSE Go("revoke") /\ UNCHANGED <<store, owner>>
    /\ UNCHANGED <<relay, left, phones, network, used, closed, faults>>

(* Mutant: an answer that did not come counts as a success. *)
PublishHopefully ==
    /\ pc.stage = "publish"
    /\ \E x \in Exchanges([do |-> "store_result", device |-> pc.device, id |-> pc.id,
                        request |-> pc.request]) :
       /\ Happens(x)
       /\ IF x.code \in {"ok", "network"} THEN End("approved") ELSE Go("revoke")
       /\ UNCHANGED <<left, store, phones, used, closed, owner>>

Publish ==
    /\ pc.stage = "publish"
    /\ \E x \in Exchanges([do |-> "store_result", device |-> pc.device, id |-> pc.id,
                        request |-> pc.request]) :
       /\ Happens(x)
       /\ IF x.code = "ok" THEN End("approved") ELSE Go("revoke")
       /\ UNCHANGED <<left, store, phones, used, closed, owner>>

(* _best_effort_revoke; then the error goes on to the user. *)
Revoke ==
    /\ pc.stage = "revoke"
    /\ \E x \in Exchanges([do |-> "revoke", device |-> pc.device, id |-> pc.id]) :
       /\ Happens(x)
       /\ End("error")
       /\ UNCHANGED <<left, store, phones, used, closed, owner>>

-----------------------------------------------------------------------------
(* The phones.  The page that opens reports it and does not wait; a page   *)
(* that is paired already may leave again and says so.                     *)

Scan(f) ==
    /\ f \in faults.phones /\ phones[f].at = "idle" /\ pc.window = "shown"
    /\ phones' = [phones EXCEPT ![f].at = "scanned", ![f].id = pc.id]
    /\ network' = network \cup {[do |-> "opened", id |-> pc.id]}
    /\ UNCHANGED <<relay, left, store, pc, used, closed, owner, faults>>

Leave(f) ==
    /\ phones[f].at = "scanned"
    /\ phones' = [phones EXCEPT ![f].at = "idle", ![f].id = None]
    /\ network' = network \cup {[do |-> "phone_cancel", id |-> phones[f].id]}
    /\ UNCHANGED <<relay, left, store, pc, used, closed, owner, faults>>

(* A request is known by the phone's fresh key pair.                       *)
Attempt(f) == <<f, phones[f].try + 1>>

(* pairWithPc with a key of its own, at first or on Try again.             *)
SubmitRequest(f) ==
    /\ phones[f].at \in {"scanned", "error"} /\ phones[f].try < faults.tries
    /\ \E x \in Exchanges([do |-> "submit", id |-> phones[f].id, request |-> Attempt(f)]) :
       /\ Happens(x)
       /\ phones' = [phones EXCEPT ![f].try = @ + 1,
                                   ![f].at = IF x.code = "ok" THEN "polling" ELSE "error"]
       /\ UNCHANGED <<left, store, pc, used, closed, owner>>

(* Both sides derive the same key from the request's and the code's.      *)
SameKey(result, f) == result = <<f, phones[f].try>>

(* decryptPairingResult accepts a result for its own key only; the pair is *)
(* saved before it is used, or not at all.                                 *)
PollResult(f, ok) ==
    LET i == phones[f].id IN
    /\ phones[f].at = "polling" /\ InTime(i)
    /\ \E x \in Exchanges([do |-> "read_result", id |-> i]) :
       /\ Happens(x)
       /\ phones' =
           CASE x.code = "result_available" /\ SameKey(relay.pairings[i].result, f) /\ ok ->
                   [phones EXCEPT ![f].at = "idle", ![f].saved = @ \cup {<<i, phones[f].try>>}]
             [] x.code = "waiting_for_pc" -> phones
             [] OTHER -> [phones EXCEPT ![f].at = "error"]
       /\ UNCHANGED <<left, store, pc, used, closed, owner>>

GiveUp(f) ==
    /\ phones[f].at = "polling" /\ ~InTime(phones[f].id)
    /\ phones' = [phones EXCEPT ![f].at = "error"]
    /\ UNCHANGED <<relay, left, store, pc, network, used, closed, owner, faults>>

-----------------------------------------------------------------------------
(* A request without a waiting sender arrives, or never does. *)
Arrive(req) ==
    /\ req \in network
    /\ network' = network \ {req}
    /\ relay' \in {relay, Answer(relay, left, req).relay}
    /\ UNCHANGED <<left, store, pc, phones, used, closed, owner, faults>>

RestartRelay ==
    /\ faults.restarts > 0
    /\ faults' = [faults EXCEPT !.restarts = @ - 1]
    /\ relay' = EmptyRelay
    /\ UNCHANGED <<left, store, pc, phones, network, used, closed, owner>>

Tick ==
    /\ \E i \in PairIds : left[i] >= 0
    /\ left' = [i \in PairIds |-> IF left[i] >= 0 THEN left[i] - 1 ELSE -1]
    /\ UNCHANGED <<relay, store, pc, phones, network, used, closed, owner, faults>>

WindowEnds ==
    \/ \E outcome \in {"received", "opened", "expired"} : CloseWindow(outcome)
    \/ WindowGone

Controller ==
    \/ RegisterDevice
    \/ \E prune \in BOOLEAN : OpenPairing(prune)
    \/ PollRequest \/ Cancel \/ RegisterRoute \/ Publish \/ Revoke
    \/ StopPolling \/ Decide \/ Stopped \/ Awaited \/ Closed \/ ApproveTooLate
    \/ \E ok \in BOOLEAN : Persist(ok)

Phone(f) ==
    \/ Scan(f) \/ Leave(f) \/ GiveUp(f) \/ SubmitRequest(f)
    \/ \E ok \in BOOLEAN : PollResult(f, ok)

Next ==
    \/ Begin \/ Controller \/ WindowEnds
    \/ \E outcome \in {"cancelled", "failed"} : CloseWindow(outcome)
    \/ \E f \in Phones : Phone(f)
    \/ \E req \in network : Arrive(req)
    \/ RestartRelay \/ Tick

Spec == Init /\ [][Next]_vars

(* The tasks run, the window looks at its events every 100 ms and is taken *)
(* down, time passes; nobody has to close the window.                      *)
FairSpec == Spec /\ WF_vars(Controller) /\ WF_vars(WindowEnds) /\ WF_vars(Tick)

-----------------------------------------------------------------------------
(* A window whose task was over before the controller went on to a         *)
(* request, closed by the user, at its end or by a failure, leads to no    *)
(* pair: not on the PC, not on a phone, however late the request arrives   *)
(* and whatever the poll under way still brings.                           *)
ClosedIsUnpaired ==
    \A i \in closed :
        /\ i \notin StoredIds
        /\ \A f \in Phones : \A s \in phones[f].saved : s[1] # i

(* A phone that saved a pair is the one the PC stored it for, with the     *)
(* same key: the PC stores first, and the code serves one phone.           *)
SavedIsStored ==
    TypeOK /\ \A f \in Phones : \A s \in phones[f].saved : owner[s[1]] = <<f, s[2]>>

(* A session the relay holds as cancelled by its phone never gave a pair.  *)
CancelledIsUnpaired ==
    \A i \in PairIds :
        relay.pairings[i] # None /\ relay.pairings[i].cancelled => owner[i] = None

(* A session that ended without the PC's user or without its phone gives   *)
(* no pair.                                                                *)
EndedIsUnpaired == ClosedIsUnpaired /\ CancelledIsUnpaired

(* A pairing reported as approved is complete: the PC has the pair, and a  *)
(* relay that still knows the device has its route and, for as long as the *)
(* session may be asked for it, the phone's result.                        *)
ApprovedIsComplete ==
    pc.result = "approved" =>
        /\ pc.id \in StoredIds /\ owner[pc.id] = pc.request
        /\ pc.device \in relay.devices =>
            /\ [id |-> pc.id, device |-> pc.device, revoked |-> FALSE] \in relay.pairs
            /\ InTime(pc.id) => relay.pairings[pc.id].result = pc.request

(* Every pairing ends: the session expires, if nothing else happens.       *)
PairingEnds == (pc.stage # "idle") ~> (pc.stage = "idle")

(* The pairing's promise, its tasks, messages and relay hidden: a session  *)
(* introduces one request at most, none once its window's task was over    *)
(* unused, and a phone keeps a pair only of a session the PC stored for    *)
(* its very key                                                            *)
(* (pairing_controller.py; relay/state.py, submit and store_result).       *)
Saved == UNION {{<<s[1], <<f, s[2]>>>> : s \in phones[f].saved} : f \in Phones}
Promise == INSTANCE Introduction WITH Session <- PairIds, Request <- Requests, saved <- Saved
IntroductionSpec == Promise!Spec

(* "Closing it invalidates the unfinished relay session immediately."      *)
(* (README.md:363), of the attempt: it asks the relay for the              *)
(* cancellation before it ends.  Violated: a poll that fails on the        *)
(* network while the window closes is not among the suppressed errors.     *)
ClosedIsCancelled == pc.stage = "idle" /\ pc.id \in closed => pc.result # "error"

(* The same sentence, of the session: one whose window the user closed, or *)
(* that ran out, is not paired.  Violated: a poll that brings a request    *)
(* while the window is being taken down wakes the controller alone, and    *)
(* what the window answers afterwards is not looked at.                    *)
ClosedIsNotPaired == pc.result = "approved" => pc.window \notin {"cancelled", "expired"}
=============================================================================
