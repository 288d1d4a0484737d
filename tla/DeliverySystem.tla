--------------------------- MODULE DeliverySystem ---------------------------
(***************************************************************************)
(* A link on its way: one page of the phone's web app (relay-client.ts,    *)
(* QrResultView.tsx), the hosted relay (RelayDeliveries) and the receiver  *)
(* of the PC (receiver.py).  The replay ledger is represented by what it   *)
(* promises (ReplayGuard): an unexpired message is accepted once.          *)
(*                                                                         *)
(* The phone keeps an attempt per link in page memory and shows one link   *)
(* at a time; reloading the page forgets the attempts and is outside the   *)
(* model.  The PC polls, decrypts, acknowledges and asks its user once.    *)
(* Every client call can be lost, answered late or answered by a failure.  *)
(***************************************************************************)
EXTENDS RelayDeliveries, FiniteSets

CONSTANTS Link,        \* the links in the QR codes the phone scans
          NoLink,
          Removable,   \* whether the user may remove the pair on the PC
          MaxFaults    \* bound on lost calls, failures and restarts

ASSUME SystemAssumption == /\ NoLink \notin Link
                           /\ Removable \in BOOLEAN
                           /\ MaxFaults \in Nat
                           /\ {"phone", "pc", "tray"} \subseteq Slot

VARIABLES
  \* phone
  attempt,    \* deliveryAttempts: the message of each link, if there is one
  linkOf,     \* the link each message was built for
  expiry,     \* its expires_at
  known,      \* messages whose delivery ID the phone has
  verified,   \* messages whose receipt the phone has verified
  rescanned,  \* observability: verified messages an explicit rescan retired
  view,       \* the link on screen and its DeliveryState
  phonePaired, \* the page still holds the pair
  \* PC, whose polling loop is where its call is
  accepted,   \* messages remember() has accepted
  dropped,    \* observability: accepted messages the receiver gave up
  prompts,    \* how often on_url was called for each message
  paired,     \* the pair is in the PC's store
  faults

phoneVars == <<attempt, linkOf, expiry, known, verified, rescanned, view,
              phonePaired>>
pcVars == <<accepted, dropped, prompts, paired>>
vars == <<relayVars, phoneVars, pcVars, faults>>

DeliveryState == {"camera", "idle", "sending", "pending", "unconfirmed",
                  "delivered", "error"}

TypeOK == /\ RelayTypeOK
          /\ attempt \in [Link -> Message \cup {NoMessage}]
          /\ linkOf \in [Message -> Link \cup {NoLink}]
          /\ expiry \in [Message -> Nat]
          /\ known \in SUBSET Message
          /\ verified \in SUBSET Message
          /\ rescanned \in SUBSET verified
          /\ view \in [link : Link \cup {NoLink}, st : DeliveryState]
          /\ phonePaired \in BOOLEAN
          /\ accepted \in SUBSET Message
          /\ dropped \in SUBSET accepted
          /\ prompts \in [Message -> Nat]
          /\ paired \in BOOLEAN
          /\ faults \in 0 .. MaxFaults

Init == /\ RelayInit
        /\ attempt = [u \in Link |-> NoMessage]
        /\ linkOf = [m \in Message |-> NoLink]
        /\ expiry = [m \in Message |-> 0]
        /\ known = {} /\ verified = {} /\ rescanned = {}
        /\ view = [link |-> NoLink, st |-> "camera"]
        /\ phonePaired = TRUE
        /\ accepted = {} /\ dropped = {}
        /\ prompts = [m \in Message |-> 0]
        /\ paired = TRUE
        /\ faults = 0
-----------------------------------------------------------------------------
Spend == faults < MaxFaults /\ faults' = faults + 1

Replied(s, op) == At(s, op, "reply")

Ask(s, c) == call' = [call EXCEPT ![s] = c]
HangUp(s) == call' = [call EXCEPT ![s] = NoCall]

\* What a step of one of the two clients leaves alone.
Relay == <<clock, tables>>

OnScreen == attempt[view.link]
Show(st) == view' = [view EXCEPT !.st = st]
Retire(u) == attempt' = [attempt EXCEPT ![u] = NoMessage]
Overdue(m) == expiry[m] < clock
-----------------------------------------------------------------------------
(* The phone.                                                              *)

Scan(u) ==
  /\ view.st = "camera" /\ phonePaired
  /\ view' = [link |-> u, st |-> "idle"]
  /\ UNCHANGED <<Relay, call, pcVars, faults, attempt, linkOf, expiry, known,
                 verified, rescanned, phonePaired>>

Unbuilt == {m \in Message : linkOf[m] = NoLink}

\* sendUrlToPc drops the attempts that are over, then reuses the link's
\* attempt or builds and posts a new one.
Lapsed == [u \in Link |-> IF attempt[u] # NoMessage /\ Overdue(attempt[u])
                          THEN NoMessage ELSE attempt[u]]

MaySend == view.st \in {"idle", "error"} /\ phonePaired

SendNew(m) ==
  LET u == view.link
  IN /\ MaySend /\ m \in Unbuilt
     /\ Lapsed[u] = NoMessage
     /\ attempt' = [Lapsed EXCEPT ![u] = m]
     /\ linkOf' = [linkOf EXCEPT ![m] = u]
     /\ expiry' = [expiry EXCEPT ![m] = clock + MessageTTL]
     /\ Ask("phone", Request("submit", m, clock + MessageTTL))
     /\ Show("sending")
     /\ UNCHANGED <<Relay, pcVars, faults, known, verified, rescanned, phonePaired>>

SendAgain ==
  LET m == Lapsed[view.link]
  IN /\ MaySend
     /\ m # NoMessage
     /\ attempt' = Lapsed
     /\ Show(IF m \in verified THEN "delivered" ELSE "sending")
     /\ UNCHANGED <<Relay, call, pcVars, faults, linkOf, expiry, known, verified,
                    rescanned, phonePaired>>

\* Mutant: every answer with an error code counts as a rejection.
DefiniteAnyError == {"receiver_offline", "pair_revoked", "rate_limited",
                     "invalid_request", "replay_rejected", "unavailable"}

\* isDefiniteSubmissionRejection
Definite == {"receiver_offline", "pair_revoked", "rate_limited", "invalid_request"}

\* The answer to the POST: only a definite rejection frees the link.
PostReply ==
  LET c == call["phone"]
      m == c.msg
  IN /\ Replied("phone", "submit")
     /\ HangUp("phone")
     /\ known' = IF c.res = "pending" THEN known \cup {m} ELSE known
     /\ IF c.res \in Definite THEN Retire(view.link) ELSE UNCHANGED attempt
     /\ phonePaired' = (c.res # "pair_revoked")
     /\ CASE c.res = "pending" -> UNCHANGED view
          [] c.res \in Definite -> Show("error")
          [] OTHER -> Show("pending")
     /\ UNCHANGED <<Relay, pcVars, faults, linkOf, expiry, verified, rescanned>>

PostLost ==
  /\ call["phone"].op = "submit"
  /\ Spend /\ Abandon("phone")
  /\ Show("pending")
  /\ UNCHANGED <<Relay, pcVars, attempt, linkOf, expiry, known, verified,
                 rescanned, phonePaired>>

Watching == view.st \in {"sending", "pending"} /\ call["phone"].op = "none"

\* Mutant: an attempt whose delivery ID was lost is watched without an end.
WatchExpiredNever ==
  /\ Watching
  /\ OnScreen = NoMessage
  /\ Retire(view.link) /\ Show("error")
  /\ UNCHANGED <<Relay, call, pcVars, faults, linkOf, expiry, known, verified,
                 rescanned, phonePaired>>

\* readDeliveryReceipt: an attempt that is over (or was retired) is given up.
WatchExpired ==
  /\ Watching
  /\ OnScreen = NoMessage \/ Overdue(OnScreen)
  /\ Retire(view.link) /\ Show("error")
  /\ UNCHANGED <<Relay, call, pcVars, faults, linkOf, expiry, known, verified,
                 rescanned, phonePaired>>

\* Without a delivery ID there is nothing to ask for.
Watch ==
  /\ Watching
  /\ OnScreen # NoMessage /\ ~Overdue(OnScreen) /\ OnScreen \in known
  /\ Ask("phone", Request("status", OnScreen, 0))
  /\ UNCHANGED <<Relay, phoneVars, pcVars, faults>>

\* DELIVERY_WAIT_MS is over, or there is no delivery ID to wait with.
StopSending ==
  /\ Watching /\ view.st = "sending"
  /\ OnScreen # NoMessage /\ ~Overdue(OnScreen)
  /\ Show("pending")
  /\ UNCHANGED <<Relay, call, pcVars, faults, attempt, linkOf, expiry, known,
                 verified, rescanned, phonePaired>>

\* The answer to a status request; a failed request or an unusable receipt
\* leaves the delivery pending.
WatchReply ==
  LET c == call["phone"]
      genuine == c.res = "delivered" /\ c.exp >= clock
      terminal == c.res \in {"delivery_expired", "delivery_rejected"}
  IN /\ Replied("phone", "status")
     /\ HangUp("phone")
     /\ verified' = IF genuine THEN verified \cup {c.msg} ELSE verified
     /\ IF terminal THEN Retire(view.link) ELSE UNCHANGED attempt
     /\ phonePaired' = (c.res # "pair_revoked")
     /\ CASE genuine -> Show("delivered")
          [] terminal \/ c.res = "pair_revoked" -> Show("error")
          [] c.res = "delivery_receipt_expired" -> Show("unconfirmed")
          [] OTHER -> UNCHANGED view
     /\ UNCHANGED <<Relay, pcVars, faults, linkOf, expiry, known, rescanned>>

\* A status request fails or is aborted after RECEIPT_REQUEST_TIMEOUT_MS.
WatchLost ==
  /\ call["phone"].op = "status"
  /\ HangUp("phone")
  /\ UNCHANGED <<Relay, phoneVars, pcVars, faults>>

\* "Scan another QR": prepareUrlRescan retires a verified attempt only.
Rescan ==
  LET m == OnScreen
  IN /\ view.st \notin {"camera", "sending"}
     /\ IF m \in verified
        THEN Retire(view.link) /\ rescanned' = rescanned \cup {m}
        ELSE UNCHANGED <<attempt, rescanned>>
     /\ view' = [link |-> NoLink, st |-> "camera"]
     /\ HangUp("phone")
     /\ UNCHANGED <<Relay, pcVars, faults, linkOf, expiry, known, verified, phonePaired>>

\* Another view is opened: the request in flight is aborted, the attempt stays.
Leave ==
  /\ view.st # "camera"
  /\ view' = [link |-> NoLink, st |-> "camera"]
  /\ IF call["phone"].op = "submit" THEN Abandon("phone") ELSE HangUp("phone")
  /\ UNCHANGED <<Relay, pcVars, faults, attempt, linkOf, expiry, known, verified,
                 rescanned, phonePaired>>

PhoneStep == \/ \E u \in Link : Scan(u)
             \/ \E m \in Message : SendNew(m)
             \/ SendAgain \/ PostReply \/ PostLost
             \/ Watch \/ WatchExpired \/ StopSending \/ WatchReply \/ WatchLost
             \/ Rescan \/ Leave
-----------------------------------------------------------------------------
(* The PC.                                                                 *)

Idle == call["pc"].op = "none"

\* Mutant: a wake-up starts a poll beside the one that is running.
PollBeside == /\ paired
              /\ Ask("pc", Request("poll", NoMessage, 0))
              /\ UNCHANGED <<Relay, phoneVars, pcVars, faults>>

Poll == /\ Idle /\ paired
        /\ Ask("pc", Request("poll", NoMessage, 0))
        /\ UNCHANGED <<Relay, phoneVars, pcVars, faults>>

\* 204, or a failure that ends in a reconnection.
PollNothing == /\ Replied("pc", "poll") /\ call["pc"].res # "event"
               /\ HangUp("pc")
               /\ UNCHANGED <<Relay, phoneVars, pcVars, faults>>

Event(m) == Replied("pc", "poll") /\ call["pc"].res = "event" /\ call["pc"].msg = m

\* Mutant: the accepted messages are those of this run of the receiver.
AcceptForgetful(m) ==
  /\ Event(m)
  /\ ~Overdue(m)
  /\ accepted' = accepted \cup {m}
  /\ Ask("pc", Request("ack", m, clock + AckTTL))
  /\ UNCHANGED <<Relay, phoneVars, dropped, prompts, paired, faults>>

\* _decrypt_event: the ledger takes the message, then the receipt is built.
Accept(m) ==
  /\ Event(m)
  /\ ~Overdue(m) /\ m \notin accepted
  /\ accepted' = accepted \cup {m}
  /\ Ask("pc", Request("ack", m, clock + AckTTL))
  /\ UNCHANGED <<Relay, phoneVars, dropped, prompts, paired, faults>>

\* ProtocolViolation: expired, already accepted, or (as a fault) a message
\* this PC cannot read, its clock being too far from the phone's.
Refuse(m) ==
  /\ Event(m)
  /\ IF Overdue(m) \/ m \in accepted THEN UNCHANGED faults ELSE Spend
  /\ Ask("pc", Request("nack", m, 0))
  /\ UNCHANGED <<Relay, phoneVars, pcVars>>

\* SecureStorageError: nothing is recorded or answered, the loop reconnects.
LedgerFails(m) ==
  /\ Event(m)
  /\ Spend
  /\ HangUp("pc")
  /\ UNCHANGED <<Relay, phoneVars, pcVars>>

Prompt(m) == prompts' = [prompts EXCEPT ![m] = @ + 1]

\* The acknowledgement was answered: on_url runs unless the relay refused it
\* explicitly, then the receiver fails closed.
AckReply ==
  LET c == call["pc"]
  IN /\ Replied("pc", "ack")
     /\ HangUp("pc")
     /\ IF c.res = "stored"
        THEN Prompt(c.msg) /\ UNCHANGED dropped
        ELSE dropped' = dropped \cup {c.msg} /\ UNCHANGED prompts
     /\ UNCHANGED <<Relay, phoneVars, accepted, paired, faults>>

\* Mutant: a transport error is raised without calling on_url.
AckLostSilently ==
  /\ call["pc"].op = "ack"
  /\ Spend /\ Abandon("pc")
  /\ UNCHANGED <<Relay, phoneVars, pcVars>>

\* A transport error: the outcome is unknown, but the message is consumed.
AckLost ==
  /\ call["pc"].op = "ack"
  /\ Spend /\ Abandon("pc")
  /\ Prompt(call["pc"].msg)
  /\ UNCHANGED <<Relay, phoneVars, accepted, dropped, paired>>

\* The answer to a delivery_error is not looked at.
NackDone ==
  /\ Replied("pc", "nack")
  /\ HangUp("pc")
  /\ UNCHANGED <<Relay, phoneVars, pcVars, faults>>

CallLost ==
  /\ call["pc"].op \in {"poll", "nack"}
  /\ Spend /\ Abandon("pc")
  /\ UNCHANGED <<Relay, phoneVars, pcVars>>

Unheard == IF call["pc"].op = "ack" THEN {call["pc"].msg} ELSE {}

\* The receiver's task is cancelled (a refresh, which the removal of a pair
\* asks for), or the process ends; the ledger stays.
Restart ==
  /\ ~Idle /\ Abandon("pc")
  /\ IF paired THEN Spend ELSE UNCHANGED faults
  /\ dropped' = dropped \cup Unheard
  /\ UNCHANGED <<Relay, phoneVars, accepted, prompts, paired>>

\* remove_pair_async: revoke at the relay first, forget the pair afterwards.
Remove == /\ Removable /\ paired /\ call["tray"].op = "none"
          /\ Ask("tray", Request("revoke", NoMessage, 0))
          /\ UNCHANGED <<Relay, phoneVars, pcVars, faults>>

RemoveFailed ==
  /\ call["tray"].op # "none"
  /\ \/ Spend /\ Abandon("tray")
     \/ call["tray"].res = "unavailable" /\ HangUp("tray") /\ UNCHANGED faults
  /\ UNCHANGED <<Relay, phoneVars, pcVars>>

\* Mutant: any answer of the relay counts as a revocation.
RemoveAnyAnswer ==
  /\ call["tray"].stage = "reply"
  /\ paired' = FALSE
  /\ HangUp("tray")
  /\ UNCHANGED <<Relay, phoneVars, accepted, dropped, prompts, faults>>

\* The store drops the pair; the receiver is refreshed a little later.
RemoveDone ==
  /\ call["tray"].res = "revoked"
  /\ paired' = FALSE
  /\ HangUp("tray")
  /\ UNCHANGED <<Relay, phoneVars, accepted, dropped, prompts, faults>>

PcStep == \/ Poll \/ PollNothing
          \/ \E m \in Message : Accept(m) \/ Refuse(m) \/ LedgerFails(m)
          \/ AckReply \/ AckLost \/ NackDone \/ CallLost \/ Restart
          \/ Remove \/ RemoveFailed \/ RemoveDone
-----------------------------------------------------------------------------
RelayFails(s) == Unavailable(s) /\ Spend

RelayWorks == \/ \E s \in Slot : Handle(s)
              \/ Cleanup \/ OrphanDies \/ Tick

Next == \/ RelayWorks /\ UNCHANGED <<phoneVars, pcVars, faults>>
        \/ \E s \in Slot : RelayFails(s) /\ UNCHANGED <<phoneVars, pcVars>>
        \/ PhoneStep
        \/ PcStep

Spec == Init /\ [][Next]_vars

\* The clock runs, and the page that shows a delivery goes on with what its
\* timers ask for: a status request is answered or timed out.  Nothing is
\* assumed of the relay, of the PC or of the POST, which has no timeout.
FairSpec == /\ Spec
            /\ WF_vars(Tick /\ UNCHANGED <<phoneVars, pcVars, faults>>)
            /\ WF_vars(WatchReply \/ WatchLost)
            /\ WF_vars(StopSending)
            /\ WF_vars(WatchExpired)
-----------------------------------------------------------------------------
\* A link opens at most one question on the PC, however often its message is
\* offered again, and whatever restarts and lost calls lie between
\* (receiver.py:281-304 with replay.py:100-105).
PromptOnce == TypeOK /\ \A m \in Message : prompts[m] <= 1

\* An accepted message is never forgotten: it is being acknowledged, its user
\* has been asked, or the receiver was told to stop or refused explicitly.  What
\* is dropped so stays silent: the receiver fails closed, a later delivery of
\* the message does not ask after all (receiver.py:281-304;
\* docs/v0.2.0-beta.8-release-notes.md:12).
AcceptedIsPrompted ==
  /\ \A m \in accepted \ dropped : prompts[m] = 1 \/ m \in Unheard
  /\ \A m \in dropped : prompts[m] = 0

\* A message that may still reach the PC: its POST is under way, or its row
\* can be claimed.
Posting(m) == \E s \in Slot : call[s].op = "submit" /\ call[s].msg = m /\ Waiting(s)
Deliverable(m) ==
  /\ ~Overdue(m) /\ ~revoked
  /\ Posting(m) \/ rows[m].status \in {"pending", "delivering"}

\* Uncertain attempts stay locked (relay-client.ts:26-28): a page never has
\* two messages for one link on their way, whatever answers were lost.
OneOnItsWay ==
  \A m, n \in Message :
    /\ Deliverable(m) /\ Deliverable(n)
    /\ linkOf[m] = linkOf[n] /\ linkOf[m] # NoLink
    => m = n

\* The phone says "received" or "check your PC" only of a message that the PC
\* accepted, never of one the relay merely stored or the PC refused.
ReceiptIsTrue ==
  view.st \in {"delivered", "unconfirmed"} => OnScreen \in accepted

\* Once the PC has forgotten the phone, the relay holds nothing from it and
\* never will (pair_management.py:133-138).
RemovedIsEmpty == ~paired => revoked /\ \A m \in Message : ~Stored(m)

\* The two clients stay inside what the relay is checked against.
ClientsFit == RelaySpec

OnItsWay == view.st \in {"sending", "pending"}

\* Once the POST is over, a delivery is not shown as on its way for ever,
\* although the receipt, or the delivery ID itself, may never arrive
\* (relay-client.ts:325-328).  A POST that hangs is waited for as long as the
\* browser lets it; a message that outlives the model's clock is left out.
OnItsWayResolves ==
  \A m \in Message :
    OnItsWay /\ call["phone"].op # "submit" /\ OnScreen = m /\ expiry[m] < MaxClock
      ~> ~OnItsWay

\* The rule of relay-client.ts:26-28 for accepted messages: a link's next
\* message waits until the one before it is verified and scanned again, or
\* over.  Refuted: a redelivery that the PC refuses as a replay makes the row
\* "rejected", which retires the attempt.
AcceptedStaysLocked ==
  [][\A n \in Message :
       linkOf[n] = NoLink /\ linkOf'[n] # NoLink =>
         \A m \in accepted : linkOf[m] = linkOf'[n] => m \in rescanned \/ Overdue(m)]_vars
\* What the delivery promises both ends, the hosted relay hidden: a message is
\* taken once, then asked about once or given up for good, whatever is lost,
\* late, repeated or restarted; "delivered" is said of taken messages only
\* (receiver.py:281-304, relay-client.ts:251-300).
Promise == INSTANCE Handover WITH asked <- prompts, lost <- dropped, told <- verified
HandoverSpec == Promise!Spec
=============================================================================
