----------------------------- MODULE LocalRelay -----------------------------
(***************************************************************************)
(* The local development relay (relay/app.py, relay/state.py) between fake *)
(* phones and PC receivers on one WebSocket per device: a phone's POST     *)
(* stays open until the PC's acknowledgement of its delivery comes back.   *)
(* Sockets break, are replaced before the relay has noticed, and late      *)
(* answers meet requests that timed out.  One event loop runs the relay,   *)
(* so its steps end where a handler awaits; pending_lock is never held     *)
(* across an await.                                                        *)
(***************************************************************************)
EXTENDS Naturals, Integers, Sequences, FiniteSets

CONSTANTS
    Devices, Messages,
    Device(_),      \* the device a message's pair belongs to
    Requests,       \* the phones' POSTs: records [id, message, intact]
    None,
    MessageTtl, AckTtl, MaxSkew,    \* of protocol.py
    MaxTime,        \* bound of scenario.time
    Scenarios       \* records [requests, skew, sockets, time, revocable]

VARIABLES
    scenario,   \* the requests made, the phones' clock error, bounds
    now,        \* the clock of the PC
    sealed,     \* created_at of each message, or None
    revoked,    \* messages whose pair was revoked
    table,      \* RelayState._connections: the socket of each device
    sockets,    \* all sockets so far: both ends and the frames under way
    pending,    \* requests in pending: what their future holds
    request,    \* where each request is, and its answer
    ack,        \* the acknowledgement in a positive answer
    pc,         \* each receiver: its place in _run_websocket
    seen,       \* what each receiver's replay guard remembers
    verdict,    \* what the PC made of each request's delivery
    asked,      \* how often on_url was called for a message
    dropped     \* messages accepted by a receiver that was cancelled at once

relay == <<table, pending>>
phone == <<request, ack>>
local == <<seen, verdict, asked, dropped>>
vars == <<scenario, now, sealed, revoked, table, sockets, pending, request, ack, pc, seen,
          verdict, asked, dropped>>

Kinds == {"url_message", "delivery_ack", "delivery_error"}
Futures == {"waiting", "broken"}
Frames(kinds) == [kind: kinds, delivery: Requests, created: 0..MaxTime]
Places == {"off", "idle", "answer", "ask", "raise"}
Answers == {"delivered", "rejected", "offline", "timeout", "revoked", "unverified"}

(* What the constants stand for: finitely many requests, each for a message *)
(* whose pair belongs to a device; None is none of the values it is beside. *)
ASSUME RelayAssumption ==
    /\ IsFiniteSet(Requests) /\ \A r \in Requests : r.message \in Messages
    /\ \A m \in Messages : Device(m) \in Devices
    /\ MessageTtl \in Nat /\ AckTtl \in Nat /\ MaxSkew \in Nat /\ MaxTime \in Nat
    /\ \A s \in Scenarios : s.time \in 0..MaxTime /\ s.skew \in Int

ASSUME NothingAssumption ==
    /\ None \notin Int /\ None \notin Requests /\ None \notin {"accepted", "rejected"}
    /\ None \notin Frames(Kinds \cup Futures)

Owner(r) == Device(r.message)
Used == {r.message : r \in scenario.requests}

TypeOK ==
    /\ scenario \in Scenarios /\ now \in 0..MaxTime
    /\ sealed \in [Messages -> Int \cup {None}]
    /\ revoked \subseteq Messages
    /\ sockets \in Seq([device: Devices, serving: BOOLEAN, open: BOOLEAN, broken: BOOLEAN,
                        down: Seq(Frames(Kinds)), up: Seq(Frames(Kinds))])
    /\ table \in [Devices -> (1..Len(sockets)) \cup {None}]
    /\ pending \in [Requests -> {None} \cup Frames(Kinds \cup Futures)]
    /\ request \in [Requests -> {"unsent", "body", "waiting", "verify"} \cup Answers]
    /\ ack \in [Requests -> {None} \cup Frames({"delivery_ack"})]
    /\ pc \in [Devices -> [at: Places, socket: (1..Len(sockets)) \cup {None},
                           delivery: Requests \cup {None}]]
    /\ seen \in [Devices -> SUBSET Messages]
    /\ verdict \in [Requests -> {None, "accepted", "rejected"}]
    /\ asked \in [Messages -> 0..Cardinality(Requests)]
    /\ dropped \subseteq Messages

Init ==
    /\ scenario \in Scenarios /\ now = 0
    /\ sealed = [m \in Messages |-> None] /\ revoked = {}
    /\ table = [d \in Devices |-> None] /\ sockets = <<>>
    /\ pending = [r \in Requests |-> None]
    /\ request = [r \in Requests |-> "unsent"]
    /\ ack = [r \in Requests |-> None]
    /\ pc = [d \in Devices |-> [at |-> "off", socket |-> None, delivery |-> None]]
    /\ seen = [d \in Devices |-> {}]
    /\ verdict = [r \in Requests |-> None]
    /\ asked = [m \in Messages |-> 0] /\ dropped = {}

Tick ==
    /\ now < scenario.time /\ now' = now + 1
    /\ UNCHANGED <<scenario, sealed, revoked, relay, sockets, phone, pc, local>>

-----------------------------------------------------------------------------
(* Sockets.  A live one carries frames in order; what is written to a      *)
(* broken one is lost, or the writer is told.                              *)
Alive(n) == n # None /\ sockets[n].open /\ sockets[n].serving /\ ~sockets[n].broken

Carry(n, way, frame) ==
    sockets' = IF Alive(n) THEN [sockets EXCEPT ![n][way] = Append(@, frame)] ELSE sockets

Frame(kind, r) == [kind |-> kind, delivery |-> r, created |-> now]

(* connect_receiver: authenticated and accepted, without a pause, and put  *)
(* into the table in the place of an older socket.                         *)
Connect(d) ==
    /\ pc[d].at = "off" /\ d \in {Device(m) : m \in Used}
    /\ Len(sockets) < scenario.sockets
    /\ sockets' = Append(sockets, [device |-> d, serving |-> TRUE, open |-> TRUE,
                                   broken |-> FALSE, down |-> <<>>, up |-> <<>>])
    /\ table' = [table EXCEPT ![d] = Len(sockets')]
    /\ pc' = [pc EXCEPT ![d] = [at |-> "idle", socket |-> Len(sockets'), delivery |-> None]]
    /\ UNCHANGED <<scenario, now, sealed, revoked, pending, phone, local>>

(* The network drops a socket with some of the frames under way; neither   *)
(* end knows.                                                              *)
Break(n) ==
    /\ Alive(n)
    /\ \E down \in {<<>>, sockets[n].down}, up \in {<<>>, sockets[n].up} :
         sockets' = [sockets EXCEPT ![n].broken = TRUE, ![n].down = down, ![n].up = up]
    /\ UNCHANGED <<scenario, now, sealed, revoked, relay, phone, pc, local>>

-----------------------------------------------------------------------------
(* The phone and the relay's POST handler. *)

(* build_url_envelope on the first attempt; a later one may repeat it.     *)
Seal(m) == sealed' = IF sealed[m] = None
                     THEN [sealed EXCEPT ![m] = now + scenario.skew] ELSE sealed

(* send_message up to its first await: the route is authenticated and read *)
(* once, before the body has arrived.                                      *)
Authenticate(r) ==
    /\ r \in scenario.requests /\ request[r] = "unsent"
    /\ Seal(r.message)
    /\ request' = [request EXCEPT ![r] = IF r.message \in revoked THEN "revoked" ELSE "body"]
    /\ UNCHANGED <<scenario, now, revoked, relay, sockets, ack, pc, local>>

(* With the body there the connection is looked up, the delivery is noted  *)
(* as pending and sent.                                                    *)
Forward(r) ==
    /\ request[r] = "body"
    /\ LET n == table[Owner(r)] IN
       \/ /\ n # None
          /\ Carry(n, "down", Frame("url_message", r))
          /\ pending' = [pending EXCEPT ![r] = Frame("waiting", r)]
          /\ request' = [request EXCEPT ![r] = "waiting"]
       \/ /\ ~Alive(n)
          /\ request' = [request EXCEPT ![r] = "offline"]
          /\ UNCHANGED <<sockets, pending>>
    /\ UNCHANGED <<scenario, now, sealed, revoked, table, ack, pc, local>>

Waits(r) == pending[r] # None /\ pending[r].kind = "waiting"
Answer(r, answer) == request' = [request EXCEPT ![r] = answer]

(* DELIVERY_TIMEOUT_SECONDS are over; an answer may just have come. *)
DeliveryTimeout(r) ==
    /\ request[r] = "waiting"
    /\ Answer(r, "timeout")
    /\ pending' = [pending EXCEPT ![r] = None]
    /\ UNCHANGED <<scenario, now, sealed, revoked, table, sockets, ack, pc, local>>

(* The future is done: the handler answers.  A positive answer carries the *)
(* PC's acknowledgement, which the phone has still to verify.              *)
Respond(r) ==
    /\ request[r] = "waiting" /\ ~Waits(r)
    /\ \/ pending[r].kind = "broken" /\ Answer(r, "offline") /\ UNCHANGED ack
       \/ pending[r].kind = "delivery_error" /\ Answer(r, "rejected") /\ UNCHANGED ack
       \/ /\ pending[r].kind = "delivery_ack" /\ Answer(r, "verify")
          /\ ack' = [ack EXCEPT ![r] = pending[r]]
    /\ pending' = [pending EXCEPT ![r] = None]
    /\ UNCHANGED <<scenario, now, sealed, revoked, table, sockets, pc, local>>

(* _validate_message_envelope at a reader's clock. *)
InTime(created, ttl, clock) == created <= clock + MaxSkew /\ clock <= created + ttl

(* verify_delivery_ack: made by the paired PC for this message, and fresh. *)
Verify(r) ==
    /\ request[r] = "verify"
    /\ Answer(r, IF /\ ack[r].delivery.message = r.message
                    /\ InTime(ack[r].created, AckTtl, now + scenario.skew)
                 THEN "delivered" ELSE "unverified")
    /\ UNCHANGED <<scenario, now, sealed, revoked, relay, sockets, ack, pc, local>>

Revoke(m) ==
    /\ scenario.revocable /\ m \in Used \ revoked /\ revoked' = revoked \cup {m}
    /\ UNCHANGED <<scenario, now, sealed, relay, sockets, phone, pc, local>>

-----------------------------------------------------------------------------
(* The relay's end of a socket. *)

(* Mutant: every waiting delivery of the device takes the answer. *)
ResolvedByDevice(f, r, n) == Owner(r) = sockets[n].device

Resolved(f, r, n) == f.delivery = r /\ Owner(r) = sockets[n].device

(* A frame the PC sent resolves the delivery it names if that still waits. *)
RelayReceives(n) ==
    /\ sockets[n].serving /\ sockets[n].up # <<>>
    /\ LET f == Head(sockets[n].up) IN
         pending' = [r \in Requests |-> IF Waits(r) /\ Resolved(f, r, n)
                                        THEN f ELSE pending[r]]
    /\ sockets' = [sockets EXCEPT ![n].up = Tail(@)]
    /\ UNCHANGED <<scenario, now, sealed, revoked, table, phone, pc, local>>

(* Mutant: the newer socket of the device is forgotten as well. *)
ClearAlways(n) == table' = [table EXCEPT ![sockets[n].device] = None]

(* clear_connection *)
Clear(n) == table' = [d \in Devices |-> IF table[d] = n THEN None ELSE table[d]]

(* The relay notices the end of a socket: its finally clears the table     *)
(* and fails every waiting delivery of the device, on whichever socket.    *)
RelayNotices(n) ==
    /\ sockets[n].serving /\ sockets[n].up = <<>>
    /\ ~sockets[n].open \/ sockets[n].broken
    /\ Clear(n)
    /\ sockets' = [sockets EXCEPT ![n].serving = FALSE]
    /\ pending' = [r \in Requests |->
                    IF Waits(r) /\ Owner(r) = sockets[n].device
                    THEN [pending[r] EXCEPT !.kind = "broken"] ELSE pending[r]]
    /\ UNCHANGED <<scenario, now, sealed, revoked, phone, pc, local>>

-----------------------------------------------------------------------------
(* The receiver. *)

Expires(m) == sealed[m] + MessageTtl

(* decrypt_url_envelope: authentic, in time and not yet seen. *)
Acceptable(d, r) ==
    /\ r.intact
    /\ InTime(sealed[r.message], MessageTtl, now)
    /\ r.message \notin seen[d]

(* Mutant: an ID is forgotten a second before its message expires. *)
RememberBriefly(d, m) ==
    seen' = [seen EXCEPT ![d] = {x \in @ : Expires(x) > now} \cup {m}]

(* InMemoryReplayGuard.remember: expired IDs are forgotten. *)
Remember(d, m) ==
    seen' = [seen EXCEPT ![d] = {x \in @ : Expires(x) >= now} \cup {m}]

(* The receiver leaves _run_websocket, which closes the socket. *)
Away == [at |-> "off", socket |-> None, delivery |-> None]
Hang(n) == sockets' = [sockets EXCEPT ![n].open = FALSE]

Take(d) == sockets[pc[d].socket].down
Take1(d) == [sockets EXCEPT ![pc[d].socket].down = Tail(@)]

(* A delivery is accepted, and remembered before it is answered. *)
Accept(d) ==
    /\ pc[d].at = "idle" /\ Take(d) # <<>>
    /\ LET r == Head(Take(d)).delivery IN
       /\ Acceptable(d, r)
       /\ Remember(d, r.message)
       /\ verdict' = [verdict EXCEPT ![r] = "accepted"]
       /\ pc' = [pc EXCEPT ![d].at = "answer", ![d].delivery = r]
    /\ sockets' = Take1(d)
    /\ UNCHANGED <<scenario, now, sealed, revoked, relay, phone, asked, dropped>>

(* A delivery is rejected; telling so may end the receiver. *)
Reject(d) ==
    /\ pc[d].at = "idle" /\ Take(d) # <<>>
    /\ LET r == Head(Take(d)).delivery
           n == pc[d].socket
       IN /\ ~Acceptable(d, r)
          /\ verdict' = [verdict EXCEPT ![r] = "rejected"]
          /\ \/ /\ sockets' = [Take1(d) EXCEPT
                     ![n].up = IF Alive(n) THEN Append(@, Frame("delivery_error", r)) ELSE @]
                /\ UNCHANGED pc
             \/ /\ ~Alive(n)
                /\ sockets' = [Take1(d) EXCEPT ![n].open = FALSE]
                /\ pc' = [pc EXCEPT ![d] = Away]
    /\ UNCHANGED <<scenario, now, sealed, revoked, relay, phone, seen, asked, dropped>>

AskAbout(m) == asked' = [asked EXCEPT ![m] = @ + 1]

(* Mutant: a lost acknowledgement loses the message. *)
AcknowledgeOrRaise(d) ==
    /\ pc[d].at = "answer"
    /\ LET r == pc[d].delivery
           n == pc[d].socket
       IN \/ /\ Carry(n, "up", Frame("delivery_ack", r))
             /\ AskAbout(r.message)
             /\ pc' = [pc EXCEPT ![d].at = "ask"]
          \/ /\ ~Alive(n)
             /\ Hang(n) /\ pc' = [pc EXCEPT ![d] = Away] /\ UNCHANGED asked
    /\ UNCHANGED <<scenario, now, sealed, revoked, relay, phone, seen, verdict, dropped>>

(* The acknowledgement is sent, or fails, and the user is asked. *)
Acknowledge(d) ==
    /\ pc[d].at = "answer"
    /\ LET r == pc[d].delivery
           n == pc[d].socket
       IN /\ AskAbout(r.message)
          /\ \/ /\ Carry(n, "up", Frame("delivery_ack", r))
                /\ pc' = [pc EXCEPT ![d].at = "ask"]
             \/ /\ ~Alive(n)
                /\ pc' = [pc EXCEPT ![d].at = "raise"]
                /\ UNCHANGED sockets
    /\ UNCHANGED <<scenario, now, sealed, revoked, relay, phone, seen, verdict, dropped>>

(* The callback returned: the next frame, or the pending error. *)
Asked(d) ==
    \/ /\ pc[d].at = "ask"
       /\ pc' = [pc EXCEPT ![d].at = "idle", ![d].delivery = None]
       /\ UNCHANGED <<scenario, now, sealed, revoked, relay, sockets, phone, local>>
    \/ /\ pc[d].at = "raise"
       /\ Hang(pc[d].socket) /\ pc' = [pc EXCEPT ![d] = Away]
       /\ UNCHANGED <<scenario, now, sealed, revoked, relay, phone, local>>

(* The loop ends with its socket once what was buffered is handled. *)
Lost(d) ==
    /\ pc[d].at = "idle" /\ Take(d) = <<>> /\ ~Alive(pc[d].socket)
    /\ Hang(pc[d].socket) /\ pc' = [pc EXCEPT ![d] = Away]
    /\ UNCHANGED <<scenario, now, sealed, revoked, relay, phone, local>>

(* The receiver is cancelled: while it is idle, while it asks (the thread  *)
(* goes on) or while its acknowledgement is being sent.                    *)
Cancel(d) ==
    /\ pc[d].at # "off"
    /\ LET r == pc[d].delivery
           n == pc[d].socket
       IN /\ dropped' = IF pc[d].at = "answer" THEN dropped \cup {r.message} ELSE dropped
          /\ \/ Hang(n)
             \/ /\ pc[d].at = "answer" /\ Alive(n)
                /\ sockets' = [sockets EXCEPT ![n].open = FALSE,
                               ![n].up = Append(@, Frame("delivery_ack", r))]
    /\ pc' = [pc EXCEPT ![d] = Away]
    /\ UNCHANGED <<scenario, now, sealed, revoked, relay, phone, seen, verdict, asked>>

-----------------------------------------------------------------------------
Next ==
    \/ Tick
    \/ \E r \in Requests : \/ Authenticate(r) \/ Forward(r) \/ DeliveryTimeout(r)
                           \/ Respond(r) \/ Verify(r)
    \/ \E m \in Messages : Revoke(m)
    \/ \E n \in 1..Len(sockets) : Break(n) \/ RelayReceives(n) \/ RelayNotices(n)
    \/ \E d \in Devices : \/ Connect(d) \/ Accept(d) \/ Reject(d) \/ Acknowledge(d)
                          \/ Asked(d) \/ Lost(d) \/ Cancel(d)

Spec == Init /\ [][Next]_vars

-----------------------------------------------------------------------------
(* A phone is told of its own delivery: "delivered" and "rejected" are     *)
(* what the PC made of this very request, although answers come late, over *)
(* replaced sockets and after other requests timed out.                    *)
RepliesAreTrue ==
    /\ TypeOK
    /\ \A r \in Requests :
         /\ request[r] = "delivered" => verdict[r] = "accepted"
         /\ request[r] = "rejected" => verdict[r] = "rejected"

(* The user is asked about a message exactly once for each time it was     *)
(* accepted, which is at most once whatever is repeated and whatever the   *)
(* replay guard has forgotten; only a cancellation between the acceptance  *)
(* and the question loses it.                                              *)
AskedOnce ==
    \A m \in Messages :
        LET accepted == {r \in Requests : r.message = m /\ verdict[r] = "accepted"}
            waiting == {d \in Devices : pc[d].at = "answer" /\ pc[d].delivery.message = m}
        IN /\ Cardinality(accepted) <= 1
           /\ asked[m] + Cardinality(waiting) + Cardinality({m} \cap dropped)
                = Cardinality(accepted)

(* A receiver that holds a live socket is the one phones reach, although   *)
(* the relay notices the end of the socket before only later; and the      *)
(* relay sends nothing to a socket it has seen the end of.                 *)
NewestIsReached ==
    \A d \in Devices :
        /\ pc[d].at # "off" /\ Alive(pc[d].socket) => table[d] = pc[d].socket
        /\ table[d] # None => sockets[table[d]].serving /\ sockets[table[d]].device = d

(* "The paired computer disconnected." (relay/app.py:423) is not said of a  *)
(* message a PC is answering over a live socket.  Violated: the end of a   *)
(* replaced socket fails the deliveries that wait on the new one as well.  *)
OfflineIsTrue ==
    \A r \in Requests, d \in Devices :
        request[r] = "offline" => ~(pc[d].delivery = r /\ Alive(pc[d].socket))

\* The same promise as the hosted relay's: a message is taken once, then asked
\* about once or given up for good; "delivered" is said of taken messages only
\* (receiver.py, _run_websocket; relay/app.py, send_message).
Taken == {r.message : r \in {q \in Requests : verdict[q] = "accepted"}}
Told == {r.message : r \in {q \in Requests : request[q] = "delivered"}}
Promise == INSTANCE Handover WITH Message <- Messages, accepted <- Taken, lost <- dropped,
                                  told <- Told
HandoverSpec == Promise!Spec
=============================================================================
