--------------------------- MODULE RelayDeliveries --------------------------
(***************************************************************************)
(* The hosted relay's message side for one paired phone and its PC: the    *)
(* handlers of pwa/server/relay-handler.ts over the rows of relay_pairs,   *)
(* relay_devices and relay_deliveries (supabase/migrations).               *)
(*                                                                         *)
(* A handler is a serverless call: between two of its database requests    *)
(* other calls run, and it keeps the facts and the time it read before.    *)
(* Every slot of "call" is one client's request; when a client stops       *)
(* waiting, its call may run on as the orphan, whose answer nobody reads.  *)
(*                                                                         *)
(* A message stands for its envelope and, because the phone posts an       *)
(* envelope once, for the delivery ID of its row.  A message can be stored *)
(* again only when it has expired; such a row can be neither claimed nor   *)
(* read, so sharing its name with the first is not observable.             *)
(***************************************************************************)
EXTENDS Naturals

CONSTANTS Message,
          NoMessage,
          Slot,         \* the clients that may have a request in flight
          Lease,        \* DELIVERY_LEASE_SECONDS
          Online,       \* RECEIVER_ONLINE_SECONDS
          HeartbeatGap, \* the 4 seconds between two heartbeat writes
          MessageTTL,   \* MESSAGE_TTL_SECONDS
          AckTTL,       \* the 10 seconds a receipt is valid
          MaxClock      \* bound on the clock, for model checking

ASSUME RelayAssumption == /\ Lease \in Nat /\ Online \in Nat
                          /\ HeartbeatGap \in Nat
                          /\ MessageTTL \in Nat
                          /\ AckTTL \in Nat \ {0}
                          /\ MaxClock \in Nat
                          /\ "orphan" \in Slot
                          /\ NoMessage \notin Message

VARIABLES
  clock,     \* unixTime() of the relay, also the time of phone and PC
  revoked,   \* relay_pairs.revoked_at is not null
  purged,    \* observability: a revocation has deleted the pair's rows
  lastSeen,  \* relay_devices.last_seen_at, 0 for null: the clock starts at 1
  rows,      \* relay_deliveries, by message
  call       \* the HTTP calls in progress, by the slot that made them

relayVars == <<clock, revoked, purged, lastSeen, rows, call>>
tables == <<revoked, purged, lastSeen, rows>>

Status == {"absent", "pending", "delivering", "delivered", "rejected"}
Row == [status : Status, lease : Nat, ack : Nat, created : Nat, expires : Nat]
NoRow == [status |-> "absent", lease |-> 0, ack |-> 0, created |-> 0, expires |-> 0]
NoAck == 0

Op == {"none", "submit", "status", "poll", "ack", "nack", "revoke"}
Result == {"none", "unavailable", "pair_revoked", "rate_limited",
           "receiver_offline", "invalid_request", "replay_rejected", "pending",
           "delivery_not_found", "delivery_expired", "delivery_receipt_expired",
           "delivery_rejected", "delivered", "event", "empty", "stored", "revoked"}

\* msg: the message a call is about; exp: the expiry inside the envelope it
\* carries; at: the time its handler captured.
Call == [op : Op, msg : Message \cup {NoMessage}, exp : Nat, at : Nat,
         stage : {"sent", "mid", "reply"}, res : Result]
NoCall == [op |-> "none", msg |-> NoMessage, exp |-> 0, at |-> 0,
           stage |-> "sent", res |-> "none"]

RelayTypeOK == /\ clock \in Nat
               /\ revoked \in BOOLEAN
               /\ purged \in BOOLEAN
               /\ lastSeen \in Nat
               /\ rows \in [Message -> Row]
               /\ call \in [Slot -> Call]

RelayInit == /\ clock = 1
             /\ revoked = FALSE
             /\ purged = FALSE
             /\ lastSeen = 0
             /\ rows = [m \in Message |-> NoRow]
             /\ call = [s \in Slot |-> NoCall]
-----------------------------------------------------------------------------
Request(op, m, e) == [NoCall EXCEPT !.op = op, !.msg = m, !.exp = e]

Waiting(s) == call[s].op # "none" /\ call[s].stage # "reply"

At(s, op, stage) == call[s].op = op /\ call[s].stage = stage

\* A handler's answer, and whatever else it puts into c; an orphan's answer is
\* read by nobody.
Answer(s, c) ==
  IF s = "orphan" THEN NoCall ELSE [c EXCEPT !.stage = "reply", !.at = 0]

Reply(s, r) ==
  call' = [call EXCEPT ![s] = Answer(s, [call[s] EXCEPT !.res = r, !.exp = 0])]

Proceed(s) == call' = [call EXCEPT ![s] = [@ EXCEPT !.stage = "mid", !.at = clock]]

Stored(m) == rows[m].status # "absent"
-----------------------------------------------------------------------------
\* submitMessage, up to the request body: the pair is active, the rate limit
\* allows the message, and the PC has been heard of lately.
SubmitAuthorize(s) ==
  /\ At(s, "submit", "sent")
  /\ \/ /\ revoked
        /\ Reply(s, "pair_revoked")
     \/ /\ ~revoked
        /\ Reply(s, "rate_limited")
     \/ /\ ~revoked
        /\ IF lastSeen = 0 \/ lastSeen + Online < clock
           THEN Reply(s, "receiver_offline")
           ELSE Proceed(s)
  /\ UNCHANGED <<clock, tables>>

\* Mutant: no trigger; the authorization of submitMessage is all there is.
SubmitInsertUnchecked(s) ==
  LET m == call[s].msg
      c == call[s]
  IN /\ At(s, "submit", "mid")
     /\ IF c.exp < c.at
        THEN Reply(s, "invalid_request") /\ UNCHANGED rows
        ELSE IF Stored(m)
        THEN Reply(s, "replay_rejected") /\ UNCHANGED rows
        ELSE /\ Reply(s, "pending")
             /\ rows' = [rows EXCEPT ![m] =
                           [NoRow EXCEPT !.status = "pending", !.created = c.at,
                                         !.expires = c.exp]]
     /\ UNCHANGED <<clock, revoked, purged, lastSeen>>

\* The envelope is validated against the captured time, and its INSERT runs
\* the trigger that locks the pair row.
SubmitInsert(s) ==
  LET m == call[s].msg
      c == call[s]
  IN /\ At(s, "submit", "mid")
     /\ IF c.exp < c.at
        THEN Reply(s, "invalid_request") /\ UNCHANGED rows
        ELSE IF revoked
        THEN Reply(s, "pair_revoked") /\ UNCHANGED rows
        ELSE IF Stored(m)
        THEN Reply(s, "replay_rejected") /\ UNCHANGED rows
        ELSE /\ Reply(s, "pending")
             /\ rows' = [rows EXCEPT ![m] =
                           [NoRow EXCEPT !.status = "pending", !.created = c.at,
                                         !.expires = c.exp]]
     /\ UNCHANGED <<clock, revoked, purged, lastSeen>>
-----------------------------------------------------------------------------
\* pollDeviceMessages: the heartbeat first, when it is due.
PollHeartbeat(s) ==
  /\ At(s, "poll", "sent")
  /\ lastSeen' = IF lastSeen = 0 \/ lastSeen + HeartbeatGap < clock
                 THEN clock ELSE lastSeen
  /\ Proceed(s)
  /\ UNCHANGED <<clock, revoked, purged, rows>>

\* Mutant: a row that is being delivered is offered to every poll.
ClaimableAnyLease(t) ==
  {m \in Message : /\ rows[m].expires >= t
                   /\ ~revoked
                   /\ rows[m].status \in {"pending", "delivering"}}

Claimable(t) ==
  {m \in Message :
     /\ rows[m].expires >= t
     /\ ~revoked
     /\ \/ rows[m].status = "pending"
        \/ rows[m].status = "delivering" /\ rows[m].lease <= t}

\* relay_claim_delivery: the oldest claimable row, one atomic statement.
PollClaim(s) ==
  LET t == call[s].at
  IN /\ At(s, "poll", "mid")
     /\ \/ /\ Claimable(t) = {}
           /\ Reply(s, "empty")
           /\ UNCHANGED rows
        \/ \E m \in Claimable(t) :
             /\ \A n \in Claimable(t) : rows[m].created <= rows[n].created
             /\ rows' = [rows EXCEPT ![m] =
                           [@ EXCEPT !.status = "delivering", !.lease = t + Lease]]
             /\ call' = [call EXCEPT ![s] =
                           Answer(s, [call[s] EXCEPT !.res = "event", !.msg = m])]
     /\ UNCHANGED <<clock, revoked, purged, lastSeen>>
-----------------------------------------------------------------------------
\* acknowledgeDelivery looks the row up, then reads the request's body.
AckSelect(s) ==
  LET m == call[s].msg
  IN /\ At(s, "ack", "sent") \/ At(s, "nack", "sent")
     /\ IF ~Stored(m) THEN Reply(s, "delivery_not_found")
        ELSE IF rows[m].expires < clock THEN Reply(s, "delivery_expired")
        ELSE Proceed(s)
     /\ UNCHANGED <<clock, tables>>

Set(m, r) == rows' = IF Stored(m) THEN [rows EXCEPT ![m] = r] ELSE rows

\* delivery_ack: the receipt is stored, whatever became of the row's status;
\* an UPDATE that finds no row is not an error.
AckStore(s) ==
  LET m == call[s].msg
  IN /\ At(s, "ack", "mid")
     /\ IF call[s].exp < clock
        THEN Reply(s, "invalid_request") /\ UNCHANGED rows
        ELSE /\ Reply(s, "stored")
             /\ Set(m, [rows[m] EXCEPT !.status = "delivered", !.lease = 0,
                                       !.ack = call[s].exp])
     /\ UNCHANGED <<clock, revoked, purged, lastSeen>>

\* Mutant: a refused message is filed with the delivered ones.
NackStoreAsDelivered(s) ==
  /\ At(s, "nack", "mid")
  /\ Reply(s, "stored")
  /\ Set(call[s].msg, [rows[call[s].msg] EXCEPT !.status = "delivered", !.lease = 0])
  /\ UNCHANGED <<clock, revoked, purged, lastSeen>>

\* delivery_error: the PC cannot use the message.
NackStore(s) ==
  LET m == call[s].msg
  IN /\ At(s, "nack", "mid")
     /\ Reply(s, "stored")
     /\ Set(m, [rows[m] EXCEPT !.status = "rejected", !.lease = 0])
     /\ UNCHANGED <<clock, revoked, purged, lastSeen>>
-----------------------------------------------------------------------------
\* getDeliveryStatus: senderPair, then the row.
StatusAuthorize(s) ==
  /\ At(s, "status", "sent")
  /\ IF revoked THEN Reply(s, "pair_revoked") ELSE Proceed(s)
  /\ UNCHANGED <<clock, tables>>

Verdict(m) ==
  IF ~Stored(m) THEN "delivery_not_found"
  ELSE IF rows[m].expires < clock THEN "delivery_expired"
  ELSE IF rows[m].status = "delivered"
  THEN IF rows[m].ack < clock THEN "delivery_receipt_expired" ELSE "delivered"
  ELSE IF rows[m].status = "rejected" THEN "delivery_rejected" ELSE "pending"

StatusRead(s) ==
  LET m == call[s].msg
  IN /\ At(s, "status", "mid")
     /\ call' = [call EXCEPT ![s] =
                   Answer(s, [call[s] EXCEPT !.res = Verdict(m),
                                             !.exp = rows[m].ack])]
     /\ UNCHANGED <<clock, tables>>
-----------------------------------------------------------------------------
\* revokePair: mark the pair, then delete its deliveries.
RevokeMark(s) ==
  /\ At(s, "revoke", "sent")
  /\ revoked' = TRUE
  /\ Proceed(s)
  /\ UNCHANGED <<clock, purged, lastSeen, rows>>

RevokePurge(s) ==
  /\ At(s, "revoke", "mid")
  /\ rows' = [m \in Message |-> NoRow]
  /\ purged' = TRUE
  /\ Reply(s, "revoked")
  /\ UNCHANGED <<clock, revoked, lastSeen>>
-----------------------------------------------------------------------------
Expired == {m \in Message : Stored(m) /\ rows[m].expires < clock}
StaleAck == {m \in Message : /\ rows[m].status = "delivered"
                             /\ rows[m].ack # 0 /\ rows[m].ack < clock}

\* Mutant: the cleanup before 202610030001, where a row lived as long as its
\* receipt.
CleanupWithReceipt ==
  /\ Expired \cup StaleAck # {}
  /\ rows' = [m \in Message |-> IF m \in Expired \cup StaleAck THEN NoRow
                                ELSE rows[m]]
  /\ UNCHANGED <<clock, revoked, purged, lastSeen, call>>

\* relay_cleanup, run before a random request.
Cleanup ==
  /\ Expired \cup StaleAck # {}
  /\ rows' = [m \in Message |-> IF m \in Expired THEN NoRow
                                ELSE IF m \in StaleAck THEN [rows[m] EXCEPT !.ack = 0]
                                ELSE rows[m]]
  /\ UNCHANGED <<clock, revoked, purged, lastSeen, call>>

\* A database request fails or times out: the client is told "unavailable".
\* A write that timed out may still be committed (supabase-admin.ts:156), now
\* or later: then the handler's rest runs on as the orphan.
Orphaned(s) == IF call["orphan"] = NoCall THEN {NoCall, call[s]} ELSE {call["orphan"]}

Unavailable(s) ==
  /\ Waiting(s) /\ s # "orphan"
  /\ \E o \in Orphaned(s) :
       call' = [call EXCEPT ![s] = Answer(s, [@ EXCEPT !.res = "unavailable", !.exp = 0]),
                            !["orphan"] = o]
  /\ UNCHANGED <<clock, tables>>

\* A client stops waiting, or the connection breaks: before the call arrived,
\* while the handler runs, or on the way back.
Abandon(s) ==
  /\ s # "orphan" /\ call[s].op # "none"
  /\ \E o \in IF Waiting(s) THEN Orphaned(s) ELSE {call["orphan"]} :
       call' = [call EXCEPT ![s] = NoCall, !["orphan"] = o]

\* The orphan's handler dies with its server.
OrphanDies == /\ call["orphan"] # NoCall
              /\ call' = [call EXCEPT !["orphan"] = NoCall]
              /\ UNCHANGED <<clock, tables>>

Tick == /\ clock < MaxClock
        /\ clock' = clock + 1
        /\ UNCHANGED <<tables, call>>

Handle(s) == \/ SubmitAuthorize(s) \/ SubmitInsert(s)
             \/ PollHeartbeat(s) \/ PollClaim(s)
             \/ AckSelect(s) \/ AckStore(s) \/ NackStore(s)
             \/ StatusAuthorize(s) \/ StatusRead(s)
             \/ RevokeMark(s) \/ RevokePurge(s)

RelayStep == \/ \E s \in Slot : Handle(s) \/ Unavailable(s)
             \/ Cleanup \/ OrphanDies \/ Tick
-----------------------------------------------------------------------------
\* The requests a client may make at any time; envelopes are freshly built.
Requests ==
  LET about(op, ttl) == {Request(op, m, ttl) : m \in Message}
  IN about("submit", clock + MessageTTL) \cup about("ack", clock + AckTTL)
     \cup about("nack", 0) \cup about("status", 0)
     \cup {Request("poll", NoMessage, 0), Request("revoke", NoMessage, 0)}

ClientCall(s) ==
  /\ s # "orphan" /\ ~Waiting(s)
  /\ \E c \in Requests : call' = [call EXCEPT ![s] = c]
  /\ UNCHANGED <<clock, tables>>

ClientGone(s) == Abandon(s) /\ UNCHANGED <<clock, tables>>

RelayNext == RelayStep \/ \E s \in Slot : ClientCall(s) \/ ClientGone(s)

RelaySpec == RelayInit /\ [][RelayNext]_relayVars
-----------------------------------------------------------------------------
\* A send that was authorized before the removal never leaves a delivery
\* behind it: once a revocation has deleted the pair's rows there are none
\* (docs/revocation-race-fix-2026-10-26.md, 202610260001:13-33).
NothingAfterPurge == /\ RelayTypeOK
                     /\ purged => \A m \in Message : ~Stored(m)

\* A message that one poll holds is not handed to another before the lease
\* ends, although a claim uses the time its handler read earlier.
LeaseHonoured ==
  [][\A m \in Message :
       /\ rows[m].status = "delivering" /\ rows'[m].status = "delivering"
       /\ rows'[m].lease # rows[m].lease
       => rows[m].lease <= clock /\ rows[m].lease < rows'[m].lease]_relayVars

\* The relay keeps the mailbox's promise (tombstones until the URL's expiry,
\* nothing offered again, nothing taken or kept without a reason).
Mail == INSTANCE Mailbox WITH
          closed <- revoked,
          box <- [m \in Message |->
                    CASE rows[m].status = "absent" -> "none"
                      [] rows[m].status \in {"pending", "delivering"} -> "held"
                      [] rows[m].status \in {"delivered", "rejected"} -> "answered"],
          until <- [m \in Message |-> rows[m].expires]
MailboxSpec == Mail!Spec
=============================================================================
