------------------------- MODULE LocalRelay_proofs -------------------------
(***************************************************************************)
(* The local development relay, for any devices, messages and requests,    *)
(* any number of sockets and any clocks: a phone is told of its own        *)
(* delivery, the user is asked once about an accepted message, and a       *)
(* receiver with a live socket is the one that phones reach.               *)
(***************************************************************************)
EXTENDS LocalRelay, SequenceTheorems, FiniteSetTheorems, TLAPS

Socket == [device: Devices, serving: BOOLEAN, open: BOOLEAN, broken: BOOLEAN,
           down: Seq(Frames(Kinds)), up: Seq(Frames(Kinds))]

(* TypeOK without the bound on asked, which follows from what is accepted. *)
Types ==
    /\ scenario \in Scenarios /\ now \in 0..MaxTime
    /\ sealed \in [Messages -> Int \cup {None}]
    /\ revoked \subseteq Messages
    /\ sockets \in Seq(Socket)
    /\ table \in [Devices -> (1..Len(sockets)) \cup {None}]
    /\ pending \in [Requests -> {None} \cup Frames(Kinds \cup Futures)]
    /\ request \in [Requests -> {"unsent", "body", "waiting", "verify"} \cup Answers]
    /\ ack \in [Requests -> {None} \cup Frames({"delivery_ack"})]
    /\ pc \in [Devices -> [at: Places, socket: (1..Len(sockets)) \cup {None},
                           delivery: Requests \cup {None}]]
    /\ seen \in [Devices -> SUBSET Messages]
    /\ verdict \in [Requests -> {None, "accepted", "rejected"}]
    /\ asked \in [Messages -> Nat]
    /\ dropped \subseteq Messages

Sent(r) == request[r] \notin {"unsent", "body"}

(* A delivery on its way is its sender's only one: nobody has judged it,   *)
(* and it goes to the device of its pair.                                  *)
Deliveries ==
    /\ \A n \in 1..Len(sockets) : \A i \in 1..Len(sockets[n].down) :
         LET r == sockets[n].down[i].delivery IN
         Sent(r) /\ Owner(r) = sockets[n].device /\ verdict[r] = None
    /\ \A n, k \in 1..Len(sockets) :
         \A i \in 1..Len(sockets[n].down), j \in 1..Len(sockets[k].down) :
           sockets[n].down[i].delivery = sockets[k].down[j].delivery => n = k /\ i = j
    /\ \A r \in Requests : /\ request[r] # "unsent" => sealed[r.message] # None
                           /\ ~Sent(r) => verdict[r] = None

(* An answer on its way says what the PC made of the request it names. *)
Judged(f) == \/ f.kind = "delivery_ack" /\ verdict[f.delivery] = "accepted"
             \/ f.kind = "delivery_error" /\ verdict[f.delivery] = "rejected"
Replies ==
    /\ \A n \in 1..Len(sockets) : \A i \in 1..Len(sockets[n].up) : Judged(sockets[n].up[i])
    /\ \A r \in Requests :
         /\ pending[r] # None =>
              pending[r].delivery = r /\ (pending[r].kind \in Futures \/ Judged(pending[r]))
         /\ request[r] = "waiting" => pending[r] # None
         /\ request[r] \in {"verify", "delivered"} => verdict[r] = "accepted"
         /\ request[r] = "rejected" => verdict[r] = "rejected"

(* A receiver works on the socket of its device. *)
Receivers ==
    \A d \in Devices :
        /\ pc[d].at # "off" => pc[d].socket # None /\ sockets[pc[d].socket].device = d
        /\ pc[d].at \in {"answer", "ask", "raise"} => pc[d].delivery \in Requests
        /\ pc[d].at = "answer" =>
             verdict[pc[d].delivery] = "accepted" /\ Owner(pc[d].delivery) = d

(* What is accepted stays in the memory of its receiver until its message  *)
(* has expired, so no other request for it is.                             *)
Remembered ==
    /\ \A r \in Requests : verdict[r] = "accepted" =>
         sealed[r.message] # None
         /\ (r.message \in seen[Owner(r)] \/ Expires(r.message) < now)
    /\ \A r, q \in Requests :
         verdict[r] = "accepted" /\ verdict[q] = "accepted" /\ r.message = q.message => r = q

Accepted(m) == \E r \in Requests : r.message = m /\ verdict[r] = "accepted"
Held(m) == \E d \in Devices : pc[d].at = "answer" /\ pc[d].delivery.message = m

(* Every accepted message is about to be asked about, or was, or is lost. *)
Accounts ==
    \A m \in Messages :
        /\ asked[m] \in {0, 1}
        /\ asked[m] = 1 => ~Held(m) /\ m \notin dropped
        /\ m \in dropped => ~Held(m)
        /\ Accepted(m) <=> asked[m] = 1 \/ Held(m) \/ m \in dropped

Inv == /\ Types /\ Deliveries /\ Replies /\ Receivers /\ Remembered /\ Accounts
       /\ NewestIsReached

-----------------------------------------------------------------------------
(* What a step does to the sockets. *)

(* Socket n becomes s, the others stay. *)
Edit(n, s) ==
    /\ n \in 1..Len(sockets) /\ s \in Socket
    /\ sockets' \in Seq(Socket) /\ Len(sockets') = Len(sockets)
    /\ sockets'[n] = s
    /\ \A k \in 1..Len(sockets) : k # n => sockets'[k] = sockets[k]

LEMMA EditOne ==
  ASSUME sockets \in Seq(Socket), NEW n \in 1..Len(sockets), NEW s \in Socket,
         sockets' = [sockets EXCEPT ![n] = s]
  PROVE  Edit(n, s)
BY ExceptSeq DEF Edit

LEMMA AliveIsOne ==
  ASSUME Types, NEW n \in (1..Len(sockets)) \cup {None}, Alive(n)
  PROVE  n \in 1..Len(sockets) /\ sockets[n] \in Socket
BY DEF Alive, Types

LEMMA HangEdits ==
  ASSUME Types, NEW n \in 1..Len(sockets), Hang(n)
  PROVE  Edit(n, [sockets[n] EXCEPT !.open = FALSE])
<1>1. sockets \in Seq(Socket) /\ sockets[n] \in Socket
  BY DEF Types
<1>2. [sockets[n] EXCEPT !.open = FALSE] \in Socket
  BY <1>1 DEF Socket
<1> QED
  BY <1>1, <1>2, EditOne DEF Hang

LEMMA FrameType ==
  ASSUME Types, NEW kind, NEW r \in Requests
  PROVE  Frame(kind, r) \in Frames({kind})
BY DEF Types, Frame, Frames

LEMMA CarryDown ==
  ASSUME Types, NEW n \in 1..Len(sockets), NEW f \in Frames(Kinds), Carry(n, "down", f)
  PROVE  \/ UNCHANGED sockets
         \/ Alive(n) /\ Edit(n, [sockets[n] EXCEPT !.down = Append(@, f)])
<1>1. sockets \in Seq(Socket) /\ sockets[n] \in Socket
  BY DEF Types
<1>2. [sockets[n] EXCEPT !.down = Append(@, f)] \in Socket
  <2>1. sockets[n].down \in Seq(Frames(Kinds))
    BY <1>1 DEF Socket
  <2>2. Append(sockets[n].down, f) \in Seq(Frames(Kinds))
    BY <2>1, AppendProperties
  <2> QED
    BY <1>1, <2>2 DEF Socket
<1>3. CASE Alive(n)
  <2>1. sockets' = [sockets EXCEPT ![n] = [sockets[n] EXCEPT !.down = Append(@, f)]]
    BY <1>1, <1>3 DEF Carry, Socket
  <2> QED
    BY <1>1, <1>2, <1>3, <2>1, EditOne
<1> QED
  BY <1>3 DEF Carry

LEMMA CarryUp ==
  ASSUME Types, NEW n \in 1..Len(sockets), NEW f \in Frames(Kinds), Carry(n, "up", f)
  PROVE  \/ UNCHANGED sockets
         \/ Alive(n) /\ Edit(n, [sockets[n] EXCEPT !.up = Append(@, f)])
<1>1. sockets \in Seq(Socket) /\ sockets[n] \in Socket
  BY DEF Types
<1>2. [sockets[n] EXCEPT !.up = Append(@, f)] \in Socket
  <2>1. sockets[n].up \in Seq(Frames(Kinds))
    BY <1>1 DEF Socket
  <2>2. Append(sockets[n].up, f) \in Seq(Frames(Kinds))
    BY <2>1, AppendProperties
  <2> QED
    BY <1>1, <2>2 DEF Socket
<1>3. CASE Alive(n)
  <2>1. sockets' = [sockets EXCEPT ![n] = [sockets[n] EXCEPT !.up = Append(@, f)]]
    BY <1>1, <1>3 DEF Carry, Socket
  <2> QED
    BY <1>1, <1>2, <1>3, <2>1, EditOne
<1> QED
  BY <1>3 DEF Carry

LEMMA BreakEdits ==
  ASSUME Types, NEW n \in 1..Len(sockets), Break(n)
  PROVE  \E down \in {<<>>, sockets[n].down}, up \in {<<>>, sockets[n].up} :
           Edit(n, [sockets[n] EXCEPT !.broken = TRUE, !.down = down, !.up = up])
<1>1. sockets \in Seq(Socket) /\ sockets[n] \in Socket
  BY DEF Types
<1>2. PICK down \in {<<>>, sockets[n].down}, up \in {<<>>, sockets[n].up} :
         sockets' = [sockets EXCEPT ![n].broken = TRUE, ![n].down = down, ![n].up = up]
  BY DEF Break
<1>3. down \in Seq(Frames(Kinds)) /\ up \in Seq(Frames(Kinds))
  BY <1>1, EmptySeq DEF Socket
<1>4. [sockets[n] EXCEPT !.broken = TRUE, !.down = down, !.up = up] \in Socket
  BY <1>1, <1>3 DEF Socket
<1>5. sockets' = [sockets EXCEPT ![n] =
                    [sockets[n] EXCEPT !.broken = TRUE, !.down = down, !.up = up]]
  BY <1>1, <1>2 DEF Socket
<1> QED
  BY <1>1, <1>4, <1>5, EditOne

LEMMA ReceiveEdits ==
  ASSUME Types, NEW n \in 1..Len(sockets), RelayReceives(n)
  PROVE  Edit(n, [sockets[n] EXCEPT !.up = Tail(@)])
<1>1. sockets \in Seq(Socket) /\ sockets[n] \in Socket
  BY DEF Types
<1>2. Tail(sockets[n].up) \in Seq(Frames(Kinds))
  BY <1>1, HeadTailProperties DEF RelayReceives, Socket
<1>3. [sockets[n] EXCEPT !.up = Tail(@)] \in Socket
  BY <1>1, <1>2 DEF Socket
<1> QED
  BY <1>1, <1>3, EditOne DEF RelayReceives

LEMMA NoticeEdits ==
  ASSUME Types, NEW n \in 1..Len(sockets), RelayNotices(n)
  PROVE  Edit(n, [sockets[n] EXCEPT !.serving = FALSE])
<1>1. sockets \in Seq(Socket) /\ sockets[n] \in Socket
  BY DEF Types
<1>2. [sockets[n] EXCEPT !.serving = FALSE] \in Socket
  BY <1>1 DEF Socket
<1> QED
  BY <1>1, <1>2, EditOne DEF RelayNotices

LEMMA ReceiverSocket ==
  ASSUME Types, Receivers, NEW d \in Devices, pc[d].at # "off"
  PROVE  pc[d].socket \in 1..Len(sockets) /\ sockets[pc[d].socket].device = d
BY DEF Types, Receivers

(* The first delivery on the receiver's socket. *)
Next1(d) == sockets[pc[d].socket].down[1].delivery

LEMMA TakeOne ==
  ASSUME Types, Receivers, NEW d \in Devices, pc[d].at = "idle", Take(d) # <<>>
  PROVE  /\ 1 \in 1..Len(sockets[pc[d].socket].down)
         /\ Head(Take(d)).delivery = Next1(d) /\ Next1(d) \in Requests
         /\ Tail(Take(d)) \in Seq(Frames(Kinds))
<1>1. sockets[pc[d].socket] \in Socket
  <2>1. pc[d].socket \in 1..Len(sockets)
    BY ReceiverSocket
  <2> QED
    BY <2>1 DEF Types
<1>2. Take(d) \in Seq(Frames(Kinds))
  BY <1>1 DEF Take, Socket
<1>3. /\ Len(Take(d)) \in Nat \ {0} /\ Head(Take(d)) = Take(d)[1]
      /\ Take(d)[1] \in Frames(Kinds) /\ Tail(Take(d)) \in Seq(Frames(Kinds))
  BY <1>2, EmptySeq, HeadTailProperties, ElementOfSeq
<1> QED
  BY <1>3 DEF Take, Next1, Frames

LEMMA TakeEdits ==
  ASSUME Types, Receivers, NEW d \in Devices, pc[d].at = "idle", Take(d) # <<>>,
         sockets' = Take1(d)
  PROVE  Edit(pc[d].socket, [sockets[pc[d].socket] EXCEPT !.down = Tail(@)])
<1> DEFINE n == pc[d].socket
<1>1. n \in 1..Len(sockets) /\ sockets \in Seq(Socket) /\ sockets[n] \in Socket
  <2>1. n \in 1..Len(sockets)
    BY ReceiverSocket
  <2> QED
    BY <2>1 DEF Types
<1>2. [sockets[n] EXCEPT !.down = Tail(@)] \in Socket
  BY <1>1, TakeOne DEF Socket, Take
<1> QED
  BY <1>1, <1>2, EditOne DEF Take1

Rejection(r) == Frame("delivery_error", r)

(* Accept: the first delivery is taken off the socket. *)
LEMMA AcceptEffect ==
  ASSUME Types, Receivers, NEW d \in Devices, Accept(d)
  PROVE  /\ pc[d].at = "idle" /\ Take(d) # <<>> /\ Acceptable(d, Next1(d))
         /\ Remember(d, Next1(d).message)
         /\ verdict' = [verdict EXCEPT ![Next1(d)] = "accepted"]
         /\ pc' = [pc EXCEPT ![d].at = "answer", ![d].delivery = Next1(d)]
         /\ Edit(pc[d].socket, [sockets[pc[d].socket] EXCEPT !.down = Tail(@)])
         /\ UNCHANGED <<scenario, now, sealed, revoked, table, pending, request, ack,
                        asked, dropped>>
<1>1. pc[d].at = "idle" /\ Take(d) # <<>> /\ sockets' = Take1(d)
  BY DEF Accept
<1>2. Head(Take(d)).delivery = Next1(d)
  BY <1>1, TakeOne
<1>3. Edit(pc[d].socket, [sockets[pc[d].socket] EXCEPT !.down = Tail(@)])
  BY <1>1, TakeEdits
<1> QED
  BY <1>1, <1>2, <1>3 DEF Accept, relay, phone

(* Reject: the first delivery is taken off the socket; the rejection is    *)
(* sent, or lost, or the receiver leaves and closes the socket.            *)
LEMMA RejectEffect ==
  ASSUME Types, Receivers, NEW d \in Devices, Reject(d)
  PROVE  /\ pc[d].at = "idle" /\ Take(d) # <<>> /\ ~Acceptable(d, Next1(d))
         /\ verdict' = [verdict EXCEPT ![Next1(d)] = "rejected"]
         /\ LET n == pc[d].socket IN
            \/ /\ \/ Edit(n, [sockets[n] EXCEPT !.down = Tail(@)])
                  \/ Edit(n, [sockets[n] EXCEPT !.down = Tail(@),
                                                !.up = Append(@, Rejection(Next1(d)))])
               /\ UNCHANGED pc
            \/ /\ Edit(n, [sockets[n] EXCEPT !.down = Tail(@), !.open = FALSE])
               /\ pc' = [pc EXCEPT ![d] = Away]
         /\ UNCHANGED <<scenario, now, sealed, revoked, table, pending, request, ack,
                        seen, asked, dropped>>
<1> DEFINE n == pc[d].socket
           r == Next1(d)
<1>1. pc[d].at = "idle" /\ Take(d) # <<>>
  BY DEF Reject
<1>2. /\ Head(Take(d)).delivery = r /\ r \in Requests
      /\ Tail(Take(d)) \in Seq(Frames(Kinds))
  BY <1>1, TakeOne
<1>3. n \in 1..Len(sockets)
  BY <1>1, ReceiverSocket
<1>4. sockets \in Seq(Socket) /\ sockets[n] \in Socket
  BY <1>3 DEF Types
<1>5. sockets[n].up \in Seq(Frames(Kinds))
  BY <1>4 DEF Socket
<1>6. Frame("delivery_error", r) \in Frames(Kinds)
  BY <1>2, FrameType DEF Frames, Kinds
<1>7. Append(sockets[n].up, Rejection(r)) \in Seq(Frames(Kinds))
  BY <1>5, <1>6, AppendProperties DEF Rejection
<1>8. /\ [sockets[n] EXCEPT !.down = Tail(@)] \in Socket
      /\ [sockets[n] EXCEPT !.down = Tail(@), !.open = FALSE] \in Socket
  BY <1>2, <1>4 DEF Socket, Take
<1>9. [sockets[n] EXCEPT !.down = Tail(@), !.up = Append(@, Rejection(r))] \in Socket
  BY <1>2, <1>4, <1>7 DEF Socket, Take
<1>10. /\ ~Acceptable(d, r)
       /\ verdict' = [verdict EXCEPT ![r] = "rejected"]
       /\ \/ /\ sockets' = [Take1(d) EXCEPT
                  ![n].up = IF Alive(n) THEN Append(@, Frame("delivery_error", r)) ELSE @]
             /\ UNCHANGED pc
          \/ /\ sockets' = [Take1(d) EXCEPT ![n].open = FALSE]
             /\ pc' = [pc EXCEPT ![d] = Away]
       /\ UNCHANGED <<scenario, now, sealed, revoked, table, pending, request, ack,
                      seen, asked, dropped>>
  BY <1>2 DEF Reject, relay, phone
<1>11. CASE /\ sockets' = [Take1(d) EXCEPT
                 ![n].up = IF Alive(n) THEN Append(@, Frame("delivery_error", r)) ELSE @]
            /\ UNCHANGED pc
  <2>1. CASE Alive(n)
    <3>1. sockets' = [sockets EXCEPT ![n] =
            [sockets[n] EXCEPT !.down = Tail(@), !.up = Append(@, Rejection(r))]]
      BY <1>3, <1>4, <1>11, <2>1 DEF Take1, Socket, Rejection
    <3> QED
      BY <1>1, <1>3, <1>4, <1>9, <1>10, <1>11, <3>1, EditOne
  <2>2. CASE ~Alive(n)
    <3>1. sockets' = [sockets EXCEPT ![n] = [sockets[n] EXCEPT !.down = Tail(@)]]
      BY <1>3, <1>4, <1>11, <2>2 DEF Take1, Socket
    <3> QED
      BY <1>1, <1>3, <1>4, <1>8, <1>10, <1>11, <3>1, EditOne
  <2> QED
    BY <2>1, <2>2
<1>12. CASE /\ sockets' = [Take1(d) EXCEPT ![n].open = FALSE]
            /\ pc' = [pc EXCEPT ![d] = Away]
  <2>1. sockets' = [sockets EXCEPT ![n] =
                      [sockets[n] EXCEPT !.down = Tail(@), !.open = FALSE]]
    BY <1>3, <1>4, <1>12 DEF Take1, Socket
  <2> QED
    BY <1>1, <1>3, <1>4, <1>8, <1>10, <1>12, <2>1, EditOne
<1> QED
  BY <1>10, <1>11, <1>12

Acknowledgement(r) == Frame("delivery_ack", r)

LEMMA AnswerIsFrame ==
  ASSUME Types, Receivers, NEW d \in Devices, pc[d].at = "answer"
  PROVE  /\ pc[d].delivery \in Requests
         /\ Acknowledgement(pc[d].delivery) \in Frames(Kinds)
<1>1. pc[d].delivery \in Requests
  BY DEF Receivers
<1> QED
  BY <1>1, FrameType DEF Acknowledgement, Frames, Kinds

(* Acknowledge: the acknowledgement is sent, or lost, or fails. *)
LEMMA AcknowledgeEffect ==
  ASSUME Types, Receivers, NEW d \in Devices, Acknowledge(d)
  PROVE  LET n == pc[d].socket
             r == pc[d].delivery
         IN /\ pc[d].at = "answer" /\ r \in Requests
            /\ \/ UNCHANGED sockets
               \/ Edit(n, [sockets[n] EXCEPT !.up = Append(@, Acknowledgement(r))])
            /\ \E at \in {"ask", "raise"} : pc' = [pc EXCEPT ![d].at = at]
            /\ asked' = [asked EXCEPT ![r.message] = @ + 1]
            /\ UNCHANGED <<scenario, now, sealed, revoked, table, pending, request, ack,
                           seen, verdict, dropped>>
<1> DEFINE n == pc[d].socket
           r == pc[d].delivery
<1>1. pc[d].at = "answer"
  BY DEF Acknowledge
<1>2. r \in Requests /\ Acknowledgement(r) \in Frames(Kinds) /\ n \in 1..Len(sockets)
  BY <1>1, AnswerIsFrame, ReceiverSocket
<1>3. \/ UNCHANGED sockets
      \/ Edit(n, [sockets[n] EXCEPT !.up = Append(@, Acknowledgement(r))])
  <2>1. CASE Carry(n, "up", Frame("delivery_ack", r))
    BY <1>2, <2>1, CarryUp DEF Acknowledgement
  <2> QED
    BY <2>1 DEF Acknowledge
<1>4. /\ \E at \in {"ask", "raise"} : pc' = [pc EXCEPT ![d].at = at]
      /\ asked' = [asked EXCEPT ![r.message] = @ + 1]
      /\ UNCHANGED <<scenario, now, sealed, revoked, table, pending, request, ack,
                     seen, verdict, dropped>>
  BY DEF Acknowledge, AskAbout, relay, phone
<1> QED
  BY <1>1, <1>2, <1>3, <1>4

(* Asked and Lost: the next frame, or the receiver leaves. *)
LEMMA LeaveEffect ==
  ASSUME Types, Receivers, NEW d \in Devices, Asked(d) \/ Lost(d)
  PROVE  LET n == pc[d].socket
         IN /\ pc[d].at \in {"ask", "raise", "idle"}
            /\ \/ /\ UNCHANGED sockets
                  /\ pc' = [pc EXCEPT ![d].at = "idle", ![d].delivery = None]
               \/ /\ Edit(n, [sockets[n] EXCEPT !.open = FALSE])
                  /\ pc' = [pc EXCEPT ![d] = Away]
            /\ UNCHANGED <<scenario, now, sealed, revoked, table, pending, request, ack,
                           seen, verdict, asked, dropped>>
<1> DEFINE n == pc[d].socket
<1>1. pc[d].at \in {"ask", "raise", "idle"}
  BY DEF Asked, Lost
<1>2. n \in 1..Len(sockets)
  BY <1>1, ReceiverSocket
<1>3. \/ /\ UNCHANGED sockets
         /\ pc' = [pc EXCEPT ![d].at = "idle", ![d].delivery = None]
      \/ Hang(n) /\ pc' = [pc EXCEPT ![d] = Away]
  BY DEF Asked, Lost
<1>4. UNCHANGED <<scenario, now, sealed, revoked, table, pending, request, ack,
                  seen, verdict, asked, dropped>>
  BY DEF Asked, Lost, relay, phone, local
<1> QED
  BY <1>1, <1>2, <1>3, <1>4, HangEdits

(* Cancel: the acknowledgement that was being sent may still have left. *)
LEMMA CancelEffect ==
  ASSUME Types, Receivers, NEW d \in Devices, Cancel(d)
  PROVE  LET n == pc[d].socket
             r == pc[d].delivery
         IN /\ pc[d].at # "off"
            /\ dropped' = IF pc[d].at = "answer" THEN dropped \cup {r.message} ELSE dropped
            /\ \/ Edit(n, [sockets[n] EXCEPT !.open = FALSE])
               \/ /\ pc[d].at = "answer"
                  /\ Edit(n, [sockets[n] EXCEPT !.open = FALSE,
                                                !.up = Append(@, Acknowledgement(r))])
            /\ pc' = [pc EXCEPT ![d] = Away]
            /\ UNCHANGED <<scenario, now, sealed, revoked, table, pending, request, ack,
                           seen, verdict, asked>>
<1> DEFINE n == pc[d].socket
           r == pc[d].delivery
<1>1. pc[d].at # "off"
  BY DEF Cancel
<1>2. n \in 1..Len(sockets)
  BY <1>1, ReceiverSocket
<1>3. sockets \in Seq(Socket) /\ sockets[n] \in Socket
  BY <1>2 DEF Types
<1>4. \/ Hang(n)
      \/ /\ pc[d].at = "answer"
         /\ sockets' = [sockets EXCEPT ![n].open = FALSE,
                                       ![n].up = Append(@, Frame("delivery_ack", r))]
  BY DEF Cancel
<1>5. CASE Hang(n)
  BY <1>1, <1>2, <1>5, HangEdits DEF Cancel, relay, phone
<1>6. CASE /\ pc[d].at = "answer"
           /\ sockets' = [sockets EXCEPT ![n].open = FALSE,
                                         ![n].up = Append(@, Frame("delivery_ack", r))]
  <2>1. sockets' = [sockets EXCEPT ![n] =
          [sockets[n] EXCEPT !.open = FALSE, !.up = Append(@, Acknowledgement(r))]]
    BY <1>2, <1>3, <1>6 DEF Socket, Acknowledgement
  <2>2. Append(sockets[n].up, Acknowledgement(r)) \in Seq(Frames(Kinds))
    <3>1. sockets[n].up \in Seq(Frames(Kinds))
      BY <1>3 DEF Socket
    <3> QED
      BY <1>6, <3>1, AnswerIsFrame, AppendProperties
  <2>3. [sockets[n] EXCEPT !.open = FALSE, !.up = Append(@, Acknowledgement(r))] \in Socket
    BY <1>3, <2>2 DEF Socket
  <2>4. Edit(n, [sockets[n] EXCEPT !.open = FALSE, !.up = Append(@, Acknowledgement(r))])
    BY <1>2, <1>3, <2>1, <2>3, EditOne
  <2> QED
    BY <1>1, <1>6, <2>4 DEF Cancel, relay, phone
<1> QED
  BY <1>4, <1>5, <1>6

(* Forward: the delivery goes to the connection of its device, or to none. *)
LEMMA ForwardEffect ==
  ASSUME Types, NEW r \in Requests, Forward(r)
  PROVE  LET n == table[Owner(r)]
             f == Frame("url_message", r)
         IN /\ request[r] = "body"
            /\ \/ /\ n \in 1..Len(sockets)
                  /\ \/ UNCHANGED sockets
                     \/ Edit(n, [sockets[n] EXCEPT !.down = Append(@, f)])
                  /\ pending' = [pending EXCEPT ![r] = Frame("waiting", r)]
                  /\ request' = [request EXCEPT ![r] = "waiting"]
               \/ /\ request' = [request EXCEPT ![r] = "offline"]
                  /\ UNCHANGED <<sockets, pending>>
            /\ UNCHANGED <<scenario, now, sealed, revoked, table, ack, pc, seen, verdict,
                           asked, dropped>>
<1> DEFINE n == table[Owner(r)]
           f == Frame("url_message", r)
<1>1. n \in (1..Len(sockets)) \cup {None}
  BY RelayAssumption DEF Types, Owner
<1>2. f \in Frames(Kinds)
  BY FrameType DEF Frames, Kinds
<1>3. CASE /\ n # None
           /\ Carry(n, "down", f)
           /\ pending' = [pending EXCEPT ![r] = Frame("waiting", r)]
           /\ request' = [request EXCEPT ![r] = "waiting"]
  <2>1. n \in 1..Len(sockets)
    BY <1>1, <1>3
  <2>2. UNCHANGED sockets \/ Edit(n, [sockets[n] EXCEPT !.down = Append(@, f)])
    BY <1>2, <1>3, <2>1, CarryDown
  <2> QED
    BY <1>3, <2>1, <2>2 DEF Forward, local
<1>4. CASE /\ request' = [request EXCEPT ![r] = "offline"]
           /\ UNCHANGED <<sockets, pending>>
  BY <1>4 DEF Forward, local
<1> QED
  BY <1>3, <1>4 DEF Forward

NewSocket(d) == [device |-> d, serving |-> TRUE, open |-> TRUE,
                 broken |-> FALSE, down |-> <<>>, up |-> <<>>]

LEMMA ConnectEffect ==
  ASSUME Types, NEW d \in Devices, Connect(d)
  PROVE  LET n == Len(sockets) + 1
         IN /\ pc[d].at = "off" /\ sockets' \in Seq(Socket) /\ Len(sockets') = n
            /\ sockets'[n] = NewSocket(d) /\ \A k \in 1..Len(sockets) : sockets'[k] = sockets[k]
            /\ table' = [table EXCEPT ![d] = n]
            /\ pc' = [pc EXCEPT ![d] = [at |-> "idle", socket |-> n, delivery |-> None]]
            /\ UNCHANGED <<scenario, now, sealed, revoked, pending, request, ack, seen,
                           verdict, asked, dropped>>
<1>1. sockets \in Seq(Socket) /\ NewSocket(d) \in Socket
  BY EmptySeq DEF Types, NewSocket, Socket
<1>2. sockets' = Append(sockets, NewSocket(d))
  BY DEF Connect, NewSocket
<1>3. /\ sockets' \in Seq(Socket) /\ Len(sockets') = Len(sockets) + 1
      /\ sockets'[Len(sockets) + 1] = NewSocket(d)
      /\ \A k \in 1..Len(sockets) : sockets'[k] = sockets[k]
  BY <1>1, <1>2, AppendProperties
<1> QED
  BY <1>3 DEF Connect, phone, local

-----------------------------------------------------------------------------
(* Types. *)

LEMMA EditTypes ==
  ASSUME Types, NEW n, NEW s, Edit(n, s)
  PROVE  /\ sockets' \in Seq(Socket) /\ 1..Len(sockets') = 1..Len(sockets)
         /\ sockets'[n] = s /\ n \in 1..Len(sockets)
         /\ \A k \in 1..Len(sockets) : k # n => sockets'[k] = sockets[k]
BY DEF Edit

LEMMA AwayType ==
  ASSUME NEW N \in Nat
  PROVE  Away \in [at: Places, socket: (1..N) \cup {None}, delivery: Requests \cup {None}]
BY DEF Away, Places

LEMMA TypesInit == Init => Types
<1> SUFFICES ASSUME Init PROVE Types
  OBVIOUS
<1>1. sockets = <<>> /\ Len(sockets) = 0 /\ sockets \in Seq(Socket)
  BY EmptySeq DEF Init
<1>2. pc \in [Devices -> [at: Places, socket: (1..Len(sockets)) \cup {None},
                          delivery: Requests \cup {None}]]
  BY <1>1 DEF Init, Places
<1> QED
  BY <1>1, <1>2, RelayAssumption DEF Init, Types

(* A step that leaves the sockets, their table and the receivers alone. *)
LEMMA TypesQuiet ==
  ASSUME Types,
         \/ Tick
         \/ \E r \in Requests : Authenticate(r) \/ DeliveryTimeout(r) \/ Respond(r) \/ Verify(r)
         \/ \E m \in Messages : Revoke(m)
         \/ UNCHANGED vars
  PROVE  Types'
<1>1. CASE UNCHANGED vars
  BY <1>1 DEF Types, vars
<1>2. CASE Tick
  <2>1. now' \in 0..MaxTime
    BY <1>2, RelayAssumption DEF Tick, Types
  <2> QED
    BY <1>2, <2>1 DEF Tick, Types, relay, phone, local
<1>3. ASSUME NEW m \in Messages, Revoke(m) PROVE Types'
  BY <1>3 DEF Revoke, Types, relay, phone, local
<1>4. ASSUME NEW r \in Requests, Authenticate(r) PROVE Types'
  <2>1. sealed' \in [Messages -> Int \cup {None}]
    <3>1. scenario.skew \in Int /\ now \in Int
      BY RelayAssumption DEF Types
    <3>2. r.message \in Messages
      BY RelayAssumption
    <3> QED
      BY <1>4, <3>1, <3>2 DEF Authenticate, Seal, Types
  <2>2. request' \in [Requests -> {"unsent", "body", "waiting", "verify"} \cup Answers]
    BY <1>4 DEF Authenticate, Types, Answers
  <2> QED
    BY <1>4, <2>1, <2>2 DEF Authenticate, Types, relay, local
<1>5. ASSUME NEW r \in Requests, DeliveryTimeout(r) PROVE Types'
  BY <1>5 DEF DeliveryTimeout, Answer, Answers, Types, local
<1>6. ASSUME NEW r \in Requests, Respond(r) PROVE Types'
  <2>1. request' \in [Requests -> {"unsent", "body", "waiting", "verify"} \cup Answers]
    BY <1>6 DEF Respond, Answer, Answers, Types
  <2>2. pending' \in [Requests -> {None} \cup Frames(Kinds \cup Futures)]
    BY <1>6 DEF Respond, Types
  <2>3. ack' \in [Requests -> {None} \cup Frames({"delivery_ack"})]
    <3>1. pending[r] \in {None} \cup Frames(Kinds \cup Futures)
      BY DEF Types
    <3>2. pending[r] # None /\ pending[r].kind = "delivery_ack"
          => pending[r] \in Frames({"delivery_ack"})
      BY <3>1 DEF Frames
    <3> QED
      BY <1>6, <3>1, <3>2 DEF Respond, Types
  <2> QED
    BY <1>6, <2>1, <2>2, <2>3 DEF Respond, Types, local
<1>7. ASSUME NEW r \in Requests, Verify(r) PROVE Types'
  BY <1>7 DEF Verify, Answer, Answers, Types, relay, local
<1> QED
  BY <1>1, <1>2, <1>3, <1>4, <1>5, <1>6, <1>7

LEMMA TypesRelay ==
  ASSUME Types,
         \/ \E r \in Requests : Forward(r)
         \/ \E n \in 1..Len(sockets) : Break(n) \/ RelayReceives(n) \/ RelayNotices(n)
  PROVE  Types'
<1>1. ASSUME NEW r \in Requests, Forward(r) PROVE Types'
  <2>1. Frame("waiting", r) \in Frames(Kinds \cup Futures)
    BY FrameType DEF Frames, Futures
  <2>2. /\ pending' \in [Requests -> {None} \cup Frames(Kinds \cup Futures)]
        /\ request' \in [Requests -> {"unsent", "body", "waiting", "verify"} \cup Answers]
    <3>1. /\ pending \in [Requests -> {None} \cup Frames(Kinds \cup Futures)]
          /\ request \in [Requests -> {"unsent", "body", "waiting", "verify"} \cup Answers]
      BY DEF Types
    <3>2. \/ /\ pending' = [pending EXCEPT ![r] = Frame("waiting", r)]
             /\ request' = [request EXCEPT ![r] = "waiting"]
          \/ request' = [request EXCEPT ![r] = "offline"] /\ pending' = pending
      BY <1>1, ForwardEffect
    <3> QED
      BY <2>1, <3>1, <3>2 DEF Answers
  <2>3. sockets' \in Seq(Socket) /\ 1..Len(sockets') = 1..Len(sockets)
    <3>1. UNCHANGED sockets \/ \E n, s : Edit(n, s)
      BY <1>1, ForwardEffect
    <3>2. CASE UNCHANGED sockets
      BY <3>2 DEF Types
    <3> QED
      BY <3>1, <3>2, EditTypes
  <2>4. UNCHANGED <<scenario, now, sealed, revoked, table, ack, pc, seen, verdict,
                    asked, dropped>>
    BY <1>1, ForwardEffect
  <2> QED
    BY <2>2, <2>3, <2>4 DEF Types
<1>2. ASSUME NEW n \in 1..Len(sockets), Break(n) PROVE Types'
  <2>1. sockets' \in Seq(Socket) /\ 1..Len(sockets') = 1..Len(sockets)
    BY <1>2, BreakEdits, EditTypes
  <2> QED
    BY <1>2, <2>1 DEF Break, Types, relay, phone, local
<1>3. ASSUME NEW n \in 1..Len(sockets), RelayReceives(n) PROVE Types'
  <2>1. sockets' \in Seq(Socket) /\ 1..Len(sockets') = 1..Len(sockets)
    BY <1>3, ReceiveEdits, EditTypes
  <2>2. Head(sockets[n].up) \in Frames(Kinds \cup Futures)
    <3>0. sockets[n] \in Socket
      BY DEF Types
    <3>1. sockets[n].up \in Seq(Frames(Kinds)) /\ sockets[n].up # <<>>
      BY <1>3, <3>0 DEF RelayReceives, Socket
    <3>2. Head(sockets[n].up) \in Frames(Kinds)
      BY <3>1, HeadTailProperties
    <3> QED
      BY <3>2 DEF Frames
  <2>3. pending' \in [Requests -> {None} \cup Frames(Kinds \cup Futures)]
    BY <1>3, <2>2 DEF RelayReceives, Types
  <2> QED
    BY <1>3, <2>1, <2>3 DEF RelayReceives, Types, phone, local
<1>4. ASSUME NEW n \in 1..Len(sockets), RelayNotices(n) PROVE Types'
  <2>1. sockets' \in Seq(Socket) /\ 1..Len(sockets') = 1..Len(sockets)
    BY <1>4, NoticeEdits, EditTypes
  <2>2. pending' \in [Requests -> {None} \cup Frames(Kinds \cup Futures)]
    <3>1. \A r \in Requests : Waits(r) =>
            [pending[r] EXCEPT !.kind = "broken"] \in Frames(Kinds \cup Futures)
      BY ZenonT(30) DEF Types, Waits, Frames, Futures
    <3> QED
      BY <1>4, <3>1 DEF RelayNotices, Types
  <2>3. table' \in [Devices -> (1..Len(sockets')) \cup {None}]
    BY <1>4, <2>1 DEF RelayNotices, Clear, Types
  <2> QED
    BY <1>4, <2>1, <2>2, <2>3 DEF RelayNotices, Types, phone, local
<1> QED
  BY <1>1, <1>2, <1>3, <1>4

LEMMA TypesReceiver ==
  ASSUME Types, Receivers, NEW d \in Devices,
         \/ Connect(d) \/ Accept(d) \/ Reject(d) \/ Acknowledge(d)
         \/ Asked(d) \/ Lost(d) \/ Cancel(d)
  PROVE  Types'
<1> DEFINE PC(N) == [Devices -> [at: Places, socket: (1..N) \cup {None},
                                 delivery: Requests \cup {None}]]
<1>0. /\ pc \in PC(Len(sockets)) /\ Len(sockets) \in Nat
      /\ verdict \in [Requests -> {None, "accepted", "rejected"}]
      /\ asked \in [Messages -> Nat] /\ seen \in [Devices -> SUBSET Messages]
      /\ dropped \subseteq Messages
  BY DEF Types
<1>1. CASE Connect(d)
  <2>1. /\ sockets' \in Seq(Socket) /\ Len(sockets') = Len(sockets) + 1
        /\ table' = [table EXCEPT ![d] = Len(sockets')]
        /\ pc' = [pc EXCEPT ![d] = [at |-> "idle", socket |-> Len(sockets'),
                                    delivery |-> None]]
        /\ UNCHANGED <<scenario, now, sealed, revoked, pending, request, ack, seen,
                       verdict, asked, dropped>>
    BY <1>1, ConnectEffect
  <2>2. table' \in [Devices -> (1..Len(sockets')) \cup {None}]
    BY <1>0, <2>1 DEF Types
  <2>3. pc' \in PC(Len(sockets'))
    BY <1>0, <2>1 DEF Places
  <2> QED
    BY <2>1, <2>2, <2>3 DEF Types
<1>2. CASE Accept(d)
  <2>1. /\ sockets' \in Seq(Socket) /\ 1..Len(sockets') = 1..Len(sockets)
        /\ Next1(d) \in Requests
    BY <1>2, AcceptEffect, EditTypes, TakeOne
  <2>2. pc' \in PC(Len(sockets'))
    <3>1. PICK r \in Requests : pc' = [pc EXCEPT ![d].at = "answer", ![d].delivery = r]
      BY <1>2, <2>1, AcceptEffect
    <3>2. [pc[d] EXCEPT !.at = "answer", !.delivery = r] \in
            [at : Places, socket : (1..Len(sockets)) \cup {None}, delivery : Requests \cup {None}]
      BY <1>0 DEF Places
    <3>3. pc' = [pc EXCEPT ![d] = [pc[d] EXCEPT !.at = "answer", !.delivery = r]]
      BY <1>0, <3>1
    <3>4. pc' \in PC(Len(sockets))
      BY <1>0, <3>2, <3>3
    <3> QED
      BY <2>1, <3>4
  <2>3. seen' \in [Devices -> SUBSET Messages]
    <3>1. Next1(d).message \in Messages
      BY <2>1, RelayAssumption
    <3>2. Remember(d, Next1(d).message)
      BY <1>2, AcceptEffect
    <3> QED
      BY <1>0, <3>1, <3>2 DEF Remember
  <2>4. /\ verdict' \in [Requests -> {None, "accepted", "rejected"}]
        /\ UNCHANGED <<scenario, now, sealed, revoked, table, pending, request, ack,
                       asked, dropped>>
    <3>1. /\ verdict' = [verdict EXCEPT ![Next1(d)] = "accepted"]
          /\ UNCHANGED <<scenario, now, sealed, revoked, table, pending, request, ack,
                         asked, dropped>>
      BY <1>2, AcceptEffect
    <3> QED
      BY <1>0, <3>1
  <2> QED
    BY <2>1, <2>2, <2>3, <2>4 DEF Types
<1>3. CASE Reject(d)
  <2>1. sockets' \in Seq(Socket) /\ 1..Len(sockets') = 1..Len(sockets)
    BY <1>3, RejectEffect, EditTypes
  <2>2. pc' \in PC(Len(sockets'))
    BY <1>0, <1>3, <2>1, RejectEffect, AwayType
  <2>3. /\ verdict' \in [Requests -> {None, "accepted", "rejected"}]
        /\ UNCHANGED <<scenario, now, sealed, revoked, table, pending, request, ack,
                       seen, asked, dropped>>
    <3>1. /\ verdict' = [verdict EXCEPT ![Next1(d)] = "rejected"]
          /\ UNCHANGED <<scenario, now, sealed, revoked, table, pending, request, ack,
                         seen, asked, dropped>>
      BY <1>3, RejectEffect
    <3> QED
      BY <1>0, <3>1
  <2> QED
    BY <2>1, <2>2, <2>3 DEF Types
<1>4. CASE Acknowledge(d)
  <2>1. sockets' \in Seq(Socket) /\ 1..Len(sockets') = 1..Len(sockets)
    <3>1. UNCHANGED sockets \/ \E n, s : Edit(n, s)
      BY <1>4, AcknowledgeEffect
    <3>2. CASE UNCHANGED sockets
      BY <3>2 DEF Types
    <3> QED
      BY <3>1, <3>2, EditTypes
  <2>2. pc' \in PC(Len(sockets'))
    <3>1. PICK at \in {"ask", "raise"} : pc' = [pc EXCEPT ![d].at = at]
      BY <1>4, AcknowledgeEffect
    <3>2. at \in Places /\ pc' \in PC(Len(sockets))
      BY <1>0, <3>1 DEF Places
    <3> QED
      BY <2>1, <3>2
  <2>3. asked' \in [Messages -> Nat]
    <3>1. /\ asked' = [asked EXCEPT ![pc[d].delivery.message] = @ + 1]
          /\ pc[d].delivery \in Requests
      BY <1>4, AcknowledgeEffect
    <3>2. PICK m \in Messages : asked' = [asked EXCEPT ![m] = @ + 1]
      BY <3>1, RelayAssumption
    <3>3. \A x \in Messages : asked'[x] \in Nat
      BY <1>0, <3>2
    <3> QED
      BY <1>0, <3>2, <3>3
  <2>4. UNCHANGED <<scenario, now, sealed, revoked, table, pending, request, ack,
                    seen, verdict, dropped>>
    BY <1>4, AcknowledgeEffect
  <2> QED
    BY <2>1, <2>2, <2>3, <2>4 DEF Types
<1>5. CASE Asked(d) \/ Lost(d)
  <2>1. sockets' \in Seq(Socket) /\ 1..Len(sockets') = 1..Len(sockets)
    <3>1. UNCHANGED sockets \/ \E n, s : Edit(n, s)
      BY <1>5, LeaveEffect
    <3>2. CASE UNCHANGED sockets
      BY <3>2 DEF Types
    <3> QED
      BY <3>1, <3>2, EditTypes
  <2>2. pc' \in PC(Len(sockets'))
    <3>1. \/ pc' = [pc EXCEPT ![d].at = "idle", ![d].delivery = None]
          \/ pc' = [pc EXCEPT ![d] = Away]
      BY <1>5, LeaveEffect
    <3>2. CASE pc' = [pc EXCEPT ![d].at = "idle", ![d].delivery = None]
      BY <1>0, <2>1, <3>2, ZenonT(30) DEF Places
    <3>3. CASE pc' = [pc EXCEPT ![d] = Away]
      BY <1>0, <2>1, <3>3, AwayType
    <3> QED
      BY <3>1, <3>2, <3>3
  <2>3. UNCHANGED <<scenario, now, sealed, revoked, table, pending, request, ack,
                    seen, verdict, asked, dropped>>
    BY <1>5, LeaveEffect
  <2> QED
    BY <2>1, <2>2, <2>3 DEF Types
<1>6. CASE Cancel(d)
  <2>1. sockets' \in Seq(Socket) /\ 1..Len(sockets') = 1..Len(sockets)
    BY <1>6, CancelEffect, EditTypes
  <2>2. pc' \in PC(Len(sockets'))
    BY <1>0, <1>6, <2>1, CancelEffect, AwayType
  <2>3. dropped' \subseteq Messages
    <3>1. pc[d].at = "answer" => pc[d].delivery.message \in Messages
      BY RelayAssumption DEF Receivers
    <3>2. dropped' = IF pc[d].at = "answer" THEN dropped \cup {pc[d].delivery.message}
                                            ELSE dropped
      BY <1>6, CancelEffect
    <3>3. CASE pc[d].at = "answer"
      BY <1>0, <3>1, <3>2, <3>3
    <3> QED
      BY <1>0, <3>2, <3>3
  <2>4. UNCHANGED <<scenario, now, sealed, revoked, table, pending, request, ack,
                    seen, verdict, asked>>
    BY <1>6, CancelEffect
  <2> QED
    BY <2>1, <2>2, <2>3, <2>4 DEF Types
<1> QED
  BY <1>1, <1>2, <1>3, <1>4, <1>5, <1>6

LEMMA TypesNext ==
  ASSUME Types, Receivers, [Next]_vars
  PROVE  Types'
BY TypesQuiet, TypesRelay, TypesReceiver DEF Next

-----------------------------------------------------------------------------
(* Deliveries. *)

(* The deliveries on their way are those of before, without the first ones. *)
Shrinks ==
    \A k \in 1..Len(sockets') : \E o \in Nat : \A i \in 1..Len(sockets'[k].down) :
        /\ k \in 1..Len(sockets) /\ i + o \in 1..Len(sockets[k].down)
        /\ sockets'[k].down[i] = sockets[k].down[i + o]
        /\ sockets'[k].device = sockets[k].device

DownIsFrames ==
    \A n \in 1..Len(sockets) :
        /\ Len(sockets[n].down) \in Nat /\ Len(sockets[n].up) \in Nat
        /\ sockets[n].down \in Seq(Frames(Kinds)) /\ sockets[n].up \in Seq(Frames(Kinds))
        /\ \A i \in 1..Len(sockets[n].down) : sockets[n].down[i].delivery \in Requests
        /\ \A i \in 1..Len(sockets[n].up) : /\ sockets[n].up[i] \in Frames(Kinds)
                                            /\ sockets[n].up[i].delivery \in Requests

LEMMA FramesTyped ==
  ASSUME sockets \in Seq(Socket)
  PROVE  DownIsFrames /\ Len(sockets) \in Nat
<1>1. ASSUME NEW s \in Seq(Frames(Kinds))
      PROVE  /\ Len(s) \in Nat
             /\ \A i \in 1..Len(s) : s[i] \in Frames(Kinds) /\ s[i].delivery \in Requests
  <2>1. Len(s) \in Nat /\ \A i \in 1..Len(s) : s[i] \in Frames(Kinds)
    BY LenProperties, ElementOfSeq
  <2>2. \A f \in Frames(Kinds) : f.delivery \in Requests
    BY DEF Frames
  <2> QED
    BY <2>1, <2>2
<1>2. \A n \in 1..Len(sockets) : /\ sockets[n].down \in Seq(Frames(Kinds))
                                 /\ sockets[n].up \in Seq(Frames(Kinds))
  <2>1. \A n \in 1..Len(sockets) : sockets[n] \in Socket
    BY ElementOfSeq
  <2> QED
    BY <2>1 DEF Socket
<1> QED
  BY <1>1, <1>2 DEF DownIsFrames

LEMMA SameShrinks ==
  ASSUME Types, UNCHANGED sockets
  PROVE  Shrinks
<1>1. ASSUME NEW k \in 1..Len(sockets')
      PROVE  \E o \in Nat : \A i \in 1..Len(sockets'[k].down) :
               /\ k \in 1..Len(sockets) /\ i + o \in 1..Len(sockets[k].down)
               /\ sockets'[k].down[i] = sockets[k].down[i + o]
               /\ sockets'[k].device = sockets[k].device
  <2>1. \A i \in 1..Len(sockets'[k].down) : i + 0 = i
    OBVIOUS
  <2> QED
    BY <2>1
<1> QED
  BY <1>1 DEF Shrinks

LEMMA TailShifts ==
  ASSUME NEW S, NEW s \in Seq(S), s # <<>>
  PROVE  \A i \in 1..Len(Tail(s)) : i + 1 \in 1..Len(s) /\ Tail(s)[i] = s[i + 1]
BY EmptySeq, HeadTailProperties

LEMMA EditShrinks ==
  ASSUME Types, NEW n, NEW s, Edit(n, s), s.device = sockets[n].device,
         \/ s.down = <<>> \/ s.down = sockets[n].down
         \/ s.down = Tail(sockets[n].down) /\ sockets[n].down # <<>>
  PROVE  Shrinks
<1> DEFINE Shift(k, o) == \A i \in 1..Len(sockets'[k].down) :
               /\ k \in 1..Len(sockets) /\ i + o \in 1..Len(sockets[k].down)
               /\ sockets'[k].down[i] = sockets[k].down[i + o]
               /\ sockets'[k].device = sockets[k].device
<1>1. /\ 1..Len(sockets') = 1..Len(sockets) /\ sockets'[n] = s /\ n \in 1..Len(sockets)
      /\ \A k \in 1..Len(sockets) : k # n => sockets'[k] = sockets[k]
  BY EditTypes
<1>2. sockets[n].down \in Seq(Frames(Kinds))
  BY <1>1, FramesTyped DEF Types, DownIsFrames
<1>3. ASSUME NEW k \in 1..Len(sockets), sockets'[k].down = sockets[k].down,
             sockets'[k].device = sockets[k].device
      PROVE  Shift(k, 0)
  <2>1. \A i \in 1..Len(sockets'[k].down) : i + 0 = i
    OBVIOUS
  <2> QED
    BY <1>3, <2>1
<1>4. \A k \in 1..Len(sockets') : \E o \in Nat : Shift(k, o)
  <2> SUFFICES ASSUME NEW k \in 1..Len(sockets') PROVE \E o \in Nat : Shift(k, o)
    OBVIOUS
  <2>1. CASE k # n
    <3>1. Shift(k, 0)
      BY <1>1, <1>3, <2>1
    <3> QED
      BY <3>1
  <2>2. CASE k = n
    <3>1. Shift(n, 0) \/ Shift(n, 1)
      <4>1. CASE s.down = <<>>
        <5>1. Len(sockets'[n].down) = 0
          BY <1>1, <4>1
        <5> QED
          BY <5>1
      <4>2. CASE s.down = sockets[n].down
        BY <1>1, <1>3, <4>2
      <4>3. CASE s.down = Tail(sockets[n].down) /\ sockets[n].down # <<>>
        <5>1. \A i \in 1..Len(s.down) :
                 i + 1 \in 1..Len(sockets[n].down) /\ s.down[i] = sockets[n].down[i + 1]
          BY <1>2, <4>3, TailShifts
        <5> QED
          BY <1>1, <5>1
      <4> QED
        BY <4>1, <4>2, <4>3
    <3> QED
      BY <2>2, <3>1
  <2> QED
    BY <2>1, <2>2
<1> QED
  BY <1>4 DEF Shrinks

LEMMA ShrinksTyped ==
  ASSUME Types, Shrinks
  PROVE  \A k \in 1..Len(sockets') : \A i \in 1..Len(sockets'[k].down) :
           sockets'[k].down[i].delivery \in Requests
<1>1. DownIsFrames
  BY FramesTyped DEF Types
<1> QED
  BY <1>1 DEF Shrinks, DownIsFrames

LEMMA OnlyOne ==
  ASSUME Deliveries, NEW n \in 1..Len(sockets), NEW k \in 1..Len(sockets),
         NEW i \in 1..Len(sockets[n].down), NEW j \in 1..Len(sockets[k].down),
         sockets[n].down[i].delivery = sockets[k].down[j].delivery
  PROVE  n = k /\ i = j
BY DEF Deliveries

SentNext(r) == request'[r] \notin {"unsent", "body"}

(* What a step that sends no delivery has to show. *)
LEMMA DeliveriesShrink ==
  ASSUME Types, Types', Deliveries, Shrinks,
         \A r \in Requests : /\ Sent(r) => SentNext(r)
                             /\ request'[r] # "unsent" => sealed'[r.message] # None
                             /\ ~SentNext(r) => verdict'[r] = None,
         \A k \in 1..Len(sockets') : \A i \in 1..Len(sockets'[k].down) :
           verdict'[sockets'[k].down[i].delivery] = None
  PROVE  Deliveries'
<1>1. DownIsFrames
  BY FramesTyped DEF Types
<1>2. ASSUME NEW k \in 1..Len(sockets'), NEW i \in 1..Len(sockets'[k].down)
      PROVE  LET r == sockets'[k].down[i].delivery IN
             SentNext(r) /\ Owner(r) = sockets'[k].device /\ verdict'[r] = None
  <2>1. PICK o \in Nat : \A j \in 1..Len(sockets'[k].down) :
          /\ k \in 1..Len(sockets) /\ j + o \in 1..Len(sockets[k].down)
          /\ sockets'[k].down[j] = sockets[k].down[j + o]
          /\ sockets'[k].device = sockets[k].device
    BY DEF Shrinks
  <2>2. PICK j \in 1..Len(sockets[k].down) : sockets'[k].down[i] = sockets[k].down[j]
    BY <2>1
  <2>3. sockets[k].down[j].delivery \in Requests
    BY <1>1, <2>1, <2>2 DEF DownIsFrames
  <2>4. /\ Sent(sockets[k].down[j].delivery)
        /\ Owner(sockets[k].down[j].delivery) = sockets[k].device
    BY <2>1, <2>2 DEF Deliveries
  <2> QED
    BY <2>1, <2>2, <2>3, <2>4
<1>3. ASSUME NEW n \in 1..Len(sockets'), NEW k \in 1..Len(sockets'),
             NEW i \in 1..Len(sockets'[n].down), NEW j \in 1..Len(sockets'[k].down),
             sockets'[n].down[i].delivery = sockets'[k].down[j].delivery
      PROVE  n = k /\ i = j
  <2>1. PICK o \in Nat : \A x \in 1..Len(sockets'[n].down) :
          /\ n \in 1..Len(sockets) /\ x + o \in 1..Len(sockets[n].down)
          /\ sockets'[n].down[x] = sockets[n].down[x + o]
    BY DEF Shrinks
  <2>2. PICK p \in Nat : \A x \in 1..Len(sockets'[k].down) :
          /\ k \in 1..Len(sockets) /\ x + p \in 1..Len(sockets[k].down)
          /\ sockets'[k].down[x] = sockets[k].down[x + p]
    BY DEF Shrinks
  <2>3. /\ n \in 1..Len(sockets) /\ k \in 1..Len(sockets)
        /\ i + o \in 1..Len(sockets[n].down) /\ j + p \in 1..Len(sockets[k].down)
        /\ sockets[n].down[i + o].delivery = sockets[k].down[j + p].delivery
    BY <1>3, <2>1, <2>2
  <2>4. n = k
    BY <2>3, OnlyOne
  <2>5. i + o = j + o
    <3>1. j \in 1..Len(sockets'[n].down)
      BY <2>4
    <3>2. /\ i + o \in 1..Len(sockets[n].down) /\ j + o \in 1..Len(sockets[n].down)
          /\ sockets[n].down[i + o].delivery = sockets[n].down[j + o].delivery
      BY <1>3, <2>1, <2>4, <3>1
    <3> QED
      BY <2>3, <3>2, OnlyOne, SMTT(30)
  <2>6. i \in Int /\ j \in Int
    OBVIOUS
  <2> QED
    BY <2>4, <2>5, <2>6
<1>4. \A r \in Requests : /\ request'[r] # "unsent" => sealed'[r.message] # None
                          /\ ~SentNext(r) => verdict'[r] = None
  OBVIOUS
<1> QED
  BY <1>2, <1>3, <1>4 DEF Deliveries, Sent, SentNext

(* The first delivery that a receiver takes off its socket was the only    *)
(* one of its request.                                                     *)
LEMMA TakenIsGone ==
  ASSUME Types, Receivers, Deliveries, NEW d \in Devices, pc[d].at = "idle", Take(d) # <<>>,
         NEW s, Edit(pc[d].socket, s), s.device = sockets[pc[d].socket].device,
         s.down = Tail(sockets[pc[d].socket].down)
  PROVE  /\ Sent(Next1(d)) /\ Owner(Next1(d)) = d /\ verdict[Next1(d)] = None
         /\ Next1(d) \in Requests
         /\ \A k \in 1..Len(sockets') : \A i \in 1..Len(sockets'[k].down) :
              /\ sockets'[k].down[i].delivery # Next1(d)
              /\ verdict[sockets'[k].down[i].delivery] = None
<1> DEFINE n == pc[d].socket
<1>1. n \in 1..Len(sockets) /\ sockets[n].device = d
  BY ReceiverSocket
<1>2. 1 \in 1..Len(sockets[n].down) /\ Next1(d) \in Requests
  BY TakeOne
<1>3. Sent(Next1(d)) /\ Owner(Next1(d)) = d /\ verdict[Next1(d)] = None
  BY <1>1, <1>2 DEF Deliveries, Next1
<1>4. sockets[n].down \in Seq(Frames(Kinds)) /\ sockets[n].down # <<>>
  <2>1. DownIsFrames
    BY FramesTyped DEF Types
  <2> QED
    BY <1>1, <2>1 DEF DownIsFrames, Take
<1>5. ASSUME NEW k \in 1..Len(sockets'), NEW i \in 1..Len(sockets'[k].down)
      PROVE  /\ sockets'[k].down[i].delivery # Next1(d)
             /\ verdict[sockets'[k].down[i].delivery] = None
  <2>1. k \in 1..Len(sockets)
    BY EditTypes
  <2>2. \E j \in 1..Len(sockets[k].down) :
          sockets'[k].down[i] = sockets[k].down[j] /\ (k = n => j # 1)
    <3>1. CASE k = n
      <4>1. i + 1 \in 1..Len(sockets[n].down) /\ sockets'[n].down[i] = sockets[n].down[i + 1]
        <5>1. sockets'[n].down = Tail(sockets[n].down)
          BY EditTypes
        <5> QED
          BY <1>4, <3>1, <5>1, TailShifts
      <4> QED
        BY <3>1, <4>1
    <3>2. CASE k # n
      <4>1. sockets'[k] = sockets[k]
        BY <2>1, <3>2, EditTypes
      <4> QED
        BY <3>2, <4>1
    <3> QED
      BY <3>1, <3>2
  <2>3. PICK j \in 1..Len(sockets[k].down) :
          sockets'[k].down[i] = sockets[k].down[j] /\ (k = n => j # 1)
    BY <2>2
  <2>4. verdict[sockets[k].down[j].delivery] = None
    BY <2>1 DEF Deliveries
  <2>5. sockets[k].down[j].delivery = sockets[n].down[1].delivery => k = n /\ j = 1
    <3>1. PICK x : x = n
      OBVIOUS
    <3>2. x \in 1..Len(sockets) /\ 1 \in 1..Len(sockets[x].down)
      BY <1>1, <1>2, <3>1
    <3>3. sockets[k].down[j].delivery = sockets[x].down[1].delivery => k = x /\ j = 1
      BY <2>1, <3>2, OnlyOne
    <3> QED
      BY <3>1, <3>3
  <2> QED
    BY <2>3, <2>4, <2>5 DEF Next1
<1> QED
  BY <1>2, <1>3, <1>5

(* Steps in which no delivery is sent, taken or judged. *)
LEMMA DeliveriesQuiet ==
  ASSUME Types, Types', Deliveries, Shrinks, UNCHANGED verdict,
         \A r \in Requests : /\ Sent(r) = SentNext(r)
                             /\ request'[r] # "unsent" => sealed'[r.message] # None
  PROVE  Deliveries'
<1>1. \A r \in Requests : ~SentNext(r) => verdict'[r] = None
  BY DEF Deliveries
<1>2. DownIsFrames
  BY FramesTyped DEF Types
<1>3. ASSUME NEW k \in 1..Len(sockets'), NEW i \in 1..Len(sockets'[k].down)
      PROVE  verdict'[sockets'[k].down[i].delivery] = None
  <2>1. PICK o \in Nat : \A j \in 1..Len(sockets'[k].down) :
          /\ k \in 1..Len(sockets) /\ j + o \in 1..Len(sockets[k].down)
          /\ sockets'[k].down[j] = sockets[k].down[j + o]
    BY DEF Shrinks
  <2>2. k \in 1..Len(sockets) /\ i + o \in 1..Len(sockets[k].down)
    BY <2>1
  <2>3. verdict[sockets[k].down[i + o].delivery] = None
    BY <2>2 DEF Deliveries
  <2> QED
    BY <2>1, <2>3
<1> QED
  BY <1>1, <1>3, DeliveriesShrink

LEMMA DeliveriesRelay ==
  ASSUME Types, Types', Deliveries,
         \/ Tick \/ (\E m \in Messages : Revoke(m)) \/ UNCHANGED vars
         \/ \E r \in Requests : \/ Authenticate(r) \/ DeliveryTimeout(r) \/ Respond(r)
                               \/ Verify(r)
         \/ \E n \in 1..Len(sockets) : Break(n) \/ RelayReceives(n) \/ RelayNotices(n)
  PROVE  Deliveries'
<1> DEFINE Ready == \A r \in Requests : request[r] # "unsent" => sealed[r.message] # None
<1>0. Ready
  BY DEF Deliveries
<1>1. ASSUME UNCHANGED <<request, sealed, verdict>>, Shrinks
      PROVE  Deliveries'
  <2>1. \A r \in Requests : /\ Sent(r) = SentNext(r)
                            /\ request'[r] # "unsent" => sealed'[r.message] # None
    BY <1>0, <1>1 DEF Sent, SentNext
  <2> QED
    BY <1>1, <2>1, DeliveriesQuiet
<1>2. ASSUME NEW r \in Requests, NEW a \in Answers \cup {"verify"},
             request[r] \notin {"unsent", "body"}, request' = [request EXCEPT ![r] = a],
             UNCHANGED <<sealed, verdict, sockets>>
      PROVE  Deliveries'
  <2>1. request \in [Requests -> {"unsent", "body", "waiting", "verify"} \cup Answers]
    BY DEF Types
  <2>2. \A q \in Requests : /\ Sent(q) = SentNext(q)
                            /\ request'[q] # "unsent" => sealed'[q.message] # None
    BY <1>0, <1>2, <2>1 DEF Sent, SentNext, Answers
  <2> QED
    BY <1>2, <2>2, SameShrinks, DeliveriesQuiet
<1>3. CASE Tick \/ (\E m \in Messages : Revoke(m)) \/ UNCHANGED vars
  <2>1. UNCHANGED <<request, sealed, verdict, sockets>>
    BY <1>3 DEF Tick, Revoke, vars, phone, local
  <2> QED
    BY <1>1, <2>1, SameShrinks
<1>4. ASSUME NEW r \in Requests, DeliveryTimeout(r) \/ Respond(r) \/ Verify(r)
      PROVE  Deliveries'
  <2>1. PICK a \in Answers \cup {"verify"} : request' = [request EXCEPT ![r] = a]
    BY <1>4 DEF DeliveryTimeout, Respond, Verify, Answer, Answers
  <2>2. /\ request[r] \notin {"unsent", "body"}
        /\ UNCHANGED <<sealed, verdict, sockets>>
    BY <1>4 DEF DeliveryTimeout, Respond, Verify, local
  <2> QED
    BY <1>2, <2>1, <2>2
<1>5. ASSUME NEW r \in Requests, Authenticate(r)
      PROVE  Deliveries'
  <2>1. /\ request[r] = "unsent" /\ Seal(r.message) /\ UNCHANGED <<verdict, sockets>>
        /\ \E a \in {"revoked", "body"} : request' = [request EXCEPT ![r] = a]
    BY <1>5 DEF Authenticate, local
  <2>2. \A m \in Messages : sealed[m] # None => sealed'[m] # None
    BY <2>1 DEF Seal, Types
  <2>3. sealed'[r.message] # None
    <3>1. scenario.skew \in Int /\ now \in Int /\ r.message \in Messages
      BY RelayAssumption DEF Types
    <3>2. sealed \in [Messages -> Int \cup {None}]
      BY DEF Types
    <3> QED
      BY <2>1, <3>1, <3>2, NothingAssumption DEF Seal
  <2>4. \A q \in Requests : request'[q] # "unsent" => sealed'[q.message] # None
    <3> SUFFICES ASSUME NEW q \in Requests, request'[q] # "unsent"
                 PROVE  sealed'[q.message] # None
      OBVIOUS
    <3>1. CASE q = r
      BY <2>3, <3>1
    <3>2. CASE q # r
      <4>1. request[q] # "unsent"
        BY <2>1, <3>2 DEF Types
      <4> QED
        BY <1>0, <2>2, <4>1, RelayAssumption
    <3> QED
      BY <3>1, <3>2
  <2>5. \A q \in Requests : (Sent(q) => SentNext(q)) /\ (~SentNext(q) => ~Sent(q))
    BY <2>1 DEF Sent, SentNext, Types
  <2>6. \A q \in Requests : ~SentNext(q) => verdict'[q] = None
    BY <2>1, <2>5 DEF Deliveries
  <2>7. \A k \in 1..Len(sockets') : \A i \in 1..Len(sockets'[k].down) :
          verdict'[sockets'[k].down[i].delivery] = None
    BY <2>1 DEF Deliveries
  <2> QED
    BY <2>1, <2>4, <2>5, <2>6, <2>7, SameShrinks, DeliveriesShrink
<1>6. ASSUME NEW n \in 1..Len(sockets), Break(n) \/ RelayReceives(n) \/ RelayNotices(n)
      PROVE  Deliveries'
  <2>1. UNCHANGED <<request, sealed, verdict>>
    BY <1>6 DEF Break, RelayReceives, RelayNotices, phone, local
  <2>2. sockets[n] \in Socket
    BY DEF Types
  <2>3. Shrinks
    <3>1. CASE Break(n)
      <4>1. PICK down \in {<<>>, sockets[n].down}, up \in {<<>>, sockets[n].up} :
              Edit(n, [sockets[n] EXCEPT !.broken = TRUE, !.down = down, !.up = up])
        BY <3>1, BreakEdits
      <4> DEFINE s == [sockets[n] EXCEPT !.broken = TRUE, !.down = down, !.up = up]
      <4>2. s.device = sockets[n].device /\ s.down = down
        BY <2>2 DEF Socket
      <4> HIDE DEF s
      <4> QED
        BY <4>1, <4>2, EditShrinks DEF s
    <3>2. CASE RelayReceives(n)
      <4> DEFINE s == [sockets[n] EXCEPT !.up = Tail(@)]
      <4>1. Edit(n, s)
        BY <3>2, ReceiveEdits
      <4>2. s.device = sockets[n].device /\ s.down = sockets[n].down
        BY <2>2 DEF Socket
      <4> HIDE DEF s
      <4> QED
        BY <4>1, <4>2, EditShrinks
    <3>3. CASE RelayNotices(n)
      <4> DEFINE s == [sockets[n] EXCEPT !.serving = FALSE]
      <4>1. Edit(n, s)
        BY <3>3, NoticeEdits
      <4>2. s.device = sockets[n].device /\ s.down = sockets[n].down
        BY <2>2 DEF Socket
      <4> HIDE DEF s
      <4> QED
        BY <4>1, <4>2, EditShrinks
    <3> QED
      BY <1>6, <3>1, <3>2, <3>3
  <2> QED
    BY <1>1, <2>1, <2>3
<1> QED
  BY <1>3, <1>4, <1>5, <1>6

LEMMA DeliveriesForward ==
  ASSUME Types, Types', Deliveries, NewestIsReached, NEW r \in Requests, Forward(r)
  PROVE  Deliveries'
<1> DEFINE n == table[Owner(r)]
           f == Frame("url_message", r)
<1>1. /\ request[r] = "body" /\ verdict' = verdict /\ sealed' = sealed
      /\ request' \in {[request EXCEPT ![r] = "waiting"], [request EXCEPT ![r] = "offline"]}
  BY ForwardEffect
<1>2. request \in [Requests -> {"unsent", "body", "waiting", "verify"} \cup Answers]
  BY DEF Types
<1>3. \A q \in Requests : /\ Sent(q) => SentNext(q)
                          /\ request'[q] # "unsent" => sealed'[q.message] # None
                          /\ ~SentNext(q) => verdict'[q] = None
  BY <1>1, <1>2 DEF Sent, SentNext, Deliveries
<1>4. ~Sent(r) /\ SentNext(r) /\ verdict'[r] = None
  BY <1>1, <1>2 DEF Sent, SentNext, Deliveries
<1>5. CASE UNCHANGED sockets
  <2>1. \A k \in 1..Len(sockets') : \A i \in 1..Len(sockets'[k].down) :
          verdict'[sockets'[k].down[i].delivery] = None
    BY <1>1, <1>5 DEF Deliveries
  <2> QED
    BY <1>3, <1>5, <2>1, SameShrinks, DeliveriesShrink
<1>6. CASE /\ n \in 1..Len(sockets) /\ request' = [request EXCEPT ![r] = "waiting"]
           /\ Edit(n, [sockets[n] EXCEPT !.down = Append(@, f)])
  <2> DEFINE L == Len(sockets[n].down)
  <2>1. DownIsFrames /\ sockets[n] \in Socket
    BY <1>6, FramesTyped DEF Types
  <2>2. f.delivery = r /\ f \in Frames(Kinds)
    BY FrameType DEF Frame, Frames, Kinds
  <2>3. L \in Nat /\ sockets[n].down \in Seq(Frames(Kinds))
    BY <1>6, <2>1 DEF DownIsFrames
  <2>4. /\ 1..Len(sockets') = 1..Len(sockets)
        /\ sockets'[n] = [sockets[n] EXCEPT !.down = Append(@, f)]
        /\ \A k \in 1..Len(sockets) : k # n => sockets'[k] = sockets[k]
    BY <1>6, EditTypes
  <2>5. sockets'[n].down = Append(sockets[n].down, f) /\ sockets'[n].device = sockets[n].device
    BY <2>1, <2>4 DEF Socket
  <2>6. /\ 1..Len(sockets'[n].down) = 1..(L + 1) /\ sockets'[n].down[L + 1] = f
        /\ \A i \in 1..L : sockets'[n].down[i] = sockets[n].down[i]
    BY <2>2, <2>3, <2>5, AppendProperties
  <2>7. sockets[n].device = Owner(r)
    <3>1. Owner(r) \in Devices
      BY RelayAssumption DEF Owner
    <3>2. n # None
      BY <1>6, NothingAssumption
    <3> QED
      BY <3>1, <3>2 DEF NewestIsReached
  <2> HIDE DEF n, f, L
  <2>8. ASSUME NEW k \in 1..Len(sockets), NEW i \in 1..Len(sockets'[k].down)
        PROVE  /\ sockets'[k].device = sockets[k].device
               /\ \/ /\ i \in 1..Len(sockets[k].down)
                     /\ sockets'[k].down[i] = sockets[k].down[i]
                  \/ k = n /\ i = L + 1 /\ sockets'[k].down[i] = f
    <3>1. CASE k # n
      BY <2>4, <3>1
    <3>2. CASE k = n
      <4>1. i \in 1..L \/ i = L + 1
        BY <2>3, <2>6, <3>2
      <4> QED
        BY <2>5, <2>6, <3>2, <4>1 DEF L
    <3> QED
      BY <3>1, <3>2
  <2>9. ASSUME NEW k \in 1..Len(sockets), NEW i \in 1..Len(sockets[k].down)
        PROVE  LET q == sockets[k].down[i].delivery IN
               /\ q \in Requests /\ q # r /\ SentNext(q)
               /\ Owner(q) = sockets[k].device /\ verdict'[q] = None
    <3>1. sockets[k].down[i].delivery \in Requests
      BY <2>1 DEF DownIsFrames
    <3>2. /\ Sent(sockets[k].down[i].delivery)
          /\ Owner(sockets[k].down[i].delivery) = sockets[k].device
          /\ verdict[sockets[k].down[i].delivery] = None
      BY DEF Deliveries
    <3> QED
      BY <1>1, <1>3, <1>4, <3>1, <3>2
  <2>10. ASSUME NEW k \in 1..Len(sockets), NEW i \in 1..Len(sockets'[k].down)
         PROVE  LET q == sockets'[k].down[i].delivery IN
                SentNext(q) /\ Owner(q) = sockets'[k].device /\ verdict'[q] = None
    <3>1. CASE /\ i \in 1..Len(sockets[k].down)
               /\ sockets'[k].down[i] = sockets[k].down[i]
      BY <2>8, <2>9, <3>1
    <3>2. CASE k = n /\ sockets'[k].down[i] = f
      BY <1>4, <2>2, <2>7, <2>8, <3>2
    <3> QED
      BY <2>8, <3>1, <3>2
  <2>11. ASSUME NEW k \in 1..Len(sockets), NEW i \in 1..Len(sockets'[k].down),
                NEW h \in 1..Len(sockets), NEW j \in 1..Len(sockets'[h].down),
                sockets'[k].down[i].delivery = sockets'[h].down[j].delivery
         PROVE  k = h /\ i = j
    <3>1. CASE sockets'[k].down[i].delivery = r
      <4>1. k = n /\ i = L + 1
        BY <2>8, <2>9, <3>1
      <4>2. sockets'[h].down[j].delivery = r
        BY <2>11, <3>1
      <4>3. h = n /\ j = L + 1
        BY <2>8, <2>9, <4>2
      <4> QED
        BY <4>1, <4>3
    <3>2. CASE sockets'[k].down[i].delivery # r
      <4>1. i \in 1..Len(sockets[k].down) /\ sockets'[k].down[i] = sockets[k].down[i]
        BY <2>2, <2>8, <3>2
      <4>2. sockets'[h].down[j].delivery # r
        BY <2>11, <3>2
      <4>3. j \in 1..Len(sockets[h].down) /\ sockets'[h].down[j] = sockets[h].down[j]
        BY <2>2, <2>8, <4>2
      <4>4. sockets[k].down[i].delivery = sockets[h].down[j].delivery
        BY <2>11, <4>1, <4>3
      <4> QED
        BY <4>1, <4>3, <4>4, OnlyOne, SMTT(30)
    <3> QED
      BY <3>1, <3>2
  <2>12. /\ \A k \in 1..Len(sockets') : \A i \in 1..Len(sockets'[k].down) :
              LET q == sockets'[k].down[i].delivery IN
              SentNext(q) /\ Owner(q) = sockets'[k].device /\ verdict'[q] = None
         /\ \A k, h \in 1..Len(sockets') :
              \A i \in 1..Len(sockets'[k].down), j \in 1..Len(sockets'[h].down) :
                sockets'[k].down[i].delivery = sockets'[h].down[j].delivery
                  => k = h /\ i = j
    BY <2>4, <2>10, <2>11, ZenonT(30)
  <2> QED
    BY <1>3, <2>12 DEF Deliveries, Sent, SentNext
<1> QED
  BY <1>5, <1>6, ForwardEffect

LEMMA DeliveriesReceiver ==
  ASSUME Types, Types', Receivers, Deliveries, NEW d \in Devices,
         \/ Connect(d) \/ Accept(d) \/ Reject(d) \/ Acknowledge(d)
         \/ Asked(d) \/ Lost(d) \/ Cancel(d)
  PROVE  Deliveries'
<1> DEFINE n == pc[d].socket
           Quiet == UNCHANGED <<request, sealed>>
<1>1. ASSUME Quiet
      PROVE  \A r \in Requests : /\ Sent(r) = SentNext(r)
                                 /\ request'[r] # "unsent" => sealed'[r.message] # None
  BY <1>1 DEF Sent, SentNext, Deliveries
<1>2. ASSUME Quiet, UNCHANGED verdict, Shrinks
      PROVE  Deliveries'
  BY <1>1, <1>2, DeliveriesQuiet
<1>3. pc[d].at # "off" => n \in 1..Len(sockets) /\ sockets[n] \in Socket
  <2>1. ASSUME pc[d].at # "off" PROVE n \in 1..Len(sockets)
    BY <2>1, ReceiverSocket
  <2> QED
    BY <2>1 DEF Types
<1>4. ASSUME pc[d].at = "idle", Take(d) # <<>>, Quiet, NEW s, Edit(n, s),
             s.device = sockets[n].device, s.down = Tail(sockets[n].down),
             NEW v \in {"accepted", "rejected"}, verdict' = [verdict EXCEPT ![Next1(d)] = v]
      PROVE  Deliveries'
  <2>1. Shrinks
    BY <1>4, EditShrinks DEF Take
  <2>2. /\ Sent(Next1(d)) /\ Next1(d) \in Requests
        /\ \A k \in 1..Len(sockets') : \A i \in 1..Len(sockets'[k].down) :
              /\ sockets'[k].down[i].delivery # Next1(d)
              /\ verdict[sockets'[k].down[i].delivery] = None
    BY <1>4, TakenIsGone
  <2>3. verdict \in [Requests -> {None, "accepted", "rejected"}]
    BY DEF Types
  <2>4. \A k \in 1..Len(sockets') : \A i \in 1..Len(sockets'[k].down) :
          verdict'[sockets'[k].down[i].delivery] = None
    <3>1. \A k \in 1..Len(sockets') : \A i \in 1..Len(sockets'[k].down) :
            sockets'[k].down[i].delivery \in Requests
      BY <2>1, ShrinksTyped
    <3> QED
      BY <1>4, <2>2, <2>3, <3>1
  <2>5. \A r \in Requests : ~SentNext(r) => verdict'[r] = None
    <3>1. \A r \in Requests : ~SentNext(r) => r # Next1(d) /\ verdict[r] = None
      BY <1>1, <1>4, <2>2 DEF Deliveries
    <3> QED
      BY <1>4, <2>3, <3>1
  <2>6. \A r \in Requests : /\ Sent(r) => SentNext(r)
                            /\ request'[r] # "unsent" => sealed'[r.message] # None
    BY <1>1, <1>4
  <2> QED
    BY <2>1, <2>4, <2>5, <2>6, DeliveriesShrink
<1>5. CASE Connect(d)
  <2> DEFINE N == Len(sockets) + 1
  <2>1. /\ Quiet /\ UNCHANGED verdict /\ Len(sockets') = N /\ Len(sockets) \in Nat
        /\ sockets'[N] = NewSocket(d) /\ \A k \in 1..Len(sockets) : sockets'[k] = sockets[k]
    BY <1>5, ConnectEffect, FramesTyped DEF Types
  <2>2. ASSUME NEW k \in 1..Len(sockets')
        PROVE  \E o \in Nat : \A i \in 1..Len(sockets'[k].down) :
                 /\ k \in 1..Len(sockets) /\ i + o \in 1..Len(sockets[k].down)
                 /\ sockets'[k].down[i] = sockets[k].down[i + o]
                 /\ sockets'[k].device = sockets[k].device
    <3>1. CASE k = N
      <4>1. Len(sockets'[k].down) = 0
        BY <2>1, <3>1 DEF NewSocket
      <4> QED
        BY <4>1
    <3>2. CASE k # N
      <4>1. k \in 1..Len(sockets) /\ sockets'[k] = sockets[k]
        BY <2>1, <3>2
      <4>2. \A i \in 1..Len(sockets'[k].down) : i + 0 = i
        OBVIOUS
      <4> QED
        BY <4>1, <4>2
    <3> QED
      BY <3>1, <3>2
  <2>3. Shrinks
    BY <2>2 DEF Shrinks
  <2> QED
    BY <1>2, <2>1, <2>3
<1>6. CASE Accept(d)
  <2> DEFINE s == [sockets[n] EXCEPT !.down = Tail(@)]
  <2>1. /\ pc[d].at = "idle" /\ Take(d) # <<>> /\ Edit(n, s) /\ Quiet
        /\ verdict' = [verdict EXCEPT ![Next1(d)] = "accepted"]
    BY <1>6, AcceptEffect
  <2>2. s.device = sockets[n].device /\ s.down = Tail(sockets[n].down)
    BY <1>3, <2>1 DEF Socket
  <2> HIDE DEF s
  <2> QED
    BY <1>4, <2>1, <2>2
<1>7. CASE Reject(d)
  <2>1. /\ pc[d].at = "idle" /\ Take(d) # <<>> /\ Quiet
        /\ verdict' = [verdict EXCEPT ![Next1(d)] = "rejected"]
    BY <1>7, RejectEffect
  <2>2. \E s : /\ Edit(n, s) /\ s.device = sockets[n].device
               /\ s.down = Tail(sockets[n].down)
    <3>1. \/ Edit(n, [sockets[n] EXCEPT !.down = Tail(@)])
          \/ Edit(n, [sockets[n] EXCEPT !.down = Tail(@),
                                        !.up = Append(@, Rejection(Next1(d)))])
          \/ Edit(n, [sockets[n] EXCEPT !.down = Tail(@), !.open = FALSE])
      BY <1>7, RejectEffect
    <3>2. ASSUME NEW f, NEW o
          PROVE  LET s == [sockets[n] EXCEPT !.down = Tail(@), !.up = f, !.open = o]
                 IN s.device = sockets[n].device /\ s.down = Tail(sockets[n].down)
      BY <1>3, <2>1 DEF Socket
    <3>3. PICK f, o : Edit(n, [sockets[n] EXCEPT !.down = Tail(@), !.up = f, !.open = o])
      <4>1. /\ [sockets[n] EXCEPT !.down = Tail(@)]
                 = [sockets[n] EXCEPT !.down = Tail(@), !.up = sockets[n].up,
                                      !.open = sockets[n].open]
            /\ [sockets[n] EXCEPT !.down = Tail(@), !.open = FALSE]
                 = [sockets[n] EXCEPT !.down = Tail(@), !.up = sockets[n].up,
                                      !.open = FALSE]
            /\ \A f : [sockets[n] EXCEPT !.down = Tail(@), !.up = f]
                 = [sockets[n] EXCEPT !.down = Tail(@), !.up = f,
                                      !.open = sockets[n].open]
        BY <1>3, <2>1 DEF Socket
      <4> QED
        BY <3>1, <4>1, ZenonT(30)
    <3> QED
      BY <3>2, <3>3
  <2> QED
    BY <1>4, <2>1, <2>2
<1>8. CASE Acknowledge(d) \/ Asked(d) \/ Lost(d) \/ Cancel(d)
  <2>1. Quiet /\ UNCHANGED verdict /\ pc[d].at # "off"
    BY <1>8, AcknowledgeEffect, LeaveEffect, CancelEffect
  <2>2. \/ UNCHANGED sockets
        \/ \E s : Edit(n, s) /\ s.device = sockets[n].device /\ s.down = sockets[n].down
    <3>1. \/ UNCHANGED sockets
          \/ Edit(n, [sockets[n] EXCEPT !.open = FALSE])
          \/ \E f : Edit(n, [sockets[n] EXCEPT !.up = f])
          \/ \E f : Edit(n, [sockets[n] EXCEPT !.open = FALSE, !.up = f])
      BY <1>8, AcknowledgeEffect, LeaveEffect, CancelEffect
    <3>2. ASSUME NEW f
          PROVE  \A s \in {[sockets[n] EXCEPT !.open = FALSE], [sockets[n] EXCEPT !.up = f],
                           [sockets[n] EXCEPT !.open = FALSE, !.up = f]} :
                   s.device = sockets[n].device /\ s.down = sockets[n].down
      BY <1>3, <2>1 DEF Socket
    <3> QED
      BY <3>1, <3>2
  <2>3. Shrinks
    BY <2>2, SameShrinks, EditShrinks
  <2> QED
    BY <1>2, <2>1, <2>3
<1> QED
  BY <1>5, <1>6, <1>7, <1>8

LEMMA DeliveriesNext ==
  ASSUME Types, Types', Receivers, Deliveries, NewestIsReached, [Next]_vars
  PROVE  Deliveries'
BY DeliveriesRelay, DeliveriesForward, DeliveriesReceiver DEF Next

-----------------------------------------------------------------------------
(* Verdicts and replies. *)

(* What the PC made of a request, once, stays. *)
VerdictStays == \A r \in Requests : verdict[r] # None => verdict'[r] = verdict[r]

LEMMA NextIsNew ==
  ASSUME Types, Receivers, Deliveries, NEW d \in Devices, pc[d].at = "idle", Take(d) # <<>>
  PROVE  Next1(d) \in Requests /\ Owner(Next1(d)) = d /\ verdict[Next1(d)] = None
<1> DEFINE n == pc[d].socket
<1>1. n \in 1..Len(sockets) /\ sockets[n].device = d
  BY ReceiverSocket
<1>2. 1 \in 1..Len(sockets[n].down) /\ Next1(d) \in Requests
  BY TakeOne
<1> QED
  BY <1>1, <1>2 DEF Deliveries, Next1

LEMMA VerdictNext ==
  ASSUME Types, Receivers, Deliveries, [Next]_vars
  PROVE  VerdictStays
<1>1. ASSUME NEW d \in Devices, Accept(d) \/ Reject(d)
      PROVE  VerdictStays
  <2>1. /\ pc[d].at = "idle" /\ Take(d) # <<>>
        /\ \E v : verdict' = [verdict EXCEPT ![Next1(d)] = v]
    BY <1>1, AcceptEffect, RejectEffect
  <2>2. Next1(d) \in Requests /\ verdict[Next1(d)] = None
    BY <2>1, NextIsNew
  <2>3. verdict \in [Requests -> {None, "accepted", "rejected"}]
    BY DEF Types
  <2> QED
    BY <2>1, <2>2, <2>3 DEF VerdictStays
<1>2. CASE UNCHANGED verdict
  BY <1>2 DEF VerdictStays
<1>3. ASSUME NEW d \in Devices,
             Connect(d) \/ Acknowledge(d) \/ Asked(d) \/ Lost(d) \/ Cancel(d)
      PROVE  UNCHANGED verdict
  BY <1>3 DEF Connect, Acknowledge, Asked, Lost, Cancel, local
<1>4. ASSUME NEW r \in Requests,
             Authenticate(r) \/ Forward(r) \/ DeliveryTimeout(r) \/ Respond(r) \/ Verify(r)
      PROVE  UNCHANGED verdict
  BY <1>4 DEF Authenticate, Forward, DeliveryTimeout, Respond, Verify, local
<1>5. ASSUME NEW n \in 1..Len(sockets), Break(n) \/ RelayReceives(n) \/ RelayNotices(n)
      PROVE  UNCHANGED verdict
  BY <1>5 DEF Break, RelayReceives, RelayNotices, local
<1>6. ASSUME Tick \/ (\E m \in Messages : Revoke(m)) \/ UNCHANGED vars
      PROVE  UNCHANGED verdict
  BY <1>6 DEF Tick, Revoke, vars, local
<1> QED
  BY <1>1, <1>2, <1>3, <1>4, <1>5, <1>6 DEF Next

JudgedNext(f) == \/ f.kind = "delivery_ack" /\ verdict'[f.delivery] = "accepted"
                 \/ f.kind = "delivery_error" /\ verdict'[f.delivery] = "rejected"

LEMMA JudgedStays ==
  ASSUME VerdictStays, NEW f, f.delivery \in Requests, Judged(f)
  PROVE  JudgedNext(f)
BY NothingAssumption DEF VerdictStays, Judged, JudgedNext

(* The answers on their way, before and after a step. *)
Ups == \A n \in 1..Len(sockets) : \A i \in 1..Len(sockets[n].up) : Judged(sockets[n].up[i])
UpsNext == \A n \in 1..Len(sockets') : \A i \in 1..Len(sockets'[n].up) :
             JudgedNext(sockets'[n].up[i])

LEMMA SameUps ==
  ASSUME Types, Ups, VerdictStays, UNCHANGED sockets
  PROVE  UpsNext
<1>1. DownIsFrames
  BY FramesTyped DEF Types
<1>2. ASSUME NEW n \in 1..Len(sockets), NEW i \in 1..Len(sockets[n].up)
      PROVE  JudgedNext(sockets[n].up[i])
  <2>1. sockets[n].up[i].delivery \in Requests /\ Judged(sockets[n].up[i])
    BY <1>1 DEF DownIsFrames, Ups
  <2> QED
    BY <2>1, JudgedStays
<1> QED
  BY <1>2 DEF UpsNext

LEMMA EditUps ==
  ASSUME Types, Ups, VerdictStays, NEW n, NEW s, Edit(n, s),
         \/ s.up = <<>> \/ s.up = sockets[n].up
         \/ s.up = Tail(sockets[n].up) /\ sockets[n].up # <<>>
         \/ \E f \in Frames(Kinds) : JudgedNext(f) /\ s.up = Append(sockets[n].up, f)
  PROVE  UpsNext
<1>1. DownIsFrames
  BY FramesTyped DEF Types
<1>2. /\ 1..Len(sockets') = 1..Len(sockets) /\ sockets'[n] = s /\ n \in 1..Len(sockets)
      /\ \A k \in 1..Len(sockets) : k # n => sockets'[k] = sockets[k]
  BY EditTypes
<1>3. ASSUME NEW k \in 1..Len(sockets), NEW i \in 1..Len(sockets[k].up)
      PROVE  JudgedNext(sockets[k].up[i])
  <2>1. sockets[k].up[i].delivery \in Requests /\ Judged(sockets[k].up[i])
    BY <1>1 DEF DownIsFrames, Ups
  <2> QED
    BY <2>1, JudgedStays
<1>4. sockets[n].up \in Seq(Frames(Kinds))
  BY <1>1, <1>2 DEF DownIsFrames
<1>5. ASSUME NEW i \in 1..Len(s.up)
      PROVE  JudgedNext(s.up[i])
  <2>1. CASE s.up = <<>>
    BY <2>1
  <2>2. CASE s.up = sockets[n].up
    BY <1>2, <1>3, <2>2
  <2>3. CASE s.up = Tail(sockets[n].up) /\ sockets[n].up # <<>>
    <3>1. i + 1 \in 1..Len(sockets[n].up) /\ s.up[i] = sockets[n].up[i + 1]
      BY <1>4, <2>3, TailShifts
    <3> QED
      BY <1>2, <1>3, <3>1
  <2>4. ASSUME NEW f \in Frames(Kinds), JudgedNext(f), s.up = Append(sockets[n].up, f)
        PROVE  JudgedNext(s.up[i])
    <3>1. \/ i \in 1..Len(sockets[n].up) /\ s.up[i] = sockets[n].up[i]
          \/ s.up[i] = f
      BY <1>4, <2>4, AppendProperties
    <3> QED
      BY <1>2, <1>3, <2>4, <3>1
  <2> QED
    BY <2>1, <2>2, <2>3, <2>4
<1> QED
  BY <1>2, <1>3, <1>5 DEF UpsNext

LEMMA UpsRelay ==
  ASSUME Types, Ups, VerdictStays,
         \/ Tick \/ (\E m \in Messages : Revoke(m)) \/ UNCHANGED vars
         \/ \E r \in Requests : \/ Authenticate(r) \/ Forward(r) \/ DeliveryTimeout(r)
                                \/ Respond(r) \/ Verify(r)
         \/ \E n \in 1..Len(sockets) : Break(n) \/ RelayReceives(n) \/ RelayNotices(n)
  PROVE  UpsNext
<1>1. CASE \/ Tick \/ (\E m \in Messages : Revoke(m)) \/ UNCHANGED vars
           \/ \E r \in Requests : \/ Authenticate(r) \/ DeliveryTimeout(r)
                                  \/ Respond(r) \/ Verify(r)
  <2>1. UNCHANGED sockets
    BY <1>1 DEF Tick, Revoke, vars, Authenticate, DeliveryTimeout, Respond, Verify
  <2> QED
    BY <2>1, SameUps
<1>2. ASSUME NEW r \in Requests, Forward(r)
      PROVE  UpsNext
  <2>1. \/ UNCHANGED sockets
        \/ \E n \in 1..Len(sockets) :
             Edit(n, [sockets[n] EXCEPT !.down = Append(@, Frame("url_message", r))])
    BY <1>2, ForwardEffect
  <2>2. ASSUME NEW n \in 1..Len(sockets), NEW x
        PROVE  [sockets[n] EXCEPT !.down = x].up = sockets[n].up
    <3>1. sockets[n] \in Socket
      BY DEF Types
    <3> QED
      BY <3>1 DEF Socket
  <2> QED
    BY <2>1, <2>2, SameUps, EditUps
<1>3. ASSUME NEW n \in 1..Len(sockets), Break(n) \/ RelayReceives(n) \/ RelayNotices(n)
      PROVE  UpsNext
  <2>1. sockets[n] \in Socket
    BY DEF Types
  <2>2. CASE Break(n)
    <3>1. PICK down \in {<<>>, sockets[n].down}, up \in {<<>>, sockets[n].up} :
            Edit(n, [sockets[n] EXCEPT !.broken = TRUE, !.down = down, !.up = up])
      BY <2>2, BreakEdits
    <3>2. [sockets[n] EXCEPT !.broken = TRUE, !.down = down, !.up = up].up = up
      BY <2>1 DEF Socket
    <3> QED
      BY <3>1, <3>2, EditUps
  <2>3. CASE RelayReceives(n)
    <3>1. [sockets[n] EXCEPT !.up = Tail(@)].up = Tail(sockets[n].up)
      BY <2>1 DEF Socket
    <3>2. sockets[n].up # <<>>
      BY <2>3 DEF RelayReceives
    <3> QED
      BY <2>3, <3>1, <3>2, ReceiveEdits, EditUps
  <2>4. CASE RelayNotices(n)
    <3>1. [sockets[n] EXCEPT !.serving = FALSE].up = sockets[n].up
      BY <2>1 DEF Socket
    <3> QED
      BY <2>4, <3>1, NoticeEdits, EditUps
  <2> QED
    BY <1>3, <2>2, <2>3, <2>4
<1> QED
  BY <1>1, <1>2, <1>3

(* What the relay holds for request r, and what its phone was told. *)
Answered(r) ==
    /\ pending[r] # None =>
         pending[r].delivery = r /\ (pending[r].kind \in Futures \/ Judged(pending[r]))
    /\ request[r] = "waiting" => pending[r] # None
    /\ request[r] \in {"verify", "delivered"} => verdict[r] = "accepted"
    /\ request[r] = "rejected" => verdict[r] = "rejected"

AnsweredNext(r) ==
    /\ pending'[r] # None =>
         pending'[r].delivery = r
         /\ (pending'[r].kind \in Futures \/ JudgedNext(pending'[r]))
    /\ request'[r] = "waiting" => pending'[r] # None
    /\ request'[r] \in {"verify", "delivered"} => verdict'[r] = "accepted"
    /\ request'[r] = "rejected" => verdict'[r] = "rejected"

LEMMA SameAnswer ==
  ASSUME VerdictStays, NEW r \in Requests, Answered(r),
         pending'[r] = pending[r], request'[r] = request[r]
  PROVE  AnsweredNext(r)
<1>1. CASE pending[r] # None
  BY <1>1, JudgedStays, NothingAssumption DEF Answered, AnsweredNext, VerdictStays
<1>2. CASE pending[r] = None
  BY <1>2, NothingAssumption DEF Answered, AnsweredNext, VerdictStays
<1> QED
  BY <1>1, <1>2

LEMMA AnswersPhone ==
  ASSUME Types, VerdictStays, \A r \in Requests : Answered(r),
         NEW r \in Requests, \/ Authenticate(r) \/ Forward(r) \/ DeliveryTimeout(r)
                            \/ Respond(r) \/ Verify(r)
  PROVE  \A q \in Requests : AnsweredNext(q)
<1>0. /\ request \in [Requests -> {"unsent", "body", "waiting", "verify"} \cup Answers]
      /\ pending \in [Requests -> {None} \cup Frames(Kinds \cup Futures)]
      /\ Answered(r)
  BY DEF Types
<1>1. UNCHANGED verdict
  BY DEF Authenticate, Forward, DeliveryTimeout, Respond, Verify, local
<1>2. ASSUME NEW q \in Requests, q # r
      PROVE  AnsweredNext(q)
  <2>1. request'[q] = request[q] /\ pending'[q] = pending[q]
    BY <1>0, <1>2 DEF Authenticate, Forward, DeliveryTimeout, Respond, Verify, Answer, relay
  <2> QED
    BY <2>1, SameAnswer
<1>3. AnsweredNext(r)
  <2>1. CASE Authenticate(r)
    <3>1. UNCHANGED pending /\ request'[r] \in {"revoked", "body"}
      BY <1>0, <2>1 DEF Authenticate, relay
    <3>2. pending'[r] # None => /\ pending'[r].delivery = r
                                /\ pending'[r].kind \in Futures \/ JudgedNext(pending'[r])
      BY <1>0, <1>1, <3>1 DEF Answered, Judged, JudgedNext
    <3> QED
      BY <3>1, <3>2 DEF AnsweredNext
  <2>2. CASE Forward(r)
    <3>1. Frame("waiting", r) \in Frames(Kinds \cup Futures)
      BY FrameType DEF Frames, Futures
    <3>2. \/ pending'[r] = Frame("waiting", r) /\ request'[r] = "waiting"
          \/ pending'[r] = pending[r] /\ request'[r] = "offline"
      BY <1>0, <2>2 DEF Forward
    <3>3. CASE pending'[r] = Frame("waiting", r) /\ request'[r] = "waiting"
      BY <3>1, <3>3, NothingAssumption DEF AnsweredNext, Frame, Futures
    <3>4. CASE pending'[r] = pending[r] /\ request'[r] = "offline"
      BY <1>0, <1>1, <3>4 DEF Answered, AnsweredNext, Judged, JudgedNext
    <3> QED
      BY <3>2, <3>3, <3>4
  <2>3. CASE DeliveryTimeout(r)
    BY <1>0, <2>3 DEF DeliveryTimeout, Answer, AnsweredNext
  <2>4. CASE Respond(r)
    <3>1. /\ pending'[r] = None /\ pending[r] # None
          /\ \/ request'[r] = "offline"
             \/ pending[r].kind = "delivery_error" /\ request'[r] = "rejected"
             \/ pending[r].kind = "delivery_ack" /\ request'[r] = "verify"
      BY <1>0, <2>4 DEF Respond, Answer, Answered
    <3>2. /\ pending[r].kind = "delivery_error" => verdict[r] = "rejected"
          /\ pending[r].kind = "delivery_ack" => verdict[r] = "accepted"
      BY <1>0, <3>1 DEF Answered, Judged, Futures
    <3> QED
      BY <1>1, <3>1, <3>2 DEF AnsweredNext
  <2>5. CASE Verify(r)
    <3>1. /\ UNCHANGED pending /\ request[r] = "verify"
          /\ request'[r] \in {"delivered", "unverified"}
      BY <1>0, <2>5 DEF Verify, Answer, relay
    <3>2. pending'[r] # None => /\ pending'[r].delivery = r
                                /\ pending'[r].kind \in Futures \/ JudgedNext(pending'[r])
      BY <1>0, <1>1, <3>1 DEF Answered, Judged, JudgedNext
    <3> QED
      BY <1>0, <1>1, <3>1, <3>2 DEF Answered, AnsweredNext
  <2> QED
    BY <2>1, <2>2, <2>3, <2>4, <2>5
<1> QED
  BY <1>2, <1>3

LEMMA AnswersRelay ==
  ASSUME Types, VerdictStays, Ups, \A r \in Requests : Answered(r),
         NEW n \in 1..Len(sockets), Break(n) \/ RelayReceives(n) \/ RelayNotices(n)
  PROVE  \A q \in Requests : AnsweredNext(q)
<1> SUFFICES ASSUME NEW q \in Requests PROVE AnsweredNext(q)
  OBVIOUS
<1>0. pending[q] \in {None} \cup Frames(Kinds \cup Futures) /\ Answered(q)
  BY DEF Types
<1>1. request'[q] = request[q] /\ UNCHANGED verdict
  BY DEF Break, RelayReceives, RelayNotices, phone, local
<1>2. CASE Break(n)
  BY <1>0, <1>1, <1>2, SameAnswer DEF Break, relay
<1>3. CASE RelayReceives(n)
  <2> DEFINE f == Head(sockets[n].up)
  <2>1. \/ pending'[q] = pending[q]
        \/ pending'[q] = f /\ f.delivery = q /\ pending[q] # None
    BY <1>3 DEF RelayReceives, Resolved, Waits
  <2>2. Judged(f) /\ f \in Frames(Kinds)
    <3>1. DownIsFrames
      BY FramesTyped DEF Types
    <3>2. sockets[n].up \in Seq(Frames(Kinds)) /\ sockets[n].up # <<>>
      BY <1>3, <3>1 DEF RelayReceives, DownIsFrames
    <3>3. 1 \in 1..Len(sockets[n].up) /\ f = sockets[n].up[1]
      BY <3>2, EmptySeq, HeadTailProperties
    <3> QED
      BY <3>1, <3>3 DEF Ups, DownIsFrames
  <2> HIDE DEF f
  <2>3. CASE pending'[q] = pending[q]
    BY <1>0, <1>1, <2>3, SameAnswer
  <2>4. CASE pending'[q] = f /\ f.delivery = q /\ pending[q] # None
    <3>1. f # None
      BY <2>2, NothingAssumption DEF Frames
    <3>2. JudgedNext(pending'[q])
      BY <1>1, <2>2, <2>4 DEF Judged, JudgedNext
    <3> QED
      BY <1>0, <1>1, <2>4, <3>1, <3>2 DEF Answered, AnsweredNext
  <2> QED
    BY <2>1, <2>3, <2>4
<1>4. CASE RelayNotices(n)
  <2>1. \/ pending'[q] = pending[q]
        \/ pending[q] # None /\ pending'[q] = [pending[q] EXCEPT !.kind = "broken"]
    BY <1>4 DEF RelayNotices, Waits
  <2>2. CASE pending'[q] = pending[q]
    BY <1>0, <1>1, <2>2, SameAnswer
  <2>3. CASE pending[q] # None /\ pending'[q] = [pending[q] EXCEPT !.kind = "broken"]
    <3>1. /\ pending'[q] \in Frames(Kinds \cup Futures) /\ pending'[q].kind = "broken"
          /\ pending'[q].delivery = pending[q].delivery
      BY <1>0, <2>3 DEF Frames, Futures
    <3>2. pending'[q] # None
      BY <3>1, NothingAssumption
    <3>3. pending'[q].delivery = q /\ pending'[q].kind \in Futures
      BY <1>0, <2>3, <3>1 DEF Answered, Futures
    <3> QED
      BY <1>0, <1>1, <2>3, <3>2, <3>3 DEF Answered, AnsweredNext
  <2> QED
    BY <2>1, <2>2, <2>3
<1> QED
  BY <1>2, <1>3, <1>4

LEMMA UpsReceiver ==
  ASSUME Types, Receivers, Deliveries, Ups, VerdictStays, NEW d \in Devices,
         \/ Connect(d) \/ Accept(d) \/ Reject(d) \/ Acknowledge(d)
         \/ Asked(d) \/ Lost(d) \/ Cancel(d)
  PROVE  UpsNext
<1> DEFINE n == pc[d].socket
<1>1. pc[d].at # "off" => n \in 1..Len(sockets) /\ sockets[n] \in Socket
  <2>1. ASSUME pc[d].at # "off" PROVE n \in 1..Len(sockets)
    BY <2>1, ReceiverSocket
  <2> QED
    BY <2>1 DEF Types
<1>2. CASE Connect(d)
  <2> DEFINE N == Len(sockets) + 1
  <2>1. /\ Len(sockets') = N /\ Len(sockets) \in Nat /\ UNCHANGED verdict
        /\ sockets'[N] = NewSocket(d) /\ \A k \in 1..Len(sockets) : sockets'[k] = sockets[k]
    BY <1>2, ConnectEffect, FramesTyped DEF Types
  <2>2. Len(sockets'[N].up) = 0
    BY <2>1 DEF NewSocket
  <2>3. ASSUME NEW k \in 1..Len(sockets'), NEW i \in 1..Len(sockets'[k].up)
        PROVE  JudgedNext(sockets'[k].up[i])
    <3>1. k \in 1..Len(sockets) /\ sockets'[k] = sockets[k]
      BY <2>1, <2>2
    <3> QED
      BY <2>1, <3>1 DEF Ups, Judged, JudgedNext
  <2> QED
    BY <2>3 DEF UpsNext
<1>3. CASE Accept(d)
  <2>1. pc[d].at # "off" /\ Edit(n, [sockets[n] EXCEPT !.down = Tail(@)])
    BY <1>3, AcceptEffect
  <2>2. [sockets[n] EXCEPT !.down = Tail(@)].up = sockets[n].up
    BY <1>1, <2>1 DEF Socket
  <2> QED
    BY <2>1, <2>2, EditUps
<1>4. CASE Reject(d)
  <2>1. /\ pc[d].at = "idle" /\ Take(d) # <<>>
        /\ verdict' = [verdict EXCEPT ![Next1(d)] = "rejected"]
        /\ \/ Edit(n, [sockets[n] EXCEPT !.down = Tail(@)])
           \/ Edit(n, [sockets[n] EXCEPT !.down = Tail(@),
                                         !.up = Append(@, Rejection(Next1(d)))])
           \/ Edit(n, [sockets[n] EXCEPT !.down = Tail(@), !.open = FALSE])
    BY <1>4, RejectEffect
  <2>2. Next1(d) \in Requests
    BY <2>1, NextIsNew
  <2>3. Rejection(Next1(d)) \in Frames(Kinds)
    BY <2>2, FrameType DEF Rejection, Frames, Kinds
  <2>4. JudgedNext(Rejection(Next1(d)))
    <3>1. verdict'[Next1(d)] = "rejected"
      BY <2>1, <2>2 DEF Types
    <3> QED
      BY <3>1 DEF JudgedNext, Rejection, Frame
  <2>5. /\ [sockets[n] EXCEPT !.down = Tail(@)].up = sockets[n].up
        /\ [sockets[n] EXCEPT !.down = Tail(@), !.open = FALSE].up = sockets[n].up
        /\ \A f : [sockets[n] EXCEPT !.down = Tail(@), !.up = f].up = f
    BY <1>1, <2>1 DEF Socket
  <2> QED
    BY <2>1, <2>3, <2>4, <2>5, EditUps
<1>5. CASE Acknowledge(d) \/ Asked(d) \/ Lost(d) \/ Cancel(d)
  <2>1. /\ pc[d].at # "off" /\ UNCHANGED verdict
        /\ \/ UNCHANGED sockets
           \/ Edit(n, [sockets[n] EXCEPT !.open = FALSE])
           \/ /\ pc[d].at = "answer"
              /\ \/ Edit(n, [sockets[n] EXCEPT
                               !.up = Append(@, Acknowledgement(pc[d].delivery))])
                 \/ Edit(n, [sockets[n] EXCEPT !.open = FALSE,
                               !.up = Append(@, Acknowledgement(pc[d].delivery))])
    BY <1>5, AcknowledgeEffect, LeaveEffect, CancelEffect
  <2>2. pc[d].at = "answer" => /\ Acknowledgement(pc[d].delivery) \in Frames(Kinds)
                               /\ JudgedNext(Acknowledgement(pc[d].delivery))
    BY <2>1, AnswerIsFrame DEF Receivers, JudgedNext, Acknowledgement, Frame
  <2>3. /\ [sockets[n] EXCEPT !.open = FALSE].up = sockets[n].up
        /\ \A f : /\ [sockets[n] EXCEPT !.up = f].up = f
                  /\ [sockets[n] EXCEPT !.open = FALSE, !.up = f].up = f
    BY <1>1, <2>1 DEF Socket
  <2> QED
    BY <2>1, <2>2, <2>3, SameUps, EditUps
<1> QED
  BY <1>2, <1>3, <1>4, <1>5

LEMMA RepliesNext ==
  ASSUME Types, Receivers, Deliveries, Replies, [Next]_vars
  PROVE  Replies'
<1>1. Ups /\ (\A r \in Requests : Answered(r)) /\ VerdictStays
  BY VerdictNext DEF Replies, Ups, Answered
<1>2. UpsNext
  BY <1>1, UpsRelay, UpsReceiver DEF Next
<1>3. \A r \in Requests : AnsweredNext(r)
  <2>1. ASSUME UNCHANGED <<pending, request>>
        PROVE  \A r \in Requests : AnsweredNext(r)
    BY <1>1, <2>1, SameAnswer
  <2>2. CASE Tick \/ (\E m \in Messages : Revoke(m)) \/ UNCHANGED vars
    BY <2>1, <2>2 DEF Tick, Revoke, vars, relay, phone
  <2>3. CASE \E d \in Devices : \/ Connect(d) \/ Accept(d) \/ Reject(d) \/ Acknowledge(d)
                                \/ Asked(d) \/ Lost(d) \/ Cancel(d)
    <3>1. UNCHANGED <<pending, request>>
      BY <2>3 DEF Connect, Accept, Reject, Acknowledge, Asked, Lost, Cancel, relay, phone
    <3> QED
      BY <2>1, <3>1
  <2> QED
    BY <1>1, <2>2, <2>3, AnswersPhone, AnswersRelay DEF Next
<1> QED
  BY <1>2, <1>3 DEF Replies, UpsNext, AnsweredNext, Judged, JudgedNext

-----------------------------------------------------------------------------
(* Receivers and the table. *)

(* Socket s is socket t with nothing opened again or mended. *)
Worn(s, t) ==
    s.device = t.device /\ s.serving = t.serving /\ (s.open => t.open) /\ (t.broken => s.broken)

Keeps ==
    /\ 1..Len(sockets') = 1..Len(sockets) /\ table' = table
    /\ \A n \in 1..Len(sockets) : Worn(sockets'[n], sockets[n])
    /\ \A d \in Devices : pc'[d].at # "off" => pc[d].at # "off" /\ pc'[d].socket = pc[d].socket

LEMMA SocketsKeep ==
  ASSUME Types, UNCHANGED sockets \/ \E n, s : Edit(n, s) /\ Worn(s, sockets[n])
  PROVE  /\ 1..Len(sockets') = 1..Len(sockets)
         /\ \A n \in 1..Len(sockets) : Worn(sockets'[n], sockets[n])
<1>1. \A n \in 1..Len(sockets) : Worn(sockets[n], sockets[n])
  BY DEF Worn
<1>2. CASE UNCHANGED sockets
  BY <1>1, <1>2
<1>3. ASSUME NEW n, NEW s, Edit(n, s), Worn(s, sockets[n])
      PROVE  /\ 1..Len(sockets') = 1..Len(sockets)
             /\ \A k \in 1..Len(sockets) : Worn(sockets'[k], sockets[k])
  BY <1>1, <1>3, EditTypes
<1> QED
  BY <1>2, <1>3

LEMMA WornForms ==
  ASSUME NEW t \in Socket
  PROVE  \A x, y :
           /\ Worn([t EXCEPT !.down = x], t) /\ Worn([t EXCEPT !.up = x], t)
           /\ Worn([t EXCEPT !.open = FALSE], t)
           /\ Worn([t EXCEPT !.down = x, !.up = y], t)
           /\ Worn([t EXCEPT !.down = x, !.open = FALSE], t)
           /\ Worn([t EXCEPT !.open = FALSE, !.up = x], t)
           /\ Worn([t EXCEPT !.broken = TRUE, !.down = x, !.up = y], t)
BY DEF Worn, Socket

LEMMA PhoneKeeps ==
  ASSUME Types,
         \/ Tick \/ (\E m \in Messages : Revoke(m)) \/ UNCHANGED vars
         \/ \E r \in Requests : \/ Authenticate(r) \/ Forward(r) \/ DeliveryTimeout(r)
                                \/ Respond(r) \/ Verify(r)
         \/ \E n \in 1..Len(sockets) : Break(n) \/ RelayReceives(n)
  PROVE  Keeps /\ UNCHANGED pc
<1>1. UNCHANGED <<table, pc>>
  BY DEF Tick, Revoke, vars, Authenticate, Forward, DeliveryTimeout, Respond, Verify, Break,
         RelayReceives, relay
<1>2. UNCHANGED sockets \/ \E n, s : Edit(n, s) /\ Worn(s, sockets[n])
  <2>1. CASE \/ Tick \/ (\E m \in Messages : Revoke(m)) \/ UNCHANGED vars
             \/ \E r \in Requests : \/ Authenticate(r) \/ DeliveryTimeout(r)
                                    \/ Respond(r) \/ Verify(r)
    BY <2>1 DEF Tick, Revoke, vars, Authenticate, DeliveryTimeout, Respond, Verify
  <2>2. ASSUME NEW r \in Requests, Forward(r)
        PROVE  UNCHANGED sockets \/ \E n, s : Edit(n, s) /\ Worn(s, sockets[n])
    <3>1. \/ UNCHANGED sockets
          \/ \E n \in 1..Len(sockets) : \E x : Edit(n, [sockets[n] EXCEPT !.down = x])
      BY <2>2, ForwardEffect
    <3>2. \A n \in 1..Len(sockets) : sockets[n] \in Socket
      BY DEF Types
    <3> QED
      BY <3>1, <3>2, WornForms
  <2>3. ASSUME NEW n \in 1..Len(sockets), Break(n)
        PROVE  \E k, s : Edit(k, s) /\ Worn(s, sockets[k])
    <3>1. sockets[n] \in Socket
      BY DEF Types
    <3>2. PICK x, y : Edit(n, [sockets[n] EXCEPT !.broken = TRUE, !.down = x, !.up = y])
      BY <2>3, BreakEdits
    <3> QED
      BY <3>1, <3>2, WornForms
  <2>4. ASSUME NEW n \in 1..Len(sockets), RelayReceives(n)
        PROVE  \E k, s : Edit(k, s) /\ Worn(s, sockets[k])
    <3>1. sockets[n] \in Socket
      BY DEF Types
    <3> QED
      BY <2>4, <3>1, ReceiveEdits, WornForms
  <2> QED
    BY <2>1, <2>2, <2>3, <2>4
<1> QED
  BY <1>1, <1>2, SocketsKeep DEF Keeps

LEMMA ReceiverKeeps ==
  ASSUME Types, Receivers, NEW d \in Devices,
         \/ Accept(d) \/ Reject(d) \/ Acknowledge(d) \/ Asked(d) \/ Lost(d) \/ Cancel(d)
  PROVE  Keeps /\ (\A x \in Devices : x # d => pc'[x] = pc[x])
<1> DEFINE n == pc[d].socket
<1>0. pc \in [Devices -> [at: Places, socket: (1..Len(sockets)) \cup {None},
                          delivery: Requests \cup {None}]]
  BY DEF Types
<1>1. pc[d].at # "off"
  BY DEF Accept, Reject, Acknowledge, Asked, Lost, Cancel
<1>2. n \in 1..Len(sockets)
  BY <1>1, ReceiverSocket
<1>3. sockets[n] \in Socket
  BY <1>2 DEF Types
<1>4. UNCHANGED sockets \/ \E s : Edit(n, s) /\ Worn(s, sockets[n])
  <2>1. CASE Accept(d)
    BY <1>3, <2>1, AcceptEffect, WornForms
  <2>2. CASE Reject(d)
    BY <1>3, <2>2, RejectEffect, WornForms
  <2>3. CASE Acknowledge(d)
    BY <1>3, <2>3, AcknowledgeEffect, WornForms
  <2>4. CASE Asked(d) \/ Lost(d)
    BY <1>3, <2>4, LeaveEffect, WornForms
  <2>5. CASE Cancel(d)
    BY <1>3, <2>5, CancelEffect, WornForms
  <2> QED
    BY <2>1, <2>2, <2>3, <2>4, <2>5
<1>5. \/ UNCHANGED pc
      \/ \E at \in {"answer", "ask", "raise"} : pc' = [pc EXCEPT ![d].at = at]
      \/ \E r : pc' = [pc EXCEPT ![d].at = "answer", ![d].delivery = r]
      \/ pc' = [pc EXCEPT ![d].at = "idle", ![d].delivery = None]
      \/ pc' = [pc EXCEPT ![d] = Away]
  <2>1. CASE Accept(d)
    BY <2>1, AcceptEffect
  <2>2. CASE Reject(d)
    BY <2>2, RejectEffect
  <2>3. CASE Acknowledge(d)
    BY <2>3, AcknowledgeEffect
  <2>4. CASE Asked(d) \/ Lost(d) \/ Cancel(d)
    BY <2>4, LeaveEffect, CancelEffect
  <2> QED
    BY <2>1, <2>2, <2>3, <2>4
<1>6. /\ \A x \in Devices : x # d => pc'[x] = pc[x]
      /\ pc'[d].at # "off" => pc'[d].socket = pc[d].socket
  BY <1>0, <1>5 DEF Away
<1>7. UNCHANGED table
  BY AcceptEffect, RejectEffect, AcknowledgeEffect, LeaveEffect, CancelEffect
<1> QED
  BY <1>1, <1>4, <1>6, <1>7, SocketsKeep DEF Keeps

(* The receiver's own place. *)
Placed(d) ==
    /\ pc[d].at \in {"answer", "ask", "raise"} => pc[d].delivery \in Requests
    /\ pc[d].at = "answer" => verdict[pc[d].delivery] = "accepted" /\ Owner(pc[d].delivery) = d

PlacedNext(d) ==
    /\ pc'[d].at \in {"answer", "ask", "raise"} => pc'[d].delivery \in Requests
    /\ pc'[d].at = "answer" =>
         verdict'[pc'[d].delivery] = "accepted" /\ Owner(pc'[d].delivery) = d

LEMMA SamePlace ==
  ASSUME VerdictStays, NEW d \in Devices, Placed(d), pc'[d] = pc[d]
  PROVE  PlacedNext(d)
BY NothingAssumption DEF VerdictStays, Placed, PlacedNext

LEMMA PlacedReceiver ==
  ASSUME Types, Receivers, Deliveries, VerdictStays, NEW d \in Devices, Placed(d),
         \/ Accept(d) \/ Reject(d) \/ Acknowledge(d) \/ Asked(d) \/ Lost(d) \/ Cancel(d)
  PROVE  PlacedNext(d)
<1>0. /\ pc \in [Devices -> [at: Places, socket: (1..Len(sockets)) \cup {None},
                             delivery: Requests \cup {None}]]
      /\ verdict \in [Requests -> {None, "accepted", "rejected"}]
  BY DEF Types
<1>1. CASE Accept(d)
  <2>1. /\ Next1(d) \in Requests /\ Owner(Next1(d)) = d
        /\ verdict' = [verdict EXCEPT ![Next1(d)] = "accepted"]
        /\ pc' = [pc EXCEPT ![d].at = "answer", ![d].delivery = Next1(d)]
    BY <1>1, AcceptEffect, NextIsNew
  <2>2. pc'[d].delivery = Next1(d) /\ verdict'[Next1(d)] = "accepted"
    BY <1>0, <2>1
  <2> QED
    BY <2>1, <2>2 DEF PlacedNext
<1>2. CASE pc' = [pc EXCEPT ![d] = Away] \/ pc' = [pc EXCEPT ![d].at = "idle", ![d].delivery = None]
  BY <1>0, <1>2 DEF Away, PlacedNext
<1>3. CASE UNCHANGED pc
  BY <1>3, SamePlace
<1>4. CASE Acknowledge(d)
  <2>1. /\ pc[d].delivery \in Requests
        /\ \E at \in {"ask", "raise"} : pc' = [pc EXCEPT ![d].at = at]
    BY <1>4, AcknowledgeEffect
  <2> QED
    BY <1>0, <2>1 DEF PlacedNext
<1> QED
  BY <1>1, <1>2, <1>3, <1>4, RejectEffect, LeaveEffect, CancelEffect

LEMMA ReceiversNext ==
  ASSUME Types, Receivers, Deliveries, [Next]_vars
  PROVE  Receivers'
<1>0. VerdictStays /\ (\A d \in Devices : Placed(d))
  BY VerdictNext DEF Receivers, Placed
<1>1. ASSUME Keeps, \A d \in Devices : PlacedNext(d)
      PROVE  Receivers'
  <2>1. \A d \in Devices : pc[d].at # "off" =>
          /\ pc[d].socket \in 1..Len(sockets) /\ pc[d].socket # None
          /\ sockets[pc[d].socket].device = d
    BY ReceiverSocket DEF Receivers
  <2> QED
    BY <1>1, <2>1 DEF Keeps, Worn, Receivers, PlacedNext
<1>2. CASE Keeps /\ UNCHANGED pc
  BY <1>0, <1>1, <1>2, SamePlace
<1>3. ASSUME NEW d \in Devices,
             \/ Accept(d) \/ Reject(d) \/ Acknowledge(d) \/ Asked(d) \/ Lost(d) \/ Cancel(d)
      PROVE  Receivers'
  <2>1. Keeps /\ \A x \in Devices : x # d => pc'[x] = pc[x]
    BY <1>3, ReceiverKeeps
  <2>2. PlacedNext(d)
    BY <1>0, <1>3, PlacedReceiver
  <2> QED
    BY <1>0, <1>1, <2>1, <2>2, SamePlace
<1>4. ASSUME NEW n \in 1..Len(sockets), RelayNotices(n)
      PROVE  Receivers'
  <2>1. UNCHANGED <<pc, verdict>>
    BY <1>4 DEF RelayNotices, local
  <2>2. \A k \in 1..Len(sockets) : sockets'[k].device = sockets[k].device
    <3>1. sockets[n] \in Socket
      BY DEF Types
    <3>2. [sockets[n] EXCEPT !.serving = FALSE].device = sockets[n].device
      BY <3>1 DEF Socket
    <3> QED
      BY <1>4, <3>2, NoticeEdits, EditTypes
  <2>3. \A d \in Devices : pc[d].at # "off" => pc[d].socket \in 1..Len(sockets)
    BY ReceiverSocket
  <2> QED
    BY <2>1, <2>2, <2>3 DEF Receivers
<1>5. ASSUME NEW d \in Devices, Connect(d)
      PROVE  Receivers'
  <2> DEFINE N == Len(sockets) + 1
  <2>1. /\ sockets'[N] = NewSocket(d) /\ UNCHANGED verdict
        /\ \A k \in 1..Len(sockets) : sockets'[k] = sockets[k]
        /\ pc' = [pc EXCEPT ![d] = [at |-> "idle", socket |-> N, delivery |-> None]]
    BY <1>5, ConnectEffect
  <2>2. /\ pc \in [Devices -> [at: Places, socket: (1..Len(sockets)) \cup {None},
                               delivery: Requests \cup {None}]]
        /\ N \in Nat
    BY DEF Types
  <2>3. ASSUME NEW x \in Devices
        PROVE  /\ pc'[x].at # "off" => pc'[x].socket # None /\ sockets'[pc'[x].socket].device = x
               /\ PlacedNext(x)
    <3>1. CASE x = d
      <4>1. pc'[d] = [at |-> "idle", socket |-> N, delivery |-> None]
        BY <2>1, <2>2
      <4>2. N # None
        BY <2>2, NothingAssumption
      <4> QED
        BY <2>1, <3>1, <4>1, <4>2 DEF NewSocket, PlacedNext
    <3>2. CASE x # d
      <4>1. pc'[x] = pc[x]
        BY <2>1, <2>2, <3>2
      <4>2. pc[x].at # "off" => /\ pc[x].socket \in 1..Len(sockets) /\ pc[x].socket # None
                                /\ sockets[pc[x].socket].device = x
        BY ReceiverSocket DEF Receivers
      <4> QED
        BY <1>0, <2>1, <4>1, <4>2, SamePlace
    <3> QED
      BY <3>1, <3>2
  <2> QED
    BY <2>3 DEF Receivers, PlacedNext
<1> QED
  BY <1>2, <1>3, <1>4, <1>5, PhoneKeeps DEF Next

LEMMA NewestNext ==
  ASSUME Types, Types', Receivers, NewestIsReached, [Next]_vars
  PROVE  NewestIsReached'
<1> DEFINE Live(s) == s.open /\ s.serving /\ ~s.broken
<1>0. /\ \A d \in Devices : pc[d].at # "off" => pc[d].socket \in 1..Len(sockets)
      /\ table \in [Devices -> (1..Len(sockets)) \cup {None}] /\ Len(sockets) \in Nat
      /\ pc \in [Devices -> [at: Places, socket: (1..Len(sockets)) \cup {None},
                             delivery: Requests \cup {None}]]
  <2>1. \A d \in Devices : pc[d].at # "off" => pc[d].socket \in 1..Len(sockets)
    BY ReceiverSocket
  <2> QED
    BY <2>1 DEF Types
<1>1. ASSUME NEW n \in 1..Len(sockets)
      PROVE  Alive(n) <=> Live(sockets[n])
  <2>1. n # None
    BY NothingAssumption
  <2> QED
    BY <2>1 DEF Alive
<1> DEFINE Reached(d) ==
             /\ pc'[d].at # "off" /\ Live(sockets'[pc'[d].socket]) => table'[d] = pc'[d].socket
             /\ table'[d] # None => /\ sockets'[table'[d]].serving
                                    /\ sockets'[table'[d]].device = d
<1>2. ASSUME \A d \in Devices : Reached(d)
      PROVE  NewestIsReached'
  BY <1>2 DEF NewestIsReached, Alive
<1>3. CASE Keeps
  <2>1. ASSUME NEW d \in Devices
        PROVE  Reached(d)
    <3>1. ASSUME pc'[d].at # "off", Live(sockets'[pc'[d].socket])
          PROVE  table'[d] = pc'[d].socket
      <4>1. pc[d].at # "off" /\ pc'[d].socket = pc[d].socket /\ pc[d].socket \in 1..Len(sockets)
        BY <1>0, <1>3, <3>1 DEF Keeps
      <4>2. Worn(sockets'[pc[d].socket], sockets[pc[d].socket])
        BY <1>3, <4>1 DEF Keeps
      <4>3. Live(sockets[pc[d].socket])
        BY <3>1, <4>1, <4>2 DEF Worn
      <4> QED
        BY <1>1, <1>3, <4>1, <4>3 DEF Keeps, NewestIsReached
    <3>2. ASSUME table'[d] # None
          PROVE  sockets'[table'[d]].serving /\ sockets'[table'[d]].device = d
      <4>1. table'[d] = table[d] /\ table[d] \in 1..Len(sockets)
        BY <1>0, <1>3, <3>2 DEF Keeps
      <4>2. Worn(sockets'[table[d]], sockets[table[d]])
        BY <1>3, <4>1 DEF Keeps
      <4> QED
        BY <3>2, <4>1, <4>2 DEF NewestIsReached, Worn
    <3> QED
      BY <3>1, <3>2
  <2> QED
    BY <1>2, <2>1
<1>4. ASSUME NEW n \in 1..Len(sockets), RelayNotices(n)
      PROVE  NewestIsReached'
  <2>1. /\ sockets'[n] = [sockets[n] EXCEPT !.serving = FALSE]
        /\ \A k \in 1..Len(sockets) : k # n => sockets'[k] = sockets[k]
    BY <1>4, NoticeEdits, EditTypes
  <2>2. UNCHANGED pc /\ table' = [d \in Devices |-> IF table[d] = n THEN None ELSE table[d]]
    BY <1>4 DEF RelayNotices, Clear
  <2>3. ~Live(sockets'[n])
    <3>1. sockets[n] \in Socket
      BY DEF Types
    <3> QED
      BY <2>1, <3>1 DEF Socket
  <2>4. ASSUME NEW d \in Devices
        PROVE  Reached(d)
    <3>1. ASSUME pc'[d].at # "off", Live(sockets'[pc'[d].socket])
          PROVE  table'[d] = pc'[d].socket
      <4>1. pc[d].at # "off" /\ pc[d].socket \in 1..Len(sockets) /\ pc[d].socket # n
        BY <1>0, <2>2, <2>3, <3>1
      <4>2. Live(sockets[pc[d].socket])
        BY <2>1, <2>2, <3>1, <4>1
      <4>3. table[d] = pc[d].socket
        BY <1>1, <4>1, <4>2 DEF NewestIsReached
      <4> QED
        BY <2>2, <4>1, <4>3
    <3>2. ASSUME table'[d] # None
          PROVE  sockets'[table'[d]].serving /\ sockets'[table'[d]].device = d
      <4>1. table'[d] = table[d] /\ table[d] # n /\ table[d] # None
        BY <2>2, <3>2
      <4>2. table[d] \in 1..Len(sockets)
        BY <1>0, <4>1
      <4> QED
        BY <2>1, <4>1, <4>2 DEF NewestIsReached
    <3> QED
      BY <3>1, <3>2
  <2> QED
    BY <1>2, <2>4
<1>5. ASSUME NEW d \in Devices, Connect(d)
      PROVE  NewestIsReached'
  <2> DEFINE N == Len(sockets) + 1
  <2>1. /\ sockets'[N] = NewSocket(d) /\ table' = [table EXCEPT ![d] = N]
        /\ \A k \in 1..Len(sockets) : sockets'[k] = sockets[k]
        /\ pc' = [pc EXCEPT ![d] = [at |-> "idle", socket |-> N, delivery |-> None]]
    BY <1>5, ConnectEffect
  <2>2. ASSUME NEW x \in Devices
        PROVE  Reached(x)
    <3>1. CASE x = d
      <4>1. table'[d] = N /\ pc'[d].socket = N
        BY <1>0, <2>1
      <4> QED
        BY <2>1, <3>1, <4>1 DEF NewSocket
    <3>2. CASE x # d
      <4>1. table'[x] = table[x] /\ pc'[x] = pc[x]
        BY <1>0, <2>1, <3>2
      <4>2. ASSUME pc'[x].at # "off", Live(sockets'[pc'[x].socket])
            PROVE  table'[x] = pc'[x].socket
        BY <1>0, <1>1, <2>1, <4>1, <4>2 DEF NewestIsReached
      <4>3. ASSUME table'[x] # None
            PROVE  sockets'[table'[x]].serving /\ sockets'[table'[x]].device = x
        BY <1>0, <2>1, <4>1, <4>3 DEF NewestIsReached
      <4> QED
        BY <4>2, <4>3
    <3> QED
      BY <3>1, <3>2
  <2> QED
    BY <1>2, <2>2
<1> QED
  BY <1>3, <1>4, <1>5, PhoneKeeps, ReceiverKeeps DEF Next

-----------------------------------------------------------------------------
(* What a receiver remembers and what its user is asked. *)

(* A message is sealed once. *)
SealedStays == \A m \in Messages : sealed[m] # None => sealed'[m] = sealed[m]

LEMMA SealedNext ==
  ASSUME Types, [Next]_vars
  PROVE  SealedStays /\ now' >= now /\ now \in Int /\ now' \in Int
<1>0. now \in Int /\ sealed \in [Messages -> Int \cup {None}]
  BY DEF Types
<1>1. ASSUME NEW r \in Requests, Authenticate(r)
      PROVE  SealedStays /\ now' = now
  BY <1>0, <1>1 DEF Authenticate, Seal, SealedStays
<1>2. CASE Tick
  BY <1>0, <1>2 DEF Tick, SealedStays
<1>3. CASE UNCHANGED <<sealed, now>>
  BY <1>0, <1>3 DEF SealedStays
<1>4. ASSUME NEW r \in Requests, Forward(r) \/ DeliveryTimeout(r) \/ Respond(r) \/ Verify(r)
      PROVE  UNCHANGED <<sealed, now>>
  BY <1>4 DEF Forward, DeliveryTimeout, Respond, Verify
<1>5. ASSUME NEW n \in 1..Len(sockets), Break(n) \/ RelayReceives(n) \/ RelayNotices(n)
      PROVE  UNCHANGED <<sealed, now>>
  BY <1>5 DEF Break, RelayReceives, RelayNotices
<1>6. ASSUME NEW d \in Devices,
             \/ Connect(d) \/ Accept(d) \/ Reject(d) \/ Acknowledge(d)
             \/ Asked(d) \/ Lost(d) \/ Cancel(d)
      PROVE  UNCHANGED <<sealed, now>>
  BY <1>6 DEF Connect, Accept, Reject, Acknowledge, Asked, Lost, Cancel
<1>7. ASSUME (\E m \in Messages : Revoke(m)) \/ UNCHANGED vars
      PROVE  UNCHANGED <<sealed, now>>
  BY <1>7 DEF Revoke, vars
<1> QED
  BY <1>0, <1>1, <1>2, <1>3, <1>4, <1>5, <1>6, <1>7 DEF Next

(* Nobody but a receiver that accepts or rejects touches its memory. *)
LEMMA MemoryKept ==
  ASSUME [Next]_vars, \A d \in Devices : ~Accept(d) /\ ~Reject(d)
  PROVE  UNCHANGED <<seen, verdict>>
BY DEF Next, vars, local, Tick, Authenticate, Forward, DeliveryTimeout, Respond, Verify, Revoke,
       Break, RelayReceives, RelayNotices, Connect, Acknowledge, Asked, Lost, Cancel

(* A message that is acceptable was not accepted before. *)
LEMMA AcceptableIsNew ==
  ASSUME Types, Receivers, Deliveries, Remembered, NEW d \in Devices, Accept(d)
  PROVE  /\ sealed[Next1(d).message] \in Int /\ Next1(d).message \in Messages
         /\ ~Accepted(Next1(d).message)
<1> DEFINE q == Next1(d)
           m == Next1(d).message
<1>1. /\ pc[d].at = "idle" /\ Take(d) # <<>> /\ Acceptable(d, q)
      /\ Edit(pc[d].socket, [sockets[pc[d].socket] EXCEPT !.down = Tail(@)])
  BY AcceptEffect
<1>2. q \in Requests /\ Owner(q) = d
  BY <1>1, NextIsNew
<1>3. Sent(q)
  <2>1. pc[d].socket \in 1..Len(sockets)
    BY <1>1, ReceiverSocket
  <2>2. 1 \in 1..Len(sockets[pc[d].socket].down)
    BY <1>1, TakeOne
  <2> QED
    BY <2>1, <2>2 DEF Deliveries, Next1
<1>4. m \in Messages /\ sealed[m] # None
  BY <1>2, <1>3, RelayAssumption DEF Deliveries, Sent
<1>5. sealed[m] \in Int
  BY <1>4 DEF Types
<1>6. ASSUME NEW r \in Requests, r.message = m, verdict[r] = "accepted"
      PROVE  FALSE
  <2>1. m \in seen[d] \/ Expires(m) < now
    BY <1>2, <1>6 DEF Remembered, Owner
  <2>2. m \notin seen[d] /\ now <= Expires(m)
    BY <1>1 DEF Acceptable, InTime, Expires
  <2> QED
    BY <1>5, <2>1, <2>2, RelayAssumption DEF Expires, Types
<1> QED
  BY <1>4, <1>5, <1>6 DEF Accepted

LEMMA RememberedNext ==
  ASSUME Types, Receivers, Deliveries, Remembered, [Next]_vars
  PROVE  Remembered'
<1> DEFINE Known(r) == /\ sealed'[r.message] # None
                       /\ \/ r.message \in seen'[Owner(r)]
                          \/ sealed'[r.message] + MessageTtl < now'
<1>0. /\ SealedStays /\ now' >= now /\ now \in Int /\ now' \in Int /\ MessageTtl \in Int
      /\ verdict \in [Requests -> {None, "accepted", "rejected"}]
      /\ sealed \in [Messages -> Int \cup {None}] /\ seen \in [Devices -> SUBSET Messages]
  <2>1. SealedStays /\ now' >= now /\ now \in Int /\ now' \in Int
    BY SealedNext
  <2> QED
    BY <2>1, RelayAssumption DEF Types
<1>1. ASSUME \A r \in Requests : verdict'[r] = "accepted" => Known(r),
             \A r, q \in Requests : verdict'[r] = "accepted" /\ verdict'[q] = "accepted"
                                      /\ r.message = q.message => r = q
      PROVE  Remembered'
  BY <1>1 DEF Remembered, Expires
<1>2. ASSUME NEW r \in Requests, verdict[r] = "accepted", r.message \in seen[Owner(r)] =>
                 r.message \in seen'[Owner(r)] \/ Expires(r.message) < now
      PROVE  Known(r)
  <2>1. r.message \in Messages
    BY RelayAssumption
  <2>2. /\ sealed[r.message] # None
        /\ r.message \in seen[Owner(r)] \/ Expires(r.message) < now
    BY <1>2 DEF Remembered
  <2>3. sealed[r.message] \in Int /\ sealed'[r.message] = sealed[r.message]
    BY <1>0, <2>1, <2>2 DEF SealedStays
  <2>4. r.message \in seen'[Owner(r)] \/ sealed[r.message] + MessageTtl < now
    BY <1>2, <2>2 DEF Expires
  <2> QED
    BY <1>0, <2>2, <2>3, <2>4
<1>3. CASE UNCHANGED <<seen, verdict>>
  BY <1>1, <1>2, <1>3 DEF Remembered
<1>4. ASSUME NEW d \in Devices, Reject(d)
      PROVE  Remembered'
  <2>1. UNCHANGED seen /\ verdict' = [verdict EXCEPT ![Next1(d)] = "rejected"]
    BY <1>4, RejectEffect
  <2>2. \A r \in Requests : verdict'[r] = "accepted" => verdict[r] = "accepted"
    BY <1>0, <2>1
  <2> QED
    BY <1>1, <1>2, <2>1, <2>2 DEF Remembered
<1>5. ASSUME NEW d \in Devices, Accept(d)
      PROVE  Remembered'
  <2> DEFINE q == Next1(d)
  <2>1. /\ pc[d].at = "idle" /\ Take(d) # <<>> /\ Remember(d, q.message)
        /\ verdict' = [verdict EXCEPT ![q] = "accepted"]
    BY <1>5, AcceptEffect
  <2>2. q \in Requests /\ Owner(q) = d
    BY <2>1, NextIsNew
  <2>3. /\ sealed[q.message] \in Int /\ q.message \in Messages /\ ~Accepted(q.message)
    BY <1>5, AcceptableIsNew
  <2> HIDE DEF q
  <2>4. seen' = [seen EXCEPT ![d] = {x \in seen[d] : Expires(x) >= now} \cup {q.message}]
    BY <2>1 DEF Remember
  <2>5. \A r \in Requests : r # q => verdict'[r] = verdict[r]
    BY <1>0, <2>1
  <2>6. Known(q)
    <3>1. q.message \in seen'[d]
      BY <1>0, <2>4
    <3>2. sealed'[q.message] # None
      BY <1>0, <2>3, NothingAssumption DEF SealedStays
    <3> QED
      BY <2>2, <3>1, <3>2
  <2>7. ASSUME NEW r \in Requests, r # q, verdict'[r] = "accepted"
        PROVE  Known(r)
    <3>1. verdict[r] = "accepted"
      BY <2>5, <2>7
    <3>2. r.message \in Messages /\ sealed[r.message] \in Int /\ Owner(r) \in Devices
      BY <1>0, <3>1, RelayAssumption DEF Remembered, Owner
    <3>3. ASSUME r.message \in seen[Owner(r)]
          PROVE  r.message \in seen'[Owner(r)] \/ Expires(r.message) < now
      <4>1. CASE Owner(r) = d
        <5>1. Expires(r.message) >= now \/ Expires(r.message) < now
          BY <1>0, <3>2 DEF Expires
        <5> QED
          BY <1>0, <2>4, <3>3, <4>1, <5>1
      <4>2. CASE Owner(r) # d
        BY <1>0, <2>4, <3>2, <3>3, <4>2
      <4> QED
        BY <4>1, <4>2
    <3> QED
      BY <1>2, <3>1, <3>3
  <2>8. ASSUME NEW r \in Requests, NEW p \in Requests, verdict'[r] = "accepted",
               verdict'[p] = "accepted", r.message = p.message
        PROVE  r = p
    <3>1. CASE r # q /\ p # q
      BY <2>5, <2>8, <3>1 DEF Remembered
    <3>2. CASE r = q \/ p = q
      BY <2>3, <2>5, <2>8, <3>2 DEF Accepted
    <3> QED
      BY <3>1, <3>2
  <2> QED
    BY <1>1, <2>6, <2>7, <2>8
<1> QED
  BY <1>3, <1>4, <1>5, MemoryKept

(* The account of a message, and what a step makes of it. *)
Account(m) ==
    /\ asked[m] \in {0, 1}
    /\ asked[m] = 1 => ~Held(m) /\ m \notin dropped
    /\ m \in dropped => ~Held(m)
    /\ Accepted(m) <=> asked[m] = 1 \/ Held(m) \/ m \in dropped

AcceptedNext(m) == \E r \in Requests : r.message = m /\ verdict'[r] = "accepted"
HeldNext(m) == \E d \in Devices : pc'[d].at = "answer" /\ pc'[d].delivery.message = m

AccountNext(m) ==
    /\ asked'[m] \in {0, 1}
    /\ asked'[m] = 1 => ~HeldNext(m) /\ m \notin dropped'
    /\ m \in dropped' => ~HeldNext(m)
    /\ AcceptedNext(m) <=> asked'[m] = 1 \/ HeldNext(m) \/ m \in dropped'

LEMMA SameAccount ==
  ASSUME NEW m, Account(m), AcceptedNext(m) = Accepted(m), HeldNext(m) = Held(m),
         asked'[m] = asked[m], (m \in dropped') = (m \in dropped)
  PROVE  AccountNext(m)
BY DEF Account, AccountNext

(* A message that a receiver holds is one of its own device. *)
LEMMA HeldByOne ==
  ASSUME Receivers, NEW d \in Devices, pc[d].at = "answer"
  PROVE  d = Device(pc[d].delivery.message)
BY DEF Receivers, Owner

(* Steps that accept nothing and in which nobody holds, asks or drops.     *)
LEMMA QuietAccounts ==
  ASSUME Accounts, UNCHANGED <<asked, dropped>>,
         \A r \in Requests : verdict'[r] = "accepted" <=> verdict[r] = "accepted",
         \A d \in Devices : \/ pc'[d] = pc[d]
                            \/ pc[d].at # "answer" /\ pc'[d].at # "answer"
  PROVE  \A m \in Messages : AccountNext(m)
<1> SUFFICES ASSUME NEW m \in Messages PROVE AccountNext(m)
  OBVIOUS
<1>1. AcceptedNext(m) = Accepted(m)
  BY DEF Accepted, AcceptedNext
<1>2. HeldNext(m) = Held(m)
  BY DEF Held, HeldNext
<1>3. Account(m)
  BY DEF Accounts, Account
<1> QED
  BY <1>1, <1>2, <1>3, SameAccount

LEMMA AccountsReceiver ==
  ASSUME Types, Receivers, Deliveries, Remembered, Accounts, NEW d \in Devices,
         \/ Connect(d) \/ Accept(d) \/ Reject(d) \/ Acknowledge(d)
         \/ Asked(d) \/ Lost(d) \/ Cancel(d)
  PROVE  \A m \in Messages : AccountNext(m)
<1>0. /\ pc \in [Devices -> [at: Places, socket: (1..Len(sockets)) \cup {None},
                             delivery: Requests \cup {None}]]
      /\ verdict \in [Requests -> {None, "accepted", "rejected"}]
      /\ asked \in [Messages -> Nat]
      /\ \A m \in Messages : Account(m)
  BY DEF Types, Accounts, Account
<1>1. CASE Connect(d)
  <2>1. /\ pc[d].at = "off" /\ UNCHANGED <<verdict, asked, dropped>>
        /\ pc' = [pc EXCEPT ![d] = [at |-> "idle", socket |-> Len(sockets) + 1,
                                    delivery |-> None]]
    BY <1>1, ConnectEffect
  <2>2. \A x \in Devices : pc'[x] = pc[x] \/ (pc[x].at # "answer" /\ pc'[x].at # "answer")
    BY <1>0, <2>1
  <2> QED
    BY <2>1, <2>2, QuietAccounts
<1>2. CASE Reject(d)
  <2>1. /\ pc[d].at = "idle" /\ Take(d) # <<>> /\ UNCHANGED <<asked, dropped>>
        /\ verdict' = [verdict EXCEPT ![Next1(d)] = "rejected"]
        /\ pc' = pc \/ pc' = [pc EXCEPT ![d] = Away]
    BY <1>2, RejectEffect
  <2>2. verdict[Next1(d)] = None
    BY <2>1, NextIsNew
  <2>3. \A r \in Requests : verdict'[r] = "accepted" <=> verdict[r] = "accepted"
    BY <1>0, <2>1, <2>2, NothingAssumption
  <2>4. \A x \in Devices : pc'[x] = pc[x] \/ (pc[x].at # "answer" /\ pc'[x].at # "answer")
    BY <1>0, <2>1 DEF Away
  <2> QED
    BY <2>1, <2>3, <2>4, QuietAccounts
<1>3. CASE Asked(d) \/ Lost(d)
  <2>1. /\ pc[d].at # "answer" /\ UNCHANGED <<verdict, asked, dropped>>
        /\ \/ pc' = [pc EXCEPT ![d].at = "idle", ![d].delivery = None]
           \/ pc' = [pc EXCEPT ![d] = Away]
    BY <1>3, LeaveEffect
  <2>2. \A x \in Devices : pc'[x] = pc[x] \/ (pc[x].at # "answer" /\ pc'[x].at # "answer")
    BY <1>0, <2>1 DEF Away
  <2> QED
    BY <2>1, <2>2, QuietAccounts
<1>4. CASE Accept(d)
  <2> DEFINE q == Next1(d)
  <2>1. /\ pc[d].at = "idle" /\ Take(d) # <<>> /\ UNCHANGED <<asked, dropped>>
        /\ verdict' = [verdict EXCEPT ![q] = "accepted"]
        /\ pc' = [pc EXCEPT ![d].at = "answer", ![d].delivery = q]
    BY <1>4, AcceptEffect
  <2>2. q \in Requests
    BY <2>1, NextIsNew
  <2>3. ~Accepted(q.message) /\ q.message \in Messages
    BY <1>4, AcceptableIsNew
  <2> HIDE DEF q
  <2>4. /\ verdict'[q] = "accepted" /\ \A r \in Requests : r # q => verdict'[r] = verdict[r]
        /\ pc'[d].at = "answer" /\ pc'[d].delivery = q
        /\ \A x \in Devices : x # d => pc'[x] = pc[x]
    BY <1>0, <2>1, <2>2
  <2>5. ASSUME NEW m \in Messages
        PROVE  AccountNext(m)
    <3>1. CASE m = q.message
      <4>1. Account(m) /\ ~Accepted(m)
        BY <1>0, <2>3, <3>1
      <4>2. asked[m] = 0 /\ m \notin dropped
        BY <4>1 DEF Account
      <4>3. HeldNext(m) /\ AcceptedNext(m)
        BY <2>2, <2>4, <3>1 DEF HeldNext, AcceptedNext
      <4> QED
        BY <2>1, <4>2, <4>3 DEF AccountNext
    <3>2. CASE m # q.message
      <4>1. AcceptedNext(m) = Accepted(m)
        BY <2>4, <3>2 DEF Accepted, AcceptedNext
      <4>2. ASSUME HeldNext(m) PROVE Held(m)
        BY <2>4, <3>2, <4>2 DEF Held, HeldNext
      <4>3. ASSUME Held(m) PROVE HeldNext(m)
        <5>1. PICK x \in Devices : pc[x].at = "answer" /\ pc[x].delivery.message = m
          BY <4>3 DEF Held
        <5>2. x # d
          BY <2>1, <5>1
        <5> QED
          BY <2>4, <5>1, <5>2 DEF HeldNext
      <4>4. HeldNext(m) = Held(m)
        BY <4>2, <4>3 DEF Held, HeldNext
      <4> QED
        BY <1>0, <2>1, <4>1, <4>4, SameAccount
    <3> QED
      BY <3>1, <3>2
  <2> QED
    BY <2>5
<1>5. CASE Acknowledge(d)
  <2> DEFINE q == pc[d].delivery
  <2>1. /\ pc[d].at = "answer" /\ UNCHANGED <<verdict, dropped>>
        /\ asked' = [asked EXCEPT ![q.message] = @ + 1]
        /\ \E at \in {"ask", "raise"} : pc' = [pc EXCEPT ![d].at = at]
    BY <1>5, AcknowledgeEffect
  <2>2. /\ pc'[d].at # "answer" /\ \A x \in Devices : x # d => pc'[x] = pc[x]
    BY <1>0, <2>1
  <2>3. Held(q.message)
    BY <2>1 DEF Held
  <2>4. \A m : AcceptedNext(m) = Accepted(m)
    BY <2>1 DEF Accepted, AcceptedNext
  <2>5. ASSUME NEW m \in Messages
        PROVE  AccountNext(m)
    <3>1. CASE m = q.message
      <4>1. Account(m) /\ Held(m)
        BY <1>0, <2>3, <3>1
      <4>2. asked[m] = 0 /\ m \notin dropped /\ Accepted(m)
        BY <4>1 DEF Account
      <4>3. ~HeldNext(m)
        BY <2>1, <2>2, <3>1, HeldByOne DEF HeldNext
      <4>4. asked'[m] = 1
        BY <1>0, <2>1, <3>1, <4>2
      <4> QED
        BY <2>1, <2>4, <4>2, <4>3, <4>4 DEF AccountNext
    <3>2. CASE m # q.message
      <4>1. HeldNext(m) = Held(m)
        BY <2>1, <2>2, <3>2 DEF Held, HeldNext
      <4>2. asked'[m] = asked[m]
        BY <1>0, <2>1, <3>2
      <4> QED
        BY <1>0, <2>1, <2>4, <4>1, <4>2, SameAccount
    <3> QED
      BY <3>1, <3>2
  <2> QED
    BY <2>5
<1>6. CASE Cancel(d)
  <2> DEFINE q == pc[d].delivery
  <2>1. /\ pc[d].at # "off" /\ UNCHANGED <<verdict, asked>>
        /\ dropped' = IF pc[d].at = "answer" THEN dropped \cup {q.message} ELSE dropped
        /\ pc' = [pc EXCEPT ![d] = Away]
    BY <1>6, CancelEffect
  <2>2. pc'[d].at # "answer" /\ \A x \in Devices : x # d => pc'[x] = pc[x]
    BY <1>0, <2>1 DEF Away
  <2>3. CASE pc[d].at # "answer"
    BY <2>1, <2>2, <2>3, QuietAccounts
  <2>4. CASE pc[d].at = "answer"
    <3>1. \A m : AcceptedNext(m) = Accepted(m)
      BY <2>1 DEF Accepted, AcceptedNext
    <3>2. ASSUME NEW m \in Messages
          PROVE  AccountNext(m)
      <4>1. CASE m = q.message
        <5>1. Account(m) /\ Held(m)
          BY <1>0, <2>4, <4>1 DEF Held
        <5>2. asked[m] = 0 /\ Accepted(m)
          BY <5>1 DEF Account
        <5>3. ~HeldNext(m)
          BY <2>2, <2>4, <4>1, HeldByOne DEF HeldNext
        <5>4. m \in dropped'
          BY <2>1, <2>4, <4>1
        <5> QED
          BY <2>1, <3>1, <5>2, <5>3, <5>4 DEF AccountNext
      <4>2. CASE m # q.message
        <5>1. HeldNext(m) = Held(m)
          BY <2>2, <2>4, <4>2 DEF Held, HeldNext
        <5>2. (m \in dropped') = (m \in dropped)
          BY <2>1, <2>4, <4>2
        <5> QED
          BY <1>0, <2>1, <3>1, <5>1, <5>2, SameAccount
      <4> QED
        BY <4>1, <4>2
    <3> QED
      BY <3>2
  <2> QED
    BY <2>3, <2>4
<1> QED
  BY <1>1, <1>2, <1>3, <1>4, <1>5, <1>6

LEMMA AccountsNext ==
  ASSUME Types, Receivers, Deliveries, Remembered, Accounts, [Next]_vars
  PROVE  Accounts'
<1>1. \A m \in Messages : AccountNext(m)
  <2>1. CASE \E d \in Devices : \/ Connect(d) \/ Accept(d) \/ Reject(d) \/ Acknowledge(d)
                                \/ Asked(d) \/ Lost(d) \/ Cancel(d)
    BY <2>1, AccountsReceiver
  <2>2. CASE UNCHANGED <<pc, verdict, asked, dropped>>
    BY <2>2, QuietAccounts
  <2> QED
    BY <2>1, <2>2 DEF Next, vars, local, Tick, Authenticate, Forward, DeliveryTimeout,
                      Respond, Verify, Revoke, Break, RelayReceives, RelayNotices
<1> QED
  BY <1>1 DEF Accounts, AccountNext, Accepted, AcceptedNext, Held, HeldNext

-----------------------------------------------------------------------------
LEMMA InvInit == Init => Inv
<1> SUFFICES ASSUME Init PROVE Inv
  OBVIOUS
<1>1. Types
  BY TypesInit
<1>2. Len(sockets) = 0
  BY DEF Init
<1>3. /\ \A r \in Requests : pending[r] = None /\ request[r] = "unsent" /\ verdict[r] = None
      /\ \A d \in Devices : pc[d].at = "off" /\ table[d] = None
      /\ \A m \in Messages : asked[m] = 0 /\ dropped = {}
  BY DEF Init
<1>4. Deliveries
  BY <1>2, <1>3 DEF Deliveries, Sent
<1>5. Replies
  BY <1>2, <1>3 DEF Replies
<1>6. Receivers /\ NewestIsReached
  BY <1>3 DEF Receivers, NewestIsReached
<1>7. Remembered
  BY <1>3, NothingAssumption DEF Remembered
<1>8. Accounts
  BY <1>3, NothingAssumption DEF Accounts, Accepted, Held
<1> QED
  BY <1>1, <1>4, <1>5, <1>6, <1>7, <1>8 DEF Inv

LEMMA InvNext == Inv /\ [Next]_vars => Inv'
<1> SUFFICES ASSUME Inv, [Next]_vars PROVE Inv'
  OBVIOUS
<1>1. Types /\ Deliveries /\ Replies /\ Receivers /\ Remembered /\ Accounts /\ NewestIsReached
  BY DEF Inv
<1>2. Types'
  BY <1>1, TypesNext
<1>3. Deliveries'
  BY <1>1, <1>2, DeliveriesNext
<1>4. Replies' /\ Receivers' /\ Remembered' /\ Accounts'
  BY <1>1, RepliesNext, ReceiversNext, RememberedNext, AccountsNext
<1>5. NewestIsReached'
  BY <1>1, <1>2, NewestNext
<1> QED
  BY <1>2, <1>3, <1>4, <1>5 DEF Inv

LEMMA InvHolds == Spec => []Inv
BY InvInit, InvNext, PTL DEF Spec

(* A set without two elements has one or none. *)
LEMMA AtMostOne ==
  ASSUME NEW S, \A x, y \in S : x = y
  PROVE  Cardinality(S) = IF S = {} THEN 0 ELSE 1
<1>1. CASE S = {}
  BY <1>1, FS_EmptySet
<1>2. CASE S # {}
  <2>1. PICK x : x \in S
    BY <1>2
  <2>2. S = {x}
    BY <2>1
  <2> QED
    BY <1>2, <2>2, FS_Singleton
<1> QED
  BY <1>1, <1>2

(* Types and the accounts bound how often the user is asked: at most once   *)
(* about a message, and only if there is a request for it.                  *)
LEMMA InvTypes == Inv => TypeOK
<1> SUFFICES ASSUME Inv PROVE TypeOK
  OBVIOUS
<1>1. Types /\ Accounts
  BY DEF Inv
<1>2. ASSUME NEW m \in Messages
      PROVE  asked[m] \in 0..Cardinality(Requests)
  <2>1. asked[m] \in {0, 1} /\ (asked[m] = 1 => Requests # {})
    BY <1>1 DEF Accounts, Accepted
  <2>2. Cardinality(Requests) \in Nat /\ (Requests # {} => Cardinality(Requests) # 0)
    BY RelayAssumption, FS_CardinalityType, FS_EmptySet
  <2> QED
    BY <2>1, <2>2
<1>3. asked \in [Messages -> 0..Cardinality(Requests)]
  BY <1>1, <1>2 DEF Types
<1> QED
  BY <1>1, <1>3 DEF Types, TypeOK, Socket

(* A phone is told "delivered" or "rejected" only of its own request: the  *)
(* future of a request takes only a frame that names it, such a frame is   *)
(* written only after the verdict, and a verdict is given once because the *)
(* delivery of a request is on its way at most once.                       *)
THEOREM RepliesTrue == Spec => []RepliesAreTrue
<1>1. Inv => RepliesAreTrue
  BY InvTypes DEF Inv, Replies, RepliesAreTrue
<1> QED
  BY <1>1, InvHolds, PTL

(* A message is accepted by at most one request, since its receiver keeps  *)
(* its ID until it has expired; and whatever fails after that, the user is *)
(* asked about it once or the receiver was cancelled in between.           *)
THEOREM AsksOnce == Spec => []AskedOnce
<1>1. Inv => AskedOnce
  <2> SUFFICES ASSUME Inv, NEW m \in Messages
               PROVE  LET accepted == {r \in Requests : r.message = m
                                                        /\ verdict[r] = "accepted"}
                          waiting == {d \in Devices : /\ pc[d].at = "answer"
                                                      /\ pc[d].delivery.message = m}
                      IN /\ Cardinality(accepted) <= 1
                         /\ asked[m] + Cardinality(waiting) + Cardinality({m} \cap dropped)
                              = Cardinality(accepted)
    BY DEF AskedOnce
  <2> DEFINE accepted == {r \in Requests : r.message = m /\ verdict[r] = "accepted"}
             waiting == {d \in Devices : pc[d].at = "answer" /\ pc[d].delivery.message = m}
             lost == {m} \cap dropped
  <2>1. Receivers /\ Remembered /\ Account(m)
    BY DEF Inv, Accounts, Account
  <2>2. Cardinality(accepted) = IF accepted = {} THEN 0 ELSE 1
    <3>1. \A x, y \in accepted : x = y
      BY <2>1 DEF Remembered
    <3> QED
      BY <3>1, AtMostOne
  <2>3. Cardinality(waiting) = IF waiting = {} THEN 0 ELSE 1
    <3>1. \A x, y \in waiting : x = y
      BY <2>1, HeldByOne
    <3> QED
      BY <3>1, AtMostOne
  <2>4. Cardinality(lost) = IF lost = {} THEN 0 ELSE 1
    <3>1. \A x, y \in lost : x = y
      OBVIOUS
    <3> QED
      BY <3>1, AtMostOne
  <2>5. /\ accepted # {} <=> Accepted(m)
        /\ waiting # {} <=> Held(m)
        /\ lost # {} <=> m \in dropped
    BY DEF Accepted, Held
  <2> HIDE DEF accepted, waiting, lost
  <2>6. /\ Cardinality(accepted) <= 1
        /\ asked[m] + Cardinality(waiting) + Cardinality(lost) = Cardinality(accepted)
    BY <2>1, <2>2, <2>3, <2>4, <2>5 DEF Account
  <2> QED
    BY <2>6 DEF accepted, waiting, lost
<1> QED
  BY <1>1, InvHolds, PTL

(* Clearing the table entry of a socket whose end is noticed late spares   *)
(* the entry of the socket that replaced it.                               *)
THEOREM NewestReached == Spec => []NewestIsReached
<1>1. Inv => NewestIsReached
  BY DEF Inv
<1> QED
  BY <1>1, InvHolds, PTL

-----------------------------------------------------------------------------
(* The relay keeps the promise of Handover.  Only the receiver's Accept,   *)
(* Acknowledge and Cancel and the phone's Verify are visible there.        *)
Visible == <<Taken, asked, dropped, Told>>

LEMMA SameTaken ==
  ASSUME \A r \in Requests : verdict'[r] = "accepted" <=> verdict[r] = "accepted"
  PROVE  Taken' = Taken
BY DEF Taken

LEMMA SameTold ==
  ASSUME \A r \in Requests : request'[r] = "delivered" <=> request[r] = "delivered"
  PROVE  Told' = Told
BY DEF Told

LEMMA TakenIsAccepted == \A m : m \in Taken <=> Accepted(m)
BY DEF Taken, Accepted

LEMMA RelayKeepsPromise ==
  ASSUME Inv,
         \/ \E r \in Requests : \/ Authenticate(r) \/ Forward(r) \/ DeliveryTimeout(r)
                                \/ Respond(r) \/ Verify(r)
         \/ \E n \in 1..Len(sockets) : Break(n) \/ RelayReceives(n) \/ RelayNotices(n)
         \/ (\E m \in Messages : Revoke(m)) \/ Tick
  PROVE  [Promise!Next]_Visible
<1> USE DEF Visible
<1>0. /\ Types /\ UNCHANGED <<verdict, asked, dropped>>
      /\ request \in [Requests -> {"unsent", "body", "waiting", "verify"} \cup Answers]
  BY DEF Inv, Types, Authenticate, Forward, DeliveryTimeout, Respond, Verify, Break,
         RelayReceives, RelayNotices, Revoke, Tick, local
<1>1. Taken' = Taken
  BY <1>0, SameTaken
<1>2. ASSUME UNCHANGED request PROVE [Promise!Next]_Visible
  BY <1>0, <1>1, <1>2, SameTold
<1>3. ASSUME NEW r \in Requests, NEW a, request' = [request EXCEPT ![r] = a],
             request[r] # "delivered", a # "delivered"
      PROVE  [Promise!Next]_Visible
  <2>1. \A q \in Requests : request'[q] = "delivered" <=> request[q] = "delivered"
    BY <1>0, <1>3
  <2> QED
    BY <1>0, <1>1, <2>1, SameTold
<1>4. ASSUME NEW r \in Requests, request[r] = "verify",
             request' = [request EXCEPT ![r] = "delivered"]
      PROVE  [Promise!Next]_Visible
  <2> DEFINE m == r.message
  <2>1. m \in Messages
    BY RelayAssumption
  <2>2. m \in Taken
    BY <1>4 DEF Inv, Replies, Taken
  <2>3. \A q \in Requests :
          request'[q] = "delivered" <=> (request[q] = "delivered" \/ q = r)
    BY <1>0, <1>4
  <2>4. Told' = Told \cup {m}
    BY <2>3 DEF Told
  <2>5. Promise!Tell(m)
    BY <1>0, <1>1, <2>2, <2>4 DEF Promise!Tell
  <2> QED
    BY <2>1, <2>5 DEF Promise!Next
<1>5. ASSUME NEW r \in Requests, Verify(r) PROVE [Promise!Next]_Visible
  <2>1. /\ request[r] = "verify"
        /\ \/ request' = [request EXCEPT ![r] = "delivered"]
           \/ request' = [request EXCEPT ![r] = "unverified"]
    BY <1>5 DEF Verify, Answer
  <2> QED
    BY <1>3, <1>4, <2>1
<1>6. ASSUME NEW r \in Requests,
             Authenticate(r) \/ Forward(r) \/ DeliveryTimeout(r) \/ Respond(r)
      PROVE  [Promise!Next]_Visible
  <2>1. /\ request[r] \in {"unsent", "body", "waiting"}
        /\ \E a \in {"revoked", "body", "waiting", "offline", "timeout", "rejected", "verify"} :
             request' = [request EXCEPT ![r] = a]
    BY <1>6 DEF Authenticate, Forward, DeliveryTimeout, Respond, Answer
  <2> QED
    BY <1>3, <2>1
<1>7. CASE \/ \E n \in 1..Len(sockets) : Break(n) \/ RelayReceives(n) \/ RelayNotices(n)
           \/ (\E m \in Messages : Revoke(m)) \/ Tick
  BY <1>2, <1>7 DEF Break, RelayReceives, RelayNotices, Revoke, Tick, phone
<1> QED
  BY <1>5, <1>6, <1>7

LEMMA ReceiverKeepsPromise ==
  ASSUME Inv, NEW d \in Devices,
         \/ Connect(d) \/ Accept(d) \/ Reject(d) \/ Acknowledge(d)
         \/ Asked(d) \/ Lost(d) \/ Cancel(d)
  PROVE  [Promise!Next]_Visible
<1> USE DEF Visible
<1>0. /\ Types /\ Deliveries /\ Receivers /\ Remembered
      /\ verdict \in [Requests -> {None, "accepted", "rejected"}]
      /\ asked \in [Messages -> Nat]
      /\ \A m \in Messages : Account(m)
  BY DEF Inv, Types, Accounts, Account
<1>1. Told' = Told
  <2>1. UNCHANGED request
    BY DEF Connect, Accept, Reject, Acknowledge, Asked, Lost, Cancel, phone
  <2> QED
    BY <2>1, SameTold
<1>2. ASSUME pc[d].at = "answer"
      PROVE  LET m == pc[d].delivery.message IN
             m \in Messages /\ m \in Taken \ dropped /\ asked[m] = 0
  <2> DEFINE m == pc[d].delivery.message
  <2>1. m \in Messages
    BY <1>0, <1>2, RelayAssumption DEF Receivers
  <2>2. Account(m) /\ Held(m)
    BY <1>0, <1>2, <2>1 DEF Held
  <2>3. Accepted(m) /\ asked[m] = 0 /\ m \notin dropped
    BY <2>2 DEF Account
  <2> QED
    BY <2>1, <2>3, TakenIsAccepted
<1>3. CASE Connect(d) \/ Asked(d) \/ Lost(d)
  <2>1. UNCHANGED <<verdict, asked, dropped>>
    BY <1>3 DEF Connect, Asked, Lost, local
  <2> QED
    BY <1>1, <2>1, SameTaken
<1>4. CASE Reject(d)
  <2>1. /\ pc[d].at = "idle" /\ Take(d) # <<>> /\ UNCHANGED <<asked, dropped>>
        /\ verdict' = [verdict EXCEPT ![Next1(d)] = "rejected"]
    BY <1>0, <1>4, RejectEffect
  <2>2. verdict[Next1(d)] = None
    BY <1>0, <2>1, NextIsNew
  <2>3. \A r \in Requests : verdict'[r] = "accepted" <=> verdict[r] = "accepted"
    BY <1>0, <2>1, <2>2, NothingAssumption
  <2> QED
    BY <1>1, <2>1, <2>3, SameTaken
<1>5. CASE Accept(d)
  <2> DEFINE q == Next1(d)
             m == q.message
  <2>1. /\ pc[d].at = "idle" /\ Take(d) # <<>> /\ UNCHANGED <<asked, dropped>>
        /\ verdict' = [verdict EXCEPT ![q] = "accepted"]
    BY <1>0, <1>5, AcceptEffect
  <2>2. q \in Requests
    BY <1>0, <2>1, NextIsNew
  <2>3. ~Accepted(m) /\ m \in Messages
    BY <1>0, <1>5, AcceptableIsNew
  <2> HIDE DEF q
  <2>4. \A r \in Requests :
          verdict'[r] = "accepted" <=> (verdict[r] = "accepted" \/ r = q)
    BY <1>0, <2>1, <2>2
  <2>5. Taken' = Taken \cup {m}
    BY <2>2, <2>4 DEF Taken
  <2>6. Promise!Accept(m)
    BY <1>1, <2>1, <2>3, <2>5, TakenIsAccepted DEF Promise!Accept
  <2> QED
    BY <2>3, <2>6 DEF Promise!Next
<1>6. CASE Acknowledge(d)
  <2> DEFINE m == pc[d].delivery.message
  <2>1. /\ pc[d].at = "answer" /\ UNCHANGED <<verdict, dropped>>
        /\ asked' = [asked EXCEPT ![m] = @ + 1]
    BY <1>0, <1>6, AcknowledgeEffect
  <2>2. m \in Messages /\ m \in Taken \ dropped /\ asked[m] = 0
    BY <1>2, <2>1
  <2> HIDE DEF m
  <2>3. Taken' = Taken
    BY <2>1, SameTaken
  <2>4. asked' = [asked EXCEPT ![m] = 1]
    BY <2>1, <2>2
  <2>5. Promise!Ask(m)
    BY <1>1, <2>1, <2>2, <2>3, <2>4 DEF Promise!Ask, Promise!Owed
  <2> QED
    BY <2>2, <2>5 DEF Promise!Next
<1>7. CASE Cancel(d)
  <2> DEFINE m == pc[d].delivery.message
  <2>1. /\ UNCHANGED <<verdict, asked>>
        /\ dropped' = IF pc[d].at = "answer" THEN dropped \cup {m} ELSE dropped
    BY <1>0, <1>7, CancelEffect
  <2>2. Taken' = Taken
    BY <2>1, SameTaken
  <2>3. CASE pc[d].at = "answer"
    <3>1. m \in Messages /\ m \in Taken \ dropped /\ asked[m] = 0
      BY <1>2, <2>3
    <3> HIDE DEF m
    <3>2. Promise!GiveUp(m)
      BY <1>1, <2>1, <2>2, <2>3, <3>1 DEF Promise!GiveUp, Promise!Owed
    <3> QED
      BY <3>1, <3>2 DEF Promise!Next
  <2>4. CASE pc[d].at # "answer"
    BY <1>1, <2>1, <2>2, <2>4
  <2> QED
    BY <2>3, <2>4
<1> QED
  BY <1>3, <1>4, <1>5, <1>6, <1>7

(* The local relay promises both ends what the hosted one does: a message  *)
(* is taken once, asked about once or given up, and "delivered" is said of *)
(* taken messages only (receiver.py, _run_websocket; relay/app.py).        *)
THEOREM RelayKeepsHandover == Spec => HandoverSpec
<1>1. Init => Promise!Init
  <2> SUFFICES ASSUME Init PROVE Promise!Init
    OBVIOUS
  <2>1. \A r \in Requests : verdict[r] # "accepted" /\ request[r] # "delivered"
    BY NothingAssumption DEF Init
  <2>2. Taken = {} /\ Told = {}
    BY <2>1 DEF Taken, Told
  <2> QED
    BY <2>2 DEF Init, Promise!Init
<1>2. ASSUME Inv, [Next]_vars PROVE [Promise!Next]_Visible
  <2>1. CASE UNCHANGED vars
    <3>1. UNCHANGED <<verdict, request, asked, dropped>>
      BY <2>1 DEF vars, local, phone
    <3> QED
      BY <3>1, SameTaken, SameTold DEF Visible
  <2> QED
    BY <1>2, <2>1, RelayKeepsPromise, ReceiverKeepsPromise DEF Next
<1> QED
  BY <1>1, <1>2, InvHolds, PTL DEF Spec, HandoverSpec, Promise!Spec, Promise!vars, Visible
=============================================================================
