---------------------------- MODULE Wakeups_proofs ----------------------------
(***************************************************************************)
(* No wake-up is lost and no session is used before it is stored, for any  *)
(* number of messages and faults.                                          *)
(***************************************************************************)
EXTENDS Wakeups, SequenceTheorems, TLAPS

(* TypeOK in four parts. *)
QueueType ==
    /\ queue \in Seq(Messages) /\ Len(queue) <= sent
    /\ sent \in 0..MaxMessages /\ failures \in 0..MaxFailures
PlaceType ==
    /\ at \in {"config", "clear", "poll", "handle", "asking", "failing", "short", "long",
              "ended"}
    /\ answer \in {"none", "good", "bad"}
    /\ client \in {"off", "fresh", "refresh", "store", "open", "sleep"}
    /\ channel \in {"none", "asked", "member"}
FlagType ==
    /\ wakeup \in BOOLEAN /\ changed \in BOOLEAN /\ connected \in BOOLEAN
    /\ joined \in BOOLEAN /\ fresh \in BOOLEAN /\ stored \in BOOLEAN
InboxType == inbox \in Seq({"ok", "refused", "broadcast"})

(* A message in the receiver's hands is not in the queue. *)
InHand == at = "handle" /\ answer # "none" => Len(queue) < sent

(* Without a receiver there is no Realtime client. *)
Together == at \in {"config", "ended"} => client = "off"

(* A join is answered before anything else, and asked for by a client that *)
(* has not joined.                                                         *)
AnswerFirst == channel = "asked" => inbox = <<>> /\ ~joined

(* The receiver sleeps long because the channel is connected, or it was    *)
(* told that this has changed.                                             *)
LongIsKnown == at = "long" => connected \/ changed

(* SleepIsSafe from the empty answer on, connected or not. *)
Unoffered(q) == \E i \in 1..Len(q) : ~q[i].offered
SignalIsThere ==
    at \in {"handle", "long"} /\ ~wakeup /\ ~changed /\ answer = "none"
        /\ Unoffered(queue)
    => ~connected \/ channel # "member" \/ Contains(inbox, "broadcast")

WakeupInv ==
    /\ TypeOK /\ InHand /\ Together /\ AnswerFirst /\ ConnectedIsJoined
    /\ LongIsKnown /\ SignalIsThere

LEMMA TypeParts == TypeOK <=> QueueType /\ PlaceType /\ FlagType /\ InboxType
BY DEF TypeOK, QueueType, PlaceType, FlagType, InboxType

LEMMA InitHolds == Init => WakeupInv
<1> SUFFICES ASSUME Init PROVE WakeupInv
  OBVIOUS
<1>1. queue \in Seq(Messages) /\ Len(queue) <= sent
  BY BoundAssumption, EmptySeq DEF Init
<1>2. sent \in 0..MaxMessages /\ failures \in 0..MaxFailures
  BY BoundAssumption, EmptySeq DEF Init
<1>3. /\ wakeup \in BOOLEAN /\ changed \in BOOLEAN /\ connected \in BOOLEAN
      /\ joined \in BOOLEAN /\ fresh \in BOOLEAN /\ stored \in BOOLEAN
  BY DEF Init
<1>4. inbox \in Seq({"ok", "refused", "broadcast"})
  BY EmptySeq DEF Init
<1>5. channel \in {"none", "asked", "member"}
  BY DEF Init
<1>6. TypeOK
  BY <1>1, <1>2, <1>3, <1>4, <1>5 DEF Init, TypeOK
<1>7. InHand /\ Together /\ AnswerFirst
  BY EmptySeq DEF Init, InHand, Together, AnswerFirst
<1>8. ConnectedIsJoined /\ LongIsKnown
  BY EmptySeq DEF Init, ConnectedIsJoined, LongIsKnown
<1>9. SignalIsThere
  BY EmptySeq DEF Init, SignalIsThere
<1> QED
 BY <1>6, <1>7, <1>8, <1>9 DEF WakeupInv

LEMMA TypeSend ==
  ASSUME TypeOK, InHand, NEW good \in BOOLEAN, Send(good)
  PROVE  QueueType' /\ InHand'
<1>1. [good |-> good, offered |-> FALSE] \in Messages
  BY DEF Messages
<1>2. queue' \in Seq(Messages) /\ Len(queue') = Len(queue) + 1
  BY <1>1, AppendProperties DEF Send, TypeOK
<1>3. Len(queue) \in Nat
  BY LenProperties DEF TypeOK
<1> QED
  BY <1>2, <1>3, BoundAssumption DEF Send, TypeOK, QueueType, InHand, receiver

LEMMA TypeTail ==
  ASSUME TypeOK, InHand, queue # <<>>
  PROVE  /\ Tail(queue) \in Seq(Messages)
         /\ Len(Tail(queue)) < sent /\ Len(Tail(queue)) \in Nat
BY HeadTailProperties, LenProperties, BoundAssumption DEF TypeOK

LEMMA TypePollFails ==
  ASSUME TypeOK, InHand, PollFails \/ AckLost
  PROVE  QueueType' /\ InHand'
<1>1. queue' \in Seq(Messages) /\ Len(queue') <= sent
  <2>1. CASE UNCHANGED queue
    BY <2>1 DEF TypeOK
  <2>2. CASE queue # <<>> /\ queue' = [queue EXCEPT ![1].offered = TRUE]
    <3>1. 1 \in 1 .. Len(queue) /\ queue[1] \in Messages
      BY <2>2, EmptySeq, LenProperties, ElementOfSeq DEF TypeOK
    <3>2. [queue[1] EXCEPT !.offered = TRUE] \in Messages
      BY <3>1 DEF Messages
    <3>3. queue' = [queue EXCEPT ![1] = [queue[1] EXCEPT !.offered = TRUE]]
      BY <2>2
    <3> QED
      BY <3>1, <3>2, <3>3, ExceptSeq DEF TypeOK
  <2>3. CASE /\ at = "handle" /\ answer # "none"
             /\ queue' = <<[good |-> FALSE, offered |-> TRUE]>> \o queue
    <3>1. [good |-> FALSE, offered |-> TRUE] \in Messages
      BY DEF Messages
    <3>2. /\ <<[good |-> FALSE, offered |-> TRUE]>> \in Seq(Messages)
          /\ Len(<<[good |-> FALSE, offered |-> TRUE]>>) = 1
      BY <3>1
    <3>3. Len(queue) < sent /\ Len(queue) \in Nat
      BY <2>3, LenProperties DEF InHand, TypeOK
    <3> QED
      BY <2>3, <3>2, <3>3, ConcatProperties, BoundAssumption DEF TypeOK
  <2> QED
    BY <2>1, <2>2, <2>3 DEF PollFails, AckLost
<1> QED
  BY <1>1, BoundAssumption DEF PollFails, AckLost, Raise, Fault, TypeOK, QueueType, InHand

LEMMA QueueNext ==
  ASSUME TypeOK, InHand, [Next]_vars
  PROVE  QueueType' /\ InHand'
<1> USE BoundAssumption DEF QueueType, InHand
<1>1. QueueType
  BY TypeParts
<1>2. ASSUME NEW good \in BOOLEAN, Send(good) PROVE QueueType' /\ InHand'
  BY <1>2, TypeSend
<1>3. CASE ChooseMode \/ Clear \/ Handle \/ Woken \/ Restart \/ Timeout \/ UserAnswers
  BY <1>1, <1>3
     DEF ChooseMode, Clear, Handle, Woken, Restart, Timeout, UserAnswers, Raise, Fault, realtime
<1>4. CASE Poll
  <2>1. Len(queue) \in Nat
    BY LenProperties DEF TypeOK
  <2>2. CASE queue # <<>> /\ queue' = Tail(queue)
    <3>1. UNCHANGED <<sent, failures>>
      BY <1>4 DEF Poll
    <3> QED
      BY <1>1, <2>2, <3>1, TypeTail
  <2>3. CASE Poll /\ answer' = "none" /\ UNCHANGED queue
    BY <1>1, <2>3 DEF Poll
  <2> QED
    BY <1>4, <2>2, <2>3 DEF Poll
<1>5. CASE PollFails \/ AckLost
  BY <1>5, TypePollFails
<1>6. CASE EnsureFresh \/ Refresh \/ StoreSession \/ WakeUp \/ Frame
  BY <1>1, <1>6 DEF EnsureFresh, Refresh, StoreSession, WakeUp, Frame, receiver
<1>7. ASSUME NEW accepted \in BOOLEAN, Admit(accepted) PROVE QueueType' /\ InHand'
  BY <1>1, <1>7 DEF Admit, receiver
<1>8. CASE SocketFails \/ RenewalDue \/ SessionFails \/ ChannelDies
  <2>1. /\ UNCHANGED <<queue, sent, at, answer>>
        /\ failures' = failures \/ (failures < MaxFailures /\ failures' = failures + 1)
    BY <1>8
       DEF SocketFails, RenewalDue, SessionFails, ChannelDies, Disconnect, Fault, receiver
  <2> QED
    BY <1>1, <2>1
<1>9. CASE UNCHANGED vars
  BY <1>1, <1>9 DEF vars
<1> QED
  BY <1>2, <1>3, <1>4, <1>5, <1>6, <1>7, <1>8, <1>9 DEF Next, ReceiverSteps, ClientSteps

LEMMA PlaceNext ==
  ASSUME TypeOK, [Next]_vars
  PROVE  PlaceType'
<1> USE DEF PlaceType
<1>1. PlaceType
  BY TypeParts
<1>2. CASE \E good \in BOOLEAN : Send(good)
  BY <1>1, <1>2 DEF Send, Broadcast, receiver
<1>3. CASE ReceiverSteps \/ Timeout
  BY <1>1, <1>3
     DEF ReceiverSteps, ChooseMode, Clear, Poll, Handle, Woken, Restart,
         Timeout, receiver, realtime
<1>4. CASE PollFails \/ AckLost \/ UserAnswers
  BY <1>1, <1>4 DEF PollFails, AckLost, UserAnswers, Raise, realtime
<1>5. CASE ClientSteps
  BY <1>1, <1>5
     DEF ClientSteps, EnsureFresh, Refresh, StoreSession, WakeUp, Frame, receiver
<1>6. CASE \E accepted \in BOOLEAN : Admit(accepted)
  BY <1>1, <1>6 DEF Admit, receiver
<1>7. CASE SocketFails \/ RenewalDue \/ SessionFails \/ ChannelDies
  BY <1>1, <1>7
     DEF SocketFails, RenewalDue, SessionFails, ChannelDies, Disconnect, receiver
<1>8. CASE UNCHANGED vars
  BY <1>1, <1>8 DEF vars
<1> QED
  BY <1>2, <1>3, <1>4, <1>5, <1>6, <1>7, <1>8 DEF Next

LEMMA FlagNext ==
  ASSUME TypeOK, [Next]_vars
  PROVE  FlagType'
<1> USE DEF FlagType
<1>1. FlagType
  BY TypeParts
<1>2. CASE \E good \in BOOLEAN : Send(good)
  BY <1>1, <1>2 DEF Send, Broadcast, receiver
<1>3. CASE ChooseMode \/ Poll \/ Handle \/ Woken \/ Timeout
  BY <1>1, <1>3
     DEF ChooseMode, Poll, Handle, Woken, Timeout, receiver, realtime
<1>4. CASE Clear \/ Restart
  BY <1>1, <1>4 DEF Clear, Restart, realtime
<1>5. CASE PollFails \/ AckLost \/ UserAnswers
  BY <1>1, <1>5 DEF PollFails, AckLost, UserAnswers, Raise, realtime
<1>6. CASE EnsureFresh \/ WakeUp
  BY <1>1, <1>6 DEF EnsureFresh, WakeUp, receiver
<1>7. CASE Refresh \/ StoreSession
  BY <1>1, <1>7 DEF Refresh, StoreSession, receiver
<1>8. CASE Frame
  BY <1>1, <1>8 DEF Frame, SetConnected
<1>9. CASE \E accepted \in BOOLEAN : Admit(accepted)
  BY <1>1, <1>9 DEF Admit, receiver
<1>10. CASE SocketFails \/ RenewalDue \/ SessionFails
  BY <1>1, <1>10 DEF SocketFails, RenewalDue, SessionFails, Disconnect, SetConnected
<1>11. CASE ChannelDies \/ UNCHANGED vars
  BY <1>1, <1>11 DEF ChannelDies, vars, receiver
<1> QED
  BY <1>2, <1>3, <1>4, <1>5, <1>6, <1>7, <1>8, <1>9, <1>10, <1>11
     DEF Next, ReceiverSteps, ClientSteps

LEMMA InboxNext ==
  ASSUME TypeOK, [Next]_vars
  PROVE  InboxType'
<1> USE EmptySeq DEF InboxType
<1>1. InboxType
  BY TypeParts
<1>2. CASE \E good \in BOOLEAN : Send(good)
  BY <1>1, <1>2, AppendProperties DEF Send, Broadcast
<1>3. CASE ReceiverSteps \/ Timeout
  BY <1>1, <1>3
     DEF ReceiverSteps, ChooseMode, Clear, Poll, Handle, Woken, Restart,
         Timeout, realtime
<1>4. CASE PollFails \/ AckLost \/ UserAnswers
  BY <1>1, <1>4 DEF PollFails, AckLost, UserAnswers, Raise, realtime
<1>5. CASE EnsureFresh \/ Refresh \/ StoreSession \/ WakeUp
  BY <1>1, <1>5 DEF EnsureFresh, Refresh, StoreSession, WakeUp
<1>6. CASE Frame
  BY <1>1, <1>6, HeadTailProperties DEF Frame
<1>7. CASE \E accepted \in BOOLEAN : Admit(accepted)
  BY <1>1, <1>7, AppendProperties DEF Admit
<1>8. CASE SocketFails \/ RenewalDue \/ SessionFails \/ ChannelDies
  BY <1>8 DEF SocketFails, RenewalDue, SessionFails, ChannelDies, Disconnect
<1>9. CASE UNCHANGED vars
  BY <1>1, <1>9 DEF vars
<1> QED
  BY <1>2, <1>3, <1>4, <1>5, <1>6, <1>7, <1>8, <1>9 DEF Next, ClientSteps

LEMMA LinksNext ==
  ASSUME WakeupInv, [Next]_vars
  PROVE  Together' /\ AnswerFirst' /\ ConnectedIsJoined' /\ LongIsKnown'
<1> USE DEF Together, AnswerFirst, ConnectedIsJoined, LongIsKnown
<1>1. /\ Together /\ AnswerFirst /\ ConnectedIsJoined /\ LongIsKnown
      /\ FlagType /\ PlaceType
  BY TypeParts DEF WakeupInv
<1>2. CASE \E good \in BOOLEAN : Send(good)
  BY <1>1, <1>2 DEF Send, Broadcast, receiver
<1>3. CASE ChooseMode \/ Poll \/ Handle \/ Woken \/ Timeout
  BY <1>1, <1>3
     DEF ChooseMode, Poll, Handle, Woken, Timeout, receiver, realtime
<1>4. CASE Clear \/ Restart
  BY <1>1, <1>4 DEF Clear, Restart, realtime
<1>5. CASE PollFails \/ AckLost \/ UserAnswers
  BY <1>1, <1>5 DEF PollFails, AckLost, UserAnswers, Raise, realtime
<1>6. CASE EnsureFresh \/ WakeUp \/ Refresh
  BY <1>1, <1>6 DEF EnsureFresh, WakeUp, Refresh, receiver
<1>7. CASE StoreSession
  BY <1>1, <1>7 DEF StoreSession, receiver
<1>8. CASE Frame
  <2>1. Together' /\ AnswerFirst'
    BY <1>1, <1>8 DEF Frame
  <2>2. ConnectedIsJoined'
    <3>1. CASE Head(inbox) = "ok"
      BY <1>8, <3>1, Zenon DEF Frame, SetConnected
    <3>2. CASE Head(inbox) # "ok"
      BY <1>1, <1>8, <3>2 DEF Frame
    <3> QED
      BY <3>1, <3>2
  <2>3. LongIsKnown'
    BY <1>1, <1>8 DEF Frame, SetConnected, FlagType
  <2> QED
    BY <2>1, <2>2, <2>3
<1>9. CASE \E accepted \in BOOLEAN : Admit(accepted)
  BY <1>1, <1>9 DEF Admit, receiver
<1>10. CASE SocketFails \/ RenewalDue \/ SessionFails
  <2>1. Together' /\ AnswerFirst'
    BY <1>1, <1>10 DEF SocketFails, RenewalDue, SessionFails, Disconnect
  <2>2. ConnectedIsJoined'
    BY <1>10 DEF SocketFails, RenewalDue, SessionFails, Disconnect, SetConnected
  <2>3. LongIsKnown'
    BY <1>1, <1>10
       DEF SocketFails, RenewalDue, SessionFails, Disconnect, SetConnected, FlagType
  <2> QED
    BY <2>1, <2>2, <2>3
<1>11. CASE ChannelDies \/ UNCHANGED vars
  BY <1>1, <1>11 DEF ChannelDies, vars, receiver
<1> QED
  BY <1>2, <1>3, <1>4, <1>5, <1>6, <1>7, <1>8, <1>9, <1>10, <1>11
     DEF Next, ReceiverSteps, ClientSteps

(* A frame taken off leaves the broadcast that it is not.                  *)
LEMMA BroadcastStays ==
  ASSUME NEW s \in Seq({"ok", "refused", "broadcast"}), s # <<>>, Head(s) = "ok",
         Contains(s, "broadcast")
  PROVE  Contains(Tail(s), "broadcast")
<1>1. PICK i \in 1 .. Len(s) : s[i] = "broadcast"
  BY DEF Contains
<1>2. i # 1 /\ Len(s) \in Nat
  BY <1>1, LenProperties
<1>3. i - 1 \in 1 .. Len(Tail(s)) /\ Tail(s)[i - 1] = s[i]
  BY <1>2, HeadTailProperties
<1> QED
  BY <1>1, <1>3 DEF Contains

LEMMA BroadcastSent ==
  ASSUME NEW s \in Seq({"ok", "refused", "broadcast"})
  PROVE  /\ Contains(Append(s, "broadcast"), "broadcast")
         /\ \A e \in {"ok", "refused"} :
               Contains(s, "broadcast") => Contains(Append(s, e), "broadcast")
<1>1. Len(s) \in Nat
  BY LenProperties
<1> QED
  BY <1>1, AppendProperties DEF Contains

LEMMA SignalNext ==
  ASSUME WakeupInv, [Next]_vars
  PROVE  SignalIsThere'
<1> USE DEF SignalIsThere
<1>1. /\ SignalIsThere /\ AnswerFirst /\ ConnectedIsJoined
      /\ FlagType /\ PlaceType /\ InboxType /\ queue \in Seq(Messages)
  BY TypeParts DEF WakeupInv, TypeOK
<1>2. CASE \E good \in BOOLEAN : Send(good)
  BY <1>1, <1>2, BroadcastSent DEF Send, Broadcast, receiver, InboxType
<1>3. CASE ChooseMode \/ Handle \/ Woken \/ Timeout
  BY <1>1, <1>3 DEF ChooseMode, Handle, Woken, Timeout, receiver, realtime
<1>4. CASE Clear \/ Restart \/ PollFails \/ AckLost \/ UserAnswers
  BY <1>4 DEF Clear, Restart, PollFails, AckLost, UserAnswers, Raise
<1>5. CASE Poll
  BY <1>1, <1>5, EmptySeq DEF Poll, Unoffered
<1>6. CASE EnsureFresh \/ WakeUp \/ Refresh \/ StoreSession
  BY <1>1, <1>6
     DEF EnsureFresh, WakeUp, Refresh, StoreSession, receiver, ConnectedIsJoined
<1>7. CASE Frame
  <2>1. CASE Head(inbox) = "ok"
    BY <1>1, <1>7, <2>1, BroadcastStays DEF Frame, SetConnected, FlagType, InboxType
  <2>2. CASE Head(inbox) # "ok"
    BY <1>1, <1>7, <2>2 DEF Frame, ConnectedIsJoined, FlagType
  <2> QED
    BY <2>1, <2>2
<1>8. CASE \E accepted \in BOOLEAN : Admit(accepted)
  BY <1>1, <1>8 DEF Admit, receiver, AnswerFirst, ConnectedIsJoined
<1>9. CASE SocketFails \/ RenewalDue \/ SessionFails
  BY <1>9 DEF SocketFails, RenewalDue, SessionFails, Disconnect, SetConnected
<1>10. CASE ChannelDies
  BY <1>1, <1>10 DEF ChannelDies, receiver
<1>11. CASE UNCHANGED vars
  BY <1>1, <1>11 DEF vars
<1> QED
  BY <1>2, <1>3, <1>4, <1>5, <1>6, <1>7, <1>8, <1>9, <1>10, <1>11
     DEF Next, ReceiverSteps, ClientSteps

(* The receiver's timeout is chosen by what is true of the channel, and    *)
(* behind a long sleep every message it has not been offered has a signal  *)
(* that is set, on its way, or replaced by a break still to be noticed.    *)
THEOREM Signals == Spec => []SignalsAreTrue
<1>1. WakeupInv /\ [Next]_vars => WakeupInv'
  <2> SUFFICES ASSUME WakeupInv, [Next]_vars PROVE WakeupInv'
    OBVIOUS
  <2>1. TypeOK /\ InHand
    BY DEF WakeupInv
  <2>2. QueueType' /\ PlaceType' /\ FlagType' /\ InboxType' /\ InHand'
    BY <2>1, QueueNext, PlaceNext, FlagNext, InboxNext
  <2>3. TypeOK'
    BY <2>2 DEF TypeOK, QueueType, PlaceType, FlagType, InboxType
  <2> QED
    BY <2>2, <2>3, LinksNext, SignalNext DEF WakeupInv
<1>2. WakeupInv => SignalsAreTrue
  BY DEF WakeupInv, SignalsAreTrue, SleepIsSafe, SignalIsThere, LongIsKnown, Unoffered
<1> QED
  BY <1>1, <1>2, InitHolds, PTL DEF Spec

(* Only StoreSession opens a connection, and only Refresh, away from one,  *)
(* makes a session that the file does not have.                            *)
THEOREM Stored == Spec => []StoredBeforeUse
<1>1. Init => StoredBeforeUse
  BY DEF Init, StoredBeforeUse
<1>2. StoredBeforeUse /\ [Next]_vars => StoredBeforeUse'
  <2> SUFFICES ASSUME StoredBeforeUse, [Next]_vars PROVE StoredBeforeUse'
    OBVIOUS
  <2> USE DEF StoredBeforeUse
  <2>1. CASE (\E good \in BOOLEAN : Send(good)) \/ ReceiverSteps \/ Timeout
    BY <2>1 DEF Send, Broadcast, ReceiverSteps, ChooseMode, Clear, Poll, Handle, Woken,
                Restart, Timeout, realtime
  <2>2. CASE PollFails \/ AckLost \/ UserAnswers
    BY <2>2 DEF PollFails, AckLost, UserAnswers, Raise, realtime
  <2>3. CASE ClientSteps
    BY <2>3 DEF ClientSteps, EnsureFresh, Refresh, StoreSession, WakeUp, Frame
  <2>4. CASE (\E accepted \in BOOLEAN : Admit(accepted)) \/ ChannelDies
    BY <2>4 DEF Admit, ChannelDies
  <2>5. CASE SocketFails \/ RenewalDue \/ SessionFails
    BY <2>5 DEF SocketFails, RenewalDue, SessionFails, Disconnect
  <2>6. CASE UNCHANGED vars
    BY <2>6 DEF vars
  <2> QED
    BY <2>1, <2>2, <2>3, <2>4, <2>5, <2>6 DEF Next
<1> QED
  BY <1>1, <1>2, PTL DEF Spec
=============================================================================
