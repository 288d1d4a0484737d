------------------------------- MODULE Wakeups -------------------------------
(***************************************************************************)
(* How the PC learns of a queued message (receiver.py, realtime.py): the   *)
(* receiver polls the relay, then sleeps until a broadcast of its private  *)
(* Realtime channel, a change of that channel's connection or a timeout,   *)
(* which is long while the channel is connected and short otherwise.  The  *)
(* Realtime client keeps joining the channel with a session it refreshes   *)
(* and has stored first.                                                   *)
(***************************************************************************)
EXTENDS Naturals, Sequences, SequencesExt

CONSTANTS
    MaxMessages,    \* bound: messages the phones send
    MaxFailures     \* bound: failing polls, breaks and stale sessions

ASSUME BoundAssumption == MaxMessages \in Nat /\ MaxFailures \in Nat

VARIABLES
    queue,      \* at the relay: messages not yet handed out, oldest first
    sent,       \* number of messages sent
    failures,   \* number of faults so far
    at,         \* the receiver's place in _run_realtime_with_fallback
    wakeup,     \* asyncio.Event: a broadcast arrived since the last clear
    changed,    \* asyncio.Event: connection_changed
    answer,     \* what the last poll brought
    client,     \* the Realtime client's place in run
    connected,  \* RealtimeWakeupClient.connected
    joined,     \* local of _run_connected
    fresh,      \* the session outlives the refresh margin
    stored,     \* the session in use is the one the credential file has
    channel,    \* at the Realtime server: the socket is a member of the channel
    inbox       \* frames on their way to the client

receiver == <<at, wakeup, changed, answer>>
realtime == <<client, connected, joined, fresh, stored, channel, inbox>>
vars == <<queue, sent, failures, at, wakeup, changed, answer,
          client, connected, joined, fresh, stored, channel, inbox>>

Messages == [good: BOOLEAN, offered: BOOLEAN]

TypeOK ==
    /\ queue \in Seq(Messages) /\ Len(queue) <= sent
    /\ sent \in 0..MaxMessages /\ failures \in 0..MaxFailures
    /\ at \in {"config", "clear", "poll", "handle", "asking", "failing", "short", "long",
              "ended"}
    /\ wakeup \in BOOLEAN /\ changed \in BOOLEAN
    /\ answer \in {"none", "good", "bad"}
    /\ client \in {"off", "fresh", "refresh", "store", "open", "sleep"}
    /\ connected \in BOOLEAN /\ joined \in BOOLEAN
    /\ fresh \in BOOLEAN /\ stored \in BOOLEAN
    /\ channel \in {"none", "asked", "member"}
    /\ inbox \in Seq({"ok", "refused", "broadcast"})

Init ==
    /\ queue = <<>> /\ sent = 0 /\ failures = 0
    /\ at = "config" /\ wakeup = FALSE /\ changed = FALSE /\ answer = "none"
    /\ client = "off" /\ connected = FALSE /\ joined = FALSE
    /\ fresh \in BOOLEAN /\ stored = TRUE
    /\ channel = "none" /\ inbox = <<>>

Fault == failures < MaxFailures /\ failures' = failures + 1

-----------------------------------------------------------------------------
(* The trigger of the relay's table sends to the members of the device's   *)
(* channel: at an insertion only, not when a message is claimed again.     *)
Broadcast == inbox' = IF channel = "member" THEN Append(inbox, "broadcast") ELSE inbox

(* The relay inserts a phone's message.  Whether the PC will take it or    *)
(* reject it is settled when it is made.                                   *)
Send(good) ==
    /\ sent < MaxMessages
    /\ sent' = sent + 1
    /\ queue' = Append(queue, [good |-> good, offered |-> FALSE])
    /\ Broadcast
    /\ UNCHANGED <<failures, receiver, client, connected, joined, fresh, stored, channel>>

-----------------------------------------------------------------------------
(* The receiver. *)

(* fetch_realtime_config, then the mode _run chooses.  Without Realtime    *)
(* the relay is polled in the same loop, whose waits nothing cuts short.   *)
ChooseMode ==
    /\ at = "config"
    /\ \/ at' = "clear" /\ client' \in {"off", "fresh"} /\ UNCHANGED failures
       \/ at' = "ended" /\ Fault /\ UNCHANGED client
    /\ UNCHANGED <<queue, sent, wakeup, changed, answer,
                   connected, joined, fresh, stored, channel, inbox>>

Clear ==
    /\ at = "clear"
    /\ at' = "poll" /\ wakeup' = FALSE /\ changed' = FALSE
    /\ UNCHANGED <<queue, sent, failures, answer, realtime>>

(* The relay hands out the oldest message or none. *)
Poll ==
    /\ at = "poll"
    /\ at' = "handle"
    /\ IF queue = <<>>
       THEN answer' = "none" /\ UNCHANGED queue
       ELSE answer' = (IF Head(queue).good THEN "good" ELSE "bad") /\ queue' = Tail(queue)
    /\ UNCHANGED <<sent, failures, wakeup, changed, realtime>>

(* Mutant: the events are cleared when the wait begins. *)
HandleClears ==
    /\ at = "handle"
    /\ at' = IF answer = "good" THEN "asking" ELSE IF connected THEN "long" ELSE "short"
    /\ wakeup' = FALSE /\ changed' = FALSE
    /\ UNCHANGED <<queue, sent, failures, answer, realtime>>

(* _poll_once goes on: the user is asked about a message that was          *)
(* acknowledged; a rejected one and an empty answer lead to a wait.        *)
Handle ==
    /\ at = "handle"
    /\ at' = IF answer = "good" THEN "asking" ELSE IF connected THEN "long" ELSE "short"
    /\ UNCHANGED <<queue, sent, failures, wakeup, changed, answer, realtime>>

(* The acknowledgement's answer is lost: the user is asked all the same,   *)
(* and the error raised afterwards.  A message the relay offers again was  *)
(* consumed by the replay guard and will be rejected.                      *)
AckLost ==
    /\ at = "handle" /\ answer = "good" /\ Fault
    /\ at' = "failing"
    /\ queue' \in {queue, <<[good |-> FALSE, offered |-> TRUE]>> \o queue}
    /\ UNCHANGED <<sent, wakeup, changed, answer, realtime>>

(* _wait_for_any_event returns: an event is set or the time is over. *)
Woken ==
    /\ at \in {"short", "long"}
    /\ wakeup \/ changed
    /\ at' = "clear"
    /\ UNCHANGED <<queue, sent, failures, wakeup, changed, answer, realtime>>

(* Mutant: with a connected channel the receiver waits for events only. *)
TimeoutShort ==
    /\ at = "short"
    /\ at' = "clear"
    /\ UNCHANGED <<queue, sent, failures, wakeup, changed, answer, realtime>>

Timeout ==
    /\ at \in {"short", "long"}
    /\ at' = "clear"
    /\ UNCHANGED <<queue, sent, failures, wakeup, changed, answer, realtime>>

(* _run raises: its finally ends the Realtime client.  A session that was  *)
(* refreshed but not stored is gone with it.                               *)
Raise ==
    /\ at' = "ended"
    /\ client' = "off" /\ connected' = FALSE /\ joined' = FALSE
    /\ fresh' = (fresh /\ stored) /\ stored' = TRUE
    /\ channel' = "none" /\ inbox' = <<>>
    /\ UNCHANGED <<sent, wakeup, changed, answer>>

(* A poll fails, or the relay refuses the acknowledgement of its message,  *)
(* or the rejection of a message is lost.  The relay offers a message      *)
(* whose answer it did not get again, without a broadcast.                 *)
PollFails ==
    /\ Fault
    /\ \/ at = "poll" /\ UNCHANGED queue
       \/ at = "poll" /\ queue # <<>> /\ queue' = [queue EXCEPT ![1].offered = TRUE]
       \/ /\ at = "handle" /\ answer # "none"
          /\ queue' \in {queue, <<[good |-> FALSE, offered |-> TRUE]>> \o queue}
    /\ Raise

(* on_url returns: the modal question has no timeout.  After a question    *)
(* the receiver polls at once, unless the acknowledgement was lost.        *)
UserAnswers ==
    \/ /\ at = "asking"
       /\ at' = "clear"
       /\ UNCHANGED <<queue, sent, failures, wakeup, changed, answer, realtime>>
    \/ /\ at = "failing"
       /\ Raise
       /\ UNCHANGED <<queue, failures>>

(* _run_group makes a new receiver, with events of its own, after a delay. *)
Restart ==
    /\ at = "ended"
    /\ at' = "config" /\ wakeup' = FALSE /\ changed' = FALSE /\ answer' = "none"
    /\ UNCHANGED <<queue, sent, failures, realtime>>

-----------------------------------------------------------------------------
(* The Realtime client. *)

(* _set_connected tells the receiver of a change only. *)
SetConnected(value) ==
    /\ connected' = value
    /\ changed' = (changed \/ connected # value)

EnsureFresh ==
    /\ client = "fresh"
    /\ client' = IF fresh THEN "store" ELSE "refresh"
    /\ UNCHANGED <<queue, sent, failures, receiver, connected, joined, fresh, stored,
                   channel, inbox>>

(* refresh_session: the new session is in memory only. *)
Refresh ==
    /\ client = "refresh"
    /\ client' = "store" /\ fresh' = TRUE /\ stored' = FALSE
    /\ UNCHANGED <<queue, sent, failures, receiver, connected, joined, channel, inbox>>

(* Mutant: a failing store is ignored. *)
StoreSessionMaybe ==
    /\ client = "store"
    /\ client' = "open" /\ stored' \in {stored, TRUE}
    /\ joined' = FALSE /\ channel' = "asked" /\ inbox' = <<>>
    /\ UNCHANGED <<queue, sent, failures, receiver, connected, fresh>>

(* on_session stores whatever session will be used, then the client joins. *)
StoreSession ==
    /\ client = "store"
    /\ client' = "open" /\ stored' = TRUE
    /\ joined' = FALSE /\ channel' = "asked" /\ inbox' = <<>>
    /\ UNCHANGED <<queue, sent, failures, receiver, connected, fresh>>

(* The server answers the join. *)
Admit(accepted) ==
    /\ channel = "asked" /\ client = "open"
    /\ accepted \/ failures < MaxFailures
    /\ failures' = IF accepted THEN failures ELSE failures + 1
    /\ channel' = IF accepted THEN "member" ELSE "none"
    /\ inbox' = Append(inbox, IF accepted THEN "ok" ELSE "refused")
    /\ UNCHANGED <<queue, sent, receiver, client, connected, joined, fresh, stored>>

(* One frame of the loop in _run_connected. *)
Frame ==
    /\ client = "open" /\ inbox # <<>> /\ Head(inbox) # "refused"
    /\ inbox' = Tail(inbox)
    /\ IF Head(inbox) = "ok"
       THEN joined' = TRUE /\ SetConnected(TRUE) /\ UNCHANGED wakeup
       ELSE wakeup' = (wakeup \/ joined) /\ UNCHANGED <<joined, connected, changed>>
    /\ UNCHANGED <<queue, sent, failures, at, answer, client, fresh, stored, channel>>

(* Mutant: the finally of _run_connected does not report. *)
DisconnectSilently(next) ==
    /\ client' = next /\ UNCHANGED <<connected, changed>> /\ joined' = FALSE
    /\ channel' = "none" /\ inbox' = <<>>
    /\ UNCHANGED <<queue, sent, at, wakeup, answer, stored>>

(* The client leaves the channel; it sleeps before its next attempt unless *)
(* the socket was closed in order.                                         *)
Disconnect(next) ==
    /\ client' = next /\ SetConnected(FALSE) /\ joined' = FALSE
    /\ channel' = "none" /\ inbox' = <<>>
    /\ UNCHANGED <<queue, sent, at, wakeup, answer, stored>>

(* A refused join, an error or close frame, or a broken socket is seen. *)
SocketFails ==
    /\ client = "open"
    /\ channel = "none"
    /\ \E next \in {"sleep", "fresh"} : Disconnect(next)
    /\ UNCHANGED <<failures, fresh>>

(* The session is about to expire: asyncio.timeout ends the connection. *)
RenewalDue ==
    /\ client = "open" /\ Fault
    /\ fresh' = FALSE
    /\ Disconnect("sleep")

(* The refresh or the store of the session fails. *)
SessionFails ==
    /\ client \in {"refresh", "store"} /\ Fault
    /\ Disconnect("sleep")
    /\ UNCHANGED fresh

WakeUp ==
    /\ client = "sleep"
    /\ client' = "fresh"
    /\ UNCHANGED <<queue, sent, failures, receiver, connected, joined, fresh, stored,
                   channel, inbox>>

(* The channel dies at the server's side; the client has not seen it yet,  *)
(* and what was broadcast but not read is lost with it.                    *)
ChannelDies ==
    /\ channel # "none" /\ Fault
    /\ channel' = "none" /\ inbox' = <<>>
    /\ UNCHANGED <<queue, sent, receiver, client, connected, joined, fresh, stored>>

-----------------------------------------------------------------------------
ReceiverSteps == ChooseMode \/ Clear \/ Poll \/ Handle \/ Woken \/ Restart

ClientSteps == EnsureFresh \/ Refresh \/ StoreSession \/ Frame \/ WakeUp

Next ==
    \/ \E good \in BOOLEAN : Send(good)
    \/ ReceiverSteps
    \/ Timeout
    \/ PollFails \/ AckLost
    \/ UserAnswers
    \/ ClientSteps
    \/ \E accepted \in BOOLEAN : Admit(accepted)
    \/ SocketFails
    \/ RenewalDue
    \/ SessionFails
    \/ ChannelDies

Spec == Init /\ [][Next]_vars

(* Only the receiver's own steps and its timers are fair: nothing is       *)
(* assumed of the Realtime server, of its client, of the phones or of the  *)
(* user.                                                                   *)
FairSpec == Spec /\ WF_vars(ReceiverSteps) /\ WF_vars(Timeout)

-----------------------------------------------------------------------------
(* The long sleep is only a net: a message that was queued behind the last *)
(* poll has a signal set, on its way, or replaced by a break that the      *)
(* client still has to notice.  (After a rejected message the code sleeps  *)
(* although more may be queued, and a message offered again has no         *)
(* broadcast.)                                                             *)
SleepIsSafe ==
    at = "long" /\ ~wakeup /\ ~changed /\ answer = "none"
        /\ (\E i \in 1..Len(queue) : ~queue[i].offered)
    => \/ Contains(inbox, "broadcast")
       \/ connected /\ channel # "member"

(* The event the receiver chooses its timeout by says what the client      *)
(* knows, through refreshes, refusals and breaks: connected exactly while  *)
(* a joined channel is being read.                                         *)
ConnectedIsJoined == connected <=> (client = "open" /\ joined)

(* What the receiver chooses its sleep by can be relied on: the connection *)
(* it is told of, and the broadcast behind a long sleep.                   *)
SignalsAreTrue == TypeOK /\ ConnectedIsJoined /\ SleepIsSafe

(* A session is in the credential file before it is used: a crash at any   *)
(* moment of a connection does not lose the refresh token that replaced    *)
(* the stored one.                                                         *)
StoredBeforeUse == client = "open" => stored

(* Every message leaves the queue, whatever happens to Realtime, unless    *)
(* the receiver waits forever for the user's answer to a question: it      *)
(* comes back to its poll after faults, rejections and lost broadcasts.    *)
EverythingIsPolled == []<>(at \notin {"asking", "failing"}) => []<>(queue = <<>>)
=============================================================================
