------------------------ MODULE DeliverySystem_proofs ------------------------
(***************************************************************************)
(* Theorems about the hosted relay's message side, for any messages, any   *)
(* number of concurrent clients, and any lease, lifetime and clock bound;  *)
(* and on top of them about a delivery from the phone to the PC's          *)
(* question, for any messages and links and any number of faults.          *)
(***************************************************************************)
EXTENDS DeliverySystem, TLAPS

-----------------------------------------------------------------------------
(*                       The relay by itself                               *)

(***************************************************************************)
(* What every call in progress knows: a call about a message names one, a  *)
(* captured time is not ahead of the clock, and a revocation that has got  *)
(* to its DELETE has marked the pair.                                      *)
(***************************************************************************)
Fits(c) == /\ c.op \in {"submit", "status", "ack", "nack"} => c.msg \in Message
           /\ c.at <= clock
           /\ c.op = "revoke" /\ c.stage = "mid" => revoked

CallsFit == \A s \in Slot : Fits(call[s])

IInv == /\ RelayTypeOK
        /\ CallsFit
        /\ purged => revoked
        /\ purged => \A m \in Message : ~Stored(m)

LEMMA NoCallFits == ASSUME RelayTypeOK PROVE NoCall \in Call /\ Fits(NoCall)
<1>1. NoCall \in Call
  BY DEF NoCall, Call, Op, Result
<1>2. NoCall.at = 0 /\ NoCall.op = "none"
  BY DEF NoCall
<1> QED
  BY <1>1, <1>2 DEF Fits, RelayTypeOK

\* A handler's answer is a call again, and fits.
LEMMA AnswerFits ==
  ASSUME RelayTypeOK, NEW s \in Slot, NEW c \in Call,
         c.op \in {"submit", "status", "ack", "nack"} => c.msg \in Message
  PROVE  Answer(s, c) \in Call /\ Fits(Answer(s, c))
<1>1. CASE s = "orphan"
  BY <1>1, NoCallFits DEF Answer
<1>2. CASE s # "orphan"
  <2> DEFINE d == [c EXCEPT !.stage = "reply", !.at = 0]
  <2>1. d \in Call
    BY DEF Call
  <2>2. d.op = c.op /\ d.msg = c.msg /\ d.at = 0 /\ d.stage = "reply"
    BY DEF Call
  <2>3. Fits(d)
    BY <2>2 DEF Fits, RelayTypeOK
  <2> QED
    BY <1>2, <2>1, <2>3 DEF Answer
<1> QED
  BY <1>1, <1>2

\* The invariant's part about the calls survives a step that puts a fitting
\* call into one slot and neither turns the clock back nor revives the pair.
LEMMA OneSlotChanges ==
  ASSUME IInv, NEW s \in Slot, NEW c \in Call,
         c.op \in {"submit", "status", "ack", "nack"} => c.msg \in Message,
         c.at <= clock, c.op = "revoke" /\ c.stage = "mid" => revoked',
         clock' = clock, revoked => revoked', call' = [call EXCEPT ![s] = c]
  PROVE  call' \in [Slot -> Call] /\ CallsFit'
<1>1. call' \in [Slot -> Call]
  BY DEF IInv, RelayTypeOK
<1>2. ASSUME NEW t \in Slot PROVE Fits(call[t])'
  BY <1>2 DEF IInv, CallsFit, Fits, RelayTypeOK
<1> QED
  BY <1>1, <1>2 DEF CallsFit

\* A fresh call, or none, fits at any time.
LEMMA FreshCallChanges ==
  ASSUME IInv, NEW s \in Slot, NEW c \in Call, c.at = 0, c.stage = "sent",
         c.op \in {"submit", "status", "ack", "nack"} => c.msg \in Message,
         UNCHANGED <<clock, revoked>>, call' = [call EXCEPT ![s] = c]
  PROVE  call' \in [Slot -> Call] /\ CallsFit'
<1>1. c.at <= clock /\ clock' = clock /\ (revoked => revoked')
  BY DEF IInv, RelayTypeOK
<1>2. c.op = "revoke" /\ c.stage = "mid" => revoked'
  OBVIOUS
<1> QED
  BY <1>1, <1>2, OneSlotChanges

LEMMA AnswerChanges ==
  ASSUME IInv, NEW s \in Slot, NEW c \in Call,
         c.op \in {"submit", "status", "ack", "nack"} => c.msg \in Message,
         clock' = clock, revoked => revoked', call' = [call EXCEPT ![s] = Answer(s, c)]
  PROVE  call' \in [Slot -> Call] /\ CallsFit'
<1>1. Answer(s, c) \in Call /\ Fits(Answer(s, c))
  BY AnswerFits DEF IInv
<1> QED
  BY <1>1, OneSlotChanges DEF Fits

LEMMA ReplyChanges ==
  ASSUME IInv, NEW s \in Slot, NEW r \in Result, Reply(s, r),
         clock' = clock, revoked => revoked'
  PROVE  call' \in [Slot -> Call] /\ CallsFit'
<1> DEFINE c == [call[s] EXCEPT !.res = r, !.exp = 0]
<1>1. c \in Call
  BY DEF IInv, RelayTypeOK, Call
<1>2. c.op = call[s].op /\ c.msg = call[s].msg
  BY DEF IInv, RelayTypeOK, Call
<1>3. Fits(call[s])
  BY DEF IInv, CallsFit
<1>4. c.op \in {"submit", "status", "ack", "nack"} => c.msg \in Message
  BY <1>2, <1>3 DEF Fits
<1>5. call' = [call EXCEPT ![s] = Answer(s, c)]
  BY DEF Reply
<1> HIDE DEF c
<1> QED
  BY <1>1, <1>4, <1>5, AnswerChanges

LEMMA ProceedChanges ==
  ASSUME IInv, NEW s \in Slot, Proceed(s), call[s].op # "revoke" \/ revoked',
         clock' = clock, revoked => revoked'
  PROVE  call' \in [Slot -> Call] /\ CallsFit'
<1> DEFINE c == [call[s] EXCEPT !.stage = "mid", !.at = clock]
<1>1. c \in Call
  BY DEF IInv, RelayTypeOK, Call
<1>2. c.op = call[s].op /\ c.msg = call[s].msg /\ c.at = clock
  BY DEF IInv, RelayTypeOK, Call
<1>3. Fits(call[s]) /\ clock \in Nat
  BY DEF IInv, CallsFit, RelayTypeOK
<1>4. call' = [call EXCEPT ![s] = c]
  BY DEF Proceed, IInv, RelayTypeOK, Call
<1>5. c.op \in {"submit", "status", "ack", "nack"} => c.msg \in Message
  BY <1>2, <1>3 DEF Fits
<1>6. c.at <= clock /\ (c.op = "revoke" /\ c.stage = "mid" => revoked')
  BY <1>2, <1>3
<1> HIDE DEF c
<1> QED
  BY <1>1, <1>4, <1>5, <1>6, OneSlotChanges

\* A client that gives up or is told "unavailable" may leave its call behind.
LEMMA OrphanChanges ==
  ASSUME IInv, NEW s \in Slot, s # "orphan", NEW c \in Call,
         c.op \in {"submit", "status", "ack", "nack"} => c.msg \in Message,
         c.at <= clock, c.op = "revoke" /\ c.stage = "mid" => revoked,
         NEW o \in {NoCall, call[s], call["orphan"]},
         clock' = clock, revoked' = revoked,
         call' = [call EXCEPT ![s] = c, !["orphan"] = o]
  PROVE  call' \in [Slot -> Call] /\ CallsFit'
<1> USE RelayAssumption
<1>1. NoCall \in Call /\ Fits(NoCall)
  BY NoCallFits DEF IInv
<1>2. o \in Call /\ Fits(o)
  BY <1>1 DEF IInv, RelayTypeOK, CallsFit
<1>3. call' \in [Slot -> Call]
  BY <1>2 DEF IInv, RelayTypeOK
<1>4. ASSUME NEW t \in Slot PROVE Fits(call[t])'
  <2>1. call'[t] \in {call[t], c, o}
    BY DEF IInv, RelayTypeOK
  <2>2. Fits(call[t])
    BY DEF IInv, CallsFit
  <2> QED
    BY <1>2, <2>1, <2>2 DEF Fits
<1> QED
  BY <1>3, <1>4 DEF CallsFit
-----------------------------------------------------------------------------
(***************************************************************************)
(* The invariant is inductive.                                             *)
(***************************************************************************)
LEMMA IInvInit == RelayInit => IInv
<1> SUFFICES ASSUME RelayInit PROVE IInv
  OBVIOUS
<1>1. clock = 1 /\ lastSeen = 0
  BY DEF RelayInit
<1>2. revoked = FALSE /\ purged = FALSE
  BY DEF RelayInit
<1>3. NoRow \in Row
  BY DEF NoRow, Row, Status
<1>4. rows \in [Message -> Row]
  BY <1>3 DEF RelayInit
<1>5. NoCall \in Call
  BY DEF NoCall, Call, Op, Result
<1>6. call \in [Slot -> Call]
  BY <1>5 DEF RelayInit
<1>7. RelayTypeOK
  BY <1>1, <1>2, <1>4, <1>6 DEF RelayTypeOK
<1>8. CallsFit
  BY <1>7, NoCallFits DEF RelayInit, CallsFit
<1> QED
  BY <1>2, <1>7, <1>8 DEF IInv

\* Steps that change no row and no pair need only their calls looked at.
LEMMA OnlyCallsChange ==
  ASSUME IInv, call' \in [Slot -> Call], CallsFit',
         UNCHANGED <<clock, revoked, purged, rows>>, lastSeen' \in Nat
  PROVE  IInv'
BY DEF IInv, RelayTypeOK, Stored

\* Steps that change rows keep the invariant if none appears after a purge.
LEMMA RowsChange ==
  ASSUME IInv, call' \in [Slot -> Call], CallsFit',
         UNCHANGED <<clock, revoked, purged, lastSeen>>,
         rows' \in [Message -> Row],
         purged => \A m \in Message : rows'[m].status = "absent"
  PROVE  IInv'
BY DEF IInv, RelayTypeOK, Stored

LEMMA NoRowType == NoRow \in Row /\ NoRow.status = "absent"
BY DEF NoRow, Row, Status

LEMMA RowUpdate ==
  ASSUME NEW r \in Row, NEW st \in Status, NEW t \in Nat
  PROVE  [r EXCEPT !.status = st, !.lease = t] \in Row
BY DEF Row

LEMMA RequestType ==
  ASSUME NEW op \in Op, NEW m \in Message \cup {NoMessage}, NEW e \in Nat
  PROVE  LET c == Request(op, m, e)
         IN  c \in Call /\ c.op = op /\ c.msg = m /\ c.at = 0 /\ c.stage = "sent"
BY DEF Request, NoCall, Call, Op, Result

LEMMA SubmitKeepsIInv ==
  ASSUME IInv, NEW s \in Slot, SubmitAuthorize(s) \/ SubmitInsert(s)
  PROVE  IInv'
<1> USE DEF tables
<1>1. CASE SubmitAuthorize(s)
  <2>1. call[s].op # "revoke"
    BY <1>1 DEF SubmitAuthorize, At
  <2>2. \/ \E r \in Result : Reply(s, r)
        \/ Proceed(s)
    BY <1>1 DEF SubmitAuthorize, Result
  <2>3. UNCHANGED <<clock, revoked, purged, lastSeen, rows>>
    BY <1>1 DEF SubmitAuthorize
  <2>4. call' \in [Slot -> Call] /\ CallsFit'
    BY <2>1, <2>2, <2>3, ReplyChanges, ProceedChanges
  <2> QED
    BY <2>3, <2>4, OnlyCallsChange DEF IInv, RelayTypeOK
<1>2. CASE SubmitInsert(s)
  <2> DEFINE m == call[s].msg
             new == [NoRow EXCEPT !.status = "pending", !.created = call[s].at,
                                  !.expires = call[s].exp]
  <2>1. m \in Message /\ call[s] \in Call
    BY <1>2 DEF SubmitInsert, At, IInv, CallsFit, Fits, RelayTypeOK
  <2>2. \E r \in Result : Reply(s, r)
    BY <1>2 DEF SubmitInsert, Result
  <2>3. UNCHANGED <<clock, revoked, purged, lastSeen>>
    BY <1>2 DEF SubmitInsert
  <2>4. call' \in [Slot -> Call] /\ CallsFit'
    BY <2>2, <2>3, ReplyChanges
  <2>5. new \in Row
    BY <2>1 DEF NoRow, Row, Status, Call
  <2>6. UNCHANGED rows \/ (~revoked /\ rows' = [rows EXCEPT ![m] = new])
    BY <1>2 DEF SubmitInsert
  <2>7. CASE UNCHANGED rows
    BY <2>3, <2>4, <2>7, OnlyCallsChange DEF IInv, RelayTypeOK
  <2>8. CASE ~revoked /\ rows' = [rows EXCEPT ![m] = new]
    <3>1. ~purged
      BY <2>8 DEF IInv
    <3>2. rows' \in [Message -> Row]
      BY <2>5, <2>8 DEF IInv, RelayTypeOK
    <3> QED
      BY <2>3, <2>4, <3>1, <3>2, RowsChange
  <2> QED
    BY <2>6, <2>7, <2>8
<1> QED
  BY <1>1, <1>2

LEMMA PollKeepsIInv ==
  ASSUME IInv, NEW s \in Slot, PollHeartbeat(s) \/ PollClaim(s)
  PROVE  IInv'
<1>1. CASE PollHeartbeat(s)
  <2>1. UNCHANGED <<clock, revoked, purged, rows>> /\ lastSeen' \in Nat
    BY <1>1 DEF PollHeartbeat, IInv, RelayTypeOK
  <2>2. call' \in [Slot -> Call] /\ CallsFit'
    BY <1>1, <2>1, ProceedChanges DEF PollHeartbeat, At
  <2> QED
    BY <2>1, <2>2, OnlyCallsChange
<1>2. CASE PollClaim(s)
  <2>1. UNCHANGED <<clock, revoked, purged, lastSeen>>
    BY <1>2 DEF PollClaim
  <2>2. call[s] \in Call /\ call[s].op = "poll" /\ call[s].at \in Nat
    BY <1>2 DEF PollClaim, At, IInv, RelayTypeOK, Call
  <2>3. CASE Reply(s, "empty") /\ UNCHANGED rows
    <3>1. call' \in [Slot -> Call] /\ CallsFit'
      BY <2>1, <2>3, ReplyChanges DEF Result
    <3> QED
      BY <2>1, <2>3, <3>1, OnlyCallsChange DEF IInv, RelayTypeOK
  <2>4. ASSUME NEW m \in Claimable(call[s].at),
               rows' = [rows EXCEPT ![m] =
                          [@ EXCEPT !.status = "delivering",
                                    !.lease = call[s].at + Lease]],
               call' = [call EXCEPT ![s] =
                          Answer(s, [call[s] EXCEPT !.res = "event", !.msg = m])]
        PROVE  IInv'
    <3> DEFINE c == [call[s] EXCEPT !.res = "event", !.msg = m]
    <3>1. m \in Message /\ ~revoked
      BY <2>4 DEF Claimable
    <3>2. c \in Call /\ c.op = "poll"
      BY <2>2, <3>1 DEF Call, Result
    <3>3. call' = [call EXCEPT ![s] = Answer(s, c)]
      BY <2>4
    <3> HIDE DEF c
    <3>4. call' \in [Slot -> Call] /\ CallsFit'
      BY <2>1, <3>2, <3>3, AnswerChanges
    <3> DEFINE new == [rows[m] EXCEPT !.status = "delivering",
                                      !.lease = call[s].at + Lease]
    <3>5. new \in Row
      <4>1. call[s].at + Lease \in Nat
        BY <2>2, RelayAssumption
      <4>2. rows[m] \in Row
        BY <3>1 DEF IInv, RelayTypeOK
      <4> QED
        BY <4>1, <4>2, RowUpdate DEF Status
    <3>6. rows' = [rows EXCEPT ![m] = new]
      BY <2>4, <3>1 DEF IInv, RelayTypeOK
    <3> HIDE DEF new
    <3>7. rows' \in [Message -> Row]
      BY <3>5, <3>6 DEF IInv, RelayTypeOK
    <3> QED
      BY <2>1, <3>1, <3>4, <3>7, RowsChange DEF IInv
  <2> QED
    BY <1>2, <2>3, <2>4 DEF PollClaim
<1> QED
  BY <1>1, <1>2

\* Neither an acknowledgement nor a refusal makes a row.
LEMMA SetKeepsIInv ==
  ASSUME IInv, call' \in [Slot -> Call], CallsFit', NEW m \in Message, NEW r \in Row,
         UNCHANGED <<clock, revoked, purged, lastSeen>>, Set(m, r)
  PROVE  IInv'
<1>1. CASE Stored(m)
  <2>1. ~purged
    BY <1>1 DEF IInv
  <2>2. rows' = [rows EXCEPT ![m] = r]
    BY <1>1 DEF Set
  <2>3. rows' \in [Message -> Row]
    BY <2>2 DEF IInv, RelayTypeOK
  <2> QED
    BY <2>1, <2>3, RowsChange
<1>2. CASE ~Stored(m)
  BY <1>2, OnlyCallsChange DEF Set, IInv, RelayTypeOK
<1> QED
  BY <1>1, <1>2

LEMMA AckKeepsIInv ==
  ASSUME IInv, NEW s \in Slot, AckSelect(s) \/ AckStore(s) \/ NackStore(s)
  PROVE  IInv'
<1> DEFINE m == call[s].msg
<1> USE DEF tables
<1>1. m \in Message /\ call[s] \in Call /\ rows[m] \in Row /\ call[s].exp \in Nat
  <2>1. m \in Message /\ call[s] \in Call
    BY DEF AckSelect, AckStore, NackStore, At, IInv, CallsFit, Fits, RelayTypeOK
  <2> QED
    BY <2>1 DEF IInv, RelayTypeOK, Call
<1>2. UNCHANGED <<clock, revoked, purged, lastSeen>> /\ call[s].op # "revoke"
  BY DEF AckSelect, AckStore, NackStore, At
<1>3. (\E r \in Result : Reply(s, r)) \/ Proceed(s)
  BY DEF AckSelect, AckStore, NackStore, Result
<1>4. call' \in [Slot -> Call] /\ CallsFit'
  BY <1>2, <1>3, ReplyChanges, ProceedChanges
<1>5. CASE AckSelect(s)
  BY <1>2, <1>4, <1>5, OnlyCallsChange DEF AckSelect, IInv, RelayTypeOK
<1>6. CASE AckStore(s)
  <2> DEFINE r == [rows[m] EXCEPT !.status = "delivered", !.lease = 0,
                                  !.ack = call[s].exp]
  <2>1. r \in Row
    BY <1>1 DEF Row, Status
  <2>2. UNCHANGED rows \/ Set(m, r)
    BY <1>6 DEF AckStore
  <2>3. CASE UNCHANGED rows
    BY <1>2, <1>4, <2>3, OnlyCallsChange DEF IInv, RelayTypeOK
  <2>4. CASE Set(m, r)
    <3> HIDE DEF r
    <3> QED
      BY <1>1, <1>2, <1>4, <2>1, <2>4, SetKeepsIInv
  <2> QED
    BY <2>2, <2>3, <2>4
<1>7. CASE NackStore(s)
  <2> DEFINE r == [rows[m] EXCEPT !.status = "rejected", !.lease = 0]
  <2>1. r \in Row
    BY <1>1 DEF Row, Status
  <2>2. Set(m, r)
    BY <1>7 DEF NackStore
  <2> HIDE DEF r
  <2> QED
    BY <1>1, <1>2, <1>4, <2>1, <2>2, SetKeepsIInv
<1> QED
  BY <1>5, <1>6, <1>7

LEMMA StatusKeepsIInv ==
  ASSUME IInv, NEW s \in Slot, StatusAuthorize(s) \/ StatusRead(s)
  PROVE  IInv'
<1> USE DEF tables
<1>1. UNCHANGED <<clock, revoked, purged, lastSeen, rows>>
  BY DEF StatusAuthorize, StatusRead
<1>2. CASE StatusAuthorize(s)
  <2>1. call' \in [Slot -> Call] /\ CallsFit'
    BY <1>1, <1>2, ReplyChanges, ProceedChanges DEF StatusAuthorize, At, Result
  <2> QED
    BY <1>1, <2>1, OnlyCallsChange DEF IInv, RelayTypeOK
<1>3. CASE StatusRead(s)
  <2> DEFINE m == call[s].msg
             c == [call[s] EXCEPT !.res = Verdict(m), !.exp = rows[m].ack]
  <2>1. m \in Message /\ call[s] \in Call
    BY <1>3 DEF StatusRead, At, IInv, CallsFit, Fits, RelayTypeOK
  <2>2. Verdict(m) \in Result
    BY DEF Verdict, Result
  <2>3. rows[m].ack \in Nat
    BY <2>1 DEF IInv, RelayTypeOK, Row
  <2>4. c \in Call /\ c.msg \in Message
    BY <2>1, <2>2, <2>3 DEF Call
  <2>5. call' = [call EXCEPT ![s] = Answer(s, c)]
    BY <1>3 DEF StatusRead
  <2> HIDE DEF c
  <2>6. call' \in [Slot -> Call] /\ CallsFit'
    BY <1>1, <2>4, <2>5, AnswerChanges
  <2> QED
    BY <1>1, <2>6, OnlyCallsChange DEF IInv, RelayTypeOK
<1> QED
  BY <1>2, <1>3

LEMMA RevokeKeepsIInv ==
  ASSUME IInv, NEW s \in Slot, RevokeMark(s) \/ RevokePurge(s)
  PROVE  IInv'
<1>1. CASE RevokeMark(s)
  <2>1. call' \in [Slot -> Call] /\ CallsFit'
    BY <1>1, ProceedChanges DEF RevokeMark, At
  <2> QED
    BY <1>1, <2>1 DEF RevokeMark, IInv, RelayTypeOK, Stored
<1>2. CASE RevokePurge(s)
  <2>1. UNCHANGED <<clock, revoked, lastSeen>> /\ revoked
    BY <1>2 DEF RevokePurge, At, IInv, CallsFit, Fits
  <2>2. call' \in [Slot -> Call] /\ CallsFit'
    BY <1>2, <2>1, ReplyChanges DEF RevokePurge, Result
  <2>3. rows' \in [Message -> Row] /\ \A m \in Message : rows'[m].status = "absent"
    BY <1>2, NoRowType DEF RevokePurge
  <2>4. purged' \in BOOLEAN
    BY <1>2 DEF RevokePurge
  <2> QED
    BY <2>1, <2>2, <2>3, <2>4 DEF IInv, RelayTypeOK, Stored
<1> QED
  BY <1>1, <1>2

LEMMA CleanupKeepsIInv == ASSUME IInv, Cleanup PROVE IInv'
<1>1. UNCHANGED <<clock, revoked, purged, lastSeen, call>>
  BY DEF Cleanup
<1>2. call' \in [Slot -> Call] /\ CallsFit'
  BY <1>1 DEF IInv, RelayTypeOK, CallsFit, Fits
<1>3. ASSUME NEW m \in Message
      PROVE  rows'[m] \in Row /\ (rows[m].status = "absent" => rows'[m].status = "absent")
  <2>1. rows'[m] \in {NoRow, [rows[m] EXCEPT !.ack = 0], rows[m]}
    BY DEF Cleanup
  <2>2. rows[m] \in Row
    BY DEF IInv, RelayTypeOK
  <2>3. [rows[m] EXCEPT !.ack = 0] \in Row
        /\ [rows[m] EXCEPT !.ack = 0].status = rows[m].status
    BY <2>2 DEF Row
  <2> QED
    BY <2>1, <2>2, <2>3, NoRowType
<1>4. rows' \in [Message -> Row]
  BY <1>3 DEF Cleanup
<1>5. purged => \A m \in Message : rows'[m].status = "absent"
  BY <1>3 DEF IInv, Stored
<1> QED
  BY <1>1, <1>2, <1>4, <1>5, RowsChange

\* The failures and the clients: no row is touched.
LEMMA OthersKeepIInv ==
  ASSUME IInv, \/ \E s \in Slot : Unavailable(s) \/ ClientCall(s) \/ ClientGone(s)
               \/ OrphanDies \/ Tick
  PROVE  IInv'
<1> USE RelayAssumption DEF tables
<1>0. NoCall \in Call /\ Fits(NoCall) /\ NoCall.op = "none" /\ NoCall.at = 0
      /\ NoCall.stage = "sent"
  BY NoCallFits DEF IInv, NoCall
<1>1. ASSUME NEW s \in Slot, Unavailable(s) PROVE IInv'
  <2> DEFINE d == [call[s] EXCEPT !.res = "unavailable", !.exp = 0]
             c == Answer(s, d)
  <2>1. d \in Call /\ d.op = call[s].op /\ d.msg = call[s].msg
    BY DEF IInv, RelayTypeOK, Call, Result
  <2>2. Fits(call[s])
    BY DEF IInv, CallsFit
  <2>3. d.op \in {"submit", "status", "ack", "nack"} => d.msg \in Message
    BY <2>1, <2>2 DEF Fits
  <2>4. UNCHANGED <<clock, revoked, purged, lastSeen, rows>> /\ s # "orphan"
    BY <1>1 DEF Unavailable
  <2>5. PICK o \in Orphaned(s) : call' = [call EXCEPT ![s] = c, !["orphan"] = o]
    BY <1>1 DEF Unavailable
  <2> HIDE DEF d
  <2>6. c \in Call /\ Fits(c)
    BY <2>1, <2>3, AnswerFits DEF IInv
  <2> HIDE DEF c
  <2>7. o \in {NoCall, call[s], call["orphan"]}
    BY <2>5 DEF Orphaned
  <2>8. call' \in [Slot -> Call] /\ CallsFit'
    BY <2>4, <2>5, <2>6, <2>7, OrphanChanges DEF Fits
  <2> QED
    BY <2>4, <2>8, OnlyCallsChange DEF IInv, RelayTypeOK
<1>2. ASSUME NEW s \in Slot, ClientGone(s) PROVE IInv'
  <2>1. UNCHANGED <<clock, revoked, purged, lastSeen, rows>> /\ s # "orphan"
    BY <1>2 DEF ClientGone, Abandon
  <2>2. PICK o \in {NoCall, call[s], call["orphan"]} :
          call' = [call EXCEPT ![s] = NoCall, !["orphan"] = o]
    BY <1>2 DEF ClientGone, Abandon, Orphaned
  <2>3. call' \in [Slot -> Call] /\ CallsFit'
    BY <1>0, <2>1, <2>2, OrphanChanges DEF Fits
  <2> QED
    BY <2>1, <2>3, OnlyCallsChange DEF IInv, RelayTypeOK
<1>3. ASSUME NEW s \in Slot, ClientCall(s) PROVE IInv'
  <2>1. UNCHANGED <<clock, revoked, purged, lastSeen, rows>>
    BY <1>3 DEF ClientCall
  <2>2. PICK c \in Requests : call' = [call EXCEPT ![s] = c]
    BY <1>3 DEF ClientCall
  <2>3. clock + MessageTTL \in Nat /\ clock + AckTTL \in Nat /\ clock \in Nat
    BY DEF IInv, RelayTypeOK
  <2>4. /\ c \in Call /\ c.at = 0 /\ c.stage = "sent"
        /\ c.op \in {"submit", "status", "ack", "nack"} => c.msg \in Message
    <3>1. CASE \E m \in Message : c = Request("submit", m, clock + MessageTTL)
      BY <2>3, <3>1, RequestType DEF Op
    <3>2. CASE \E m \in Message : c = Request("ack", m, clock + AckTTL)
      BY <2>3, <3>2, RequestType DEF Op
    <3>3. CASE \E m \in Message, op \in {"nack", "status"} : c = Request(op, m, 0)
      BY <3>3, RequestType DEF Op
    <3>4. CASE \E op \in {"poll", "revoke"} : c = Request(op, NoMessage, 0)
      BY <3>4, RequestType DEF Op
    <3> QED
      BY <2>2, <3>1, <3>2, <3>3, <3>4 DEF Requests
  <2>5. call' \in [Slot -> Call] /\ CallsFit'
    BY <2>1, <2>2, <2>4, FreshCallChanges
  <2> QED
    BY <2>1, <2>5, OnlyCallsChange DEF IInv, RelayTypeOK
<1>4. CASE OrphanDies
  <2>1. UNCHANGED <<clock, revoked, purged, lastSeen, rows>>
    BY <1>4 DEF OrphanDies
  <2>2. call' \in [Slot -> Call] /\ CallsFit'
    BY <1>0, <1>4, <2>1, FreshCallChanges DEF OrphanDies
  <2> QED
    BY <2>1, <2>2, OnlyCallsChange DEF IInv, RelayTypeOK
<1>5. CASE Tick
  <2>1. clock' = clock + 1 /\ UNCHANGED <<revoked, purged, lastSeen, rows, call>>
    BY <1>5 DEF Tick
  <2>2. ASSUME NEW s \in Slot PROVE Fits(call[s])'
    BY <2>1 DEF IInv, RelayTypeOK, CallsFit, Fits, Call
  <2> QED
    BY <2>1, <2>2 DEF IInv, RelayTypeOK, CallsFit, Stored
<1> QED
  BY <1>1, <1>2, <1>3, <1>4, <1>5

\* No step, of the relay or of its clients, leaves the invariant.
LEMMA NextKeepsIInv == ASSUME IInv, [RelayNext]_relayVars PROVE IInv'
<1>1. ASSUME NEW s \in Slot, Handle(s) PROVE IInv'
  BY <1>1, SubmitKeepsIInv, PollKeepsIInv, AckKeepsIInv, StatusKeepsIInv,
     RevokeKeepsIInv DEF Handle
<1>2. CASE UNCHANGED relayVars
  BY <1>2 DEF relayVars, IInv, RelayTypeOK, CallsFit, Fits, Stored
<1> QED
  BY <1>1, <1>2, CleanupKeepsIInv, OthersKeepIInv DEF RelayNext, RelayStep

THEOREM RelayInductive == RelaySpec => []IInv
BY NextKeepsIInv, IInvInit, PTL DEF RelaySpec

\* Every reachable state of the relay has the types its tables declare.
THEOREM RelayTypeCorrect == RelaySpec => []RelayTypeOK
<1>1. IInv => RelayTypeOK
  BY DEF IInv
<1> QED
  BY <1>1, RelayInductive, PTL

\* No delivery survives or follows the DELETE of a revocation, whatever
\* authorized calls are still on their way.
THEOREM PurgedStaysEmpty == RelaySpec => []NothingAfterPurge
<1>1. IInv => NothingAfterPurge
  BY DEF IInv, NothingAfterPurge
<1> QED
  BY <1>1, RelayInductive, PTL
-----------------------------------------------------------------------------
(***************************************************************************)
(* What a step may do to the rows: insert, claim or answer one of them, or *)
(* clean any number of them up.                                            *)
(***************************************************************************)
Inserted(m) == /\ ~revoked
               /\ rows[m].status = "absent" /\ rows'[m].status = "pending"

Claimed(m) == /\ rows[m].status \in {"pending", "delivering"}
              /\ rows'[m].status = "delivering"
              /\ rows'[m].expires = rows[m].expires
              /\ \E t \in 0 .. clock :
                   /\ rows'[m].lease = t + Lease
                   /\ rows[m].status = "delivering" => rows[m].lease <= t

Answered(m) == /\ rows[m].status # "absent"
               /\ rows'[m].status \in {"delivered", "rejected"}
               /\ rows'[m].expires = rows[m].expires

Cleaned(m) == \/ rows'[m] = rows[m]
              \/ rows'[m] = NoRow /\ (revoked \/ rows[m].expires < clock)
              \/ rows[m].status = "delivered" /\ rows'[m] = [rows[m] EXCEPT !.ack = 0]

OneRow(m) == /\ \A n \in Message \ {m} : rows'[n] = rows[n]
             /\ Inserted(m) \/ Claimed(m) \/ Answered(m)
             /\ UNCHANGED <<clock, revoked>>

RowStep == \/ UNCHANGED rows
           \/ \E m \in Message : OneRow(m)
           \/ (\A m \in Message : Cleaned(m)) /\ UNCHANGED <<clock, revoked>>

LEMMA SetIsRowStep ==
  ASSUME IInv, NEW m \in Message, NEW r \in Row, UNCHANGED <<clock, revoked>>,
         r.status \in {"delivered", "rejected"}, r.expires = rows[m].expires, Set(m, r)
  PROVE  RowStep
<1>1. CASE Stored(m)
  <2>1. rows' = [rows EXCEPT ![m] = r]
    BY <1>1 DEF Set
  <2>2. rows'[m] = r /\ \A n \in Message \ {m} : rows'[n] = rows[n]
    BY <2>1 DEF IInv, RelayTypeOK
  <2> QED
    BY <1>1, <2>2 DEF RowStep, OneRow, Answered, Stored
<1>2. CASE ~Stored(m)
  BY <1>2 DEF Set, RowStep
<1> QED
  BY <1>1, <1>2

LEMMA NextIsRowStep == ASSUME IInv, [RelayNext]_relayVars PROVE RowStep
<1> USE DEF tables
<1>1. ASSUME NEW s \in Slot, SubmitInsert(s) PROVE RowStep
  <2> DEFINE m == call[s].msg
             new == [NoRow EXCEPT !.status = "pending", !.created = call[s].at,
                                  !.expires = call[s].exp]
  <2>1. m \in Message
    BY <1>1 DEF SubmitInsert, At, IInv, CallsFit, Fits
  <2>2. UNCHANGED rows \/ (~revoked /\ ~Stored(m) /\ rows' = [rows EXCEPT ![m] = new])
    BY <1>1 DEF SubmitInsert
  <2>3. UNCHANGED <<clock, revoked>>
    BY <1>1 DEF SubmitInsert
  <2>4. new.status = "pending"
    BY DEF NoRow
  <2> HIDE DEF new
  <2>5. CASE ~revoked /\ ~Stored(m) /\ rows' = [rows EXCEPT ![m] = new]
    <3>1. rows'[m] = new /\ \A n \in Message \ {m} : rows'[n] = rows[n]
      BY <2>1, <2>5 DEF IInv, RelayTypeOK
    <3> QED
      BY <2>1, <2>3, <2>4, <2>5, <3>1 DEF RowStep, OneRow, Inserted, Stored
  <2> QED
    BY <2>2, <2>5 DEF RowStep
<1>2. ASSUME NEW s \in Slot, PollClaim(s) PROVE RowStep
  <2> DEFINE t == call[s].at
  <2>1. t \in 0 .. clock
    BY DEF IInv, RelayTypeOK, CallsFit, Fits, Call
  <2>2. UNCHANGED <<clock, revoked>>
    BY <1>2 DEF PollClaim
  <2>3. ASSUME NEW m \in Claimable(t),
               rows' = [rows EXCEPT ![m] =
                          [@ EXCEPT !.status = "delivering", !.lease = t + Lease]]
        PROVE  RowStep
    <3> DEFINE new == [rows[m] EXCEPT !.status = "delivering", !.lease = t + Lease]
    <3>1. m \in Message
      BY DEF Claimable
    <3>2. rows'[m] = new /\ \A n \in Message \ {m} : rows'[n] = rows[n]
      BY <2>3, <3>1 DEF IInv, RelayTypeOK
    <3>3. /\ new.status = "delivering" /\ new.lease = t + Lease
          /\ new.expires = rows[m].expires
      BY <3>1 DEF IInv, RelayTypeOK, Row
    <3>4. /\ rows[m].status \in {"pending", "delivering"}
          /\ rows[m].status = "delivering" => rows[m].lease <= t
      BY <2>3 DEF Claimable
    <3> HIDE DEF new, t
    <3>5. Claimed(m)
      BY <2>1, <3>2, <3>3, <3>4 DEF Claimed
    <3> QED
      BY <2>2, <3>1, <3>2, <3>5 DEF RowStep, OneRow
  <2> QED
    BY <1>2, <2>3 DEF PollClaim, RowStep
<1>3. ASSUME NEW s \in Slot, AckStore(s) \/ NackStore(s) PROVE RowStep
  <2> DEFINE m == call[s].msg
             ack == [rows[m] EXCEPT !.status = "delivered", !.lease = 0,
                                    !.ack = call[s].exp]
             nack == [rows[m] EXCEPT !.status = "rejected", !.lease = 0]
  <2>1. m \in Message /\ call[s].exp \in Nat
    BY <1>3 DEF AckStore, NackStore, At, IInv, CallsFit, Fits, RelayTypeOK, Call
  <2>2. /\ ack \in Row /\ ack.status = "delivered" /\ ack.expires = rows[m].expires
        /\ nack \in Row /\ nack.status = "rejected" /\ nack.expires = rows[m].expires
    BY <2>1 DEF IInv, RelayTypeOK, Row, Status
  <2>3. UNCHANGED <<clock, revoked>>
    BY <1>3 DEF AckStore, NackStore
  <2>4. UNCHANGED rows \/ Set(m, ack) \/ Set(m, nack)
    BY <1>3 DEF AckStore, NackStore
  <2> HIDE DEF ack, nack
  <2> QED
    BY <2>1, <2>2, <2>3, <2>4, SetIsRowStep DEF RowStep
<1>4. ASSUME NEW s \in Slot, RevokePurge(s) PROVE RowStep
  <2>1. revoked /\ UNCHANGED <<clock, revoked>>
    BY <1>4 DEF RevokePurge, At, IInv, CallsFit, Fits
  <2>2. \A m \in Message : rows'[m] = NoRow
    BY <1>4 DEF RevokePurge
  <2> QED
    BY <2>1, <2>2 DEF RowStep, Cleaned
<1>5. CASE Cleanup
  BY <1>5 DEF Cleanup, RowStep, Cleaned, Expired, StaleAck
<1>6. CASE UNCHANGED rows
  BY <1>6 DEF RowStep
<1> QED
  BY <1>1, <1>2, <1>3, <1>4, <1>5, <1>6
     DEF RelayNext, RelayStep, Handle, relayVars, SubmitAuthorize, PollHeartbeat,
         AckSelect, StatusAuthorize, StatusRead, RevokeMark, Unavailable,
         OrphanDies, Tick, ClientCall, ClientGone
-----------------------------------------------------------------------------
\* No message is handed out a second time while its lease runs.
THEOREM LeaseIsHonoured == RelaySpec => LeaseHonoured
<1> DEFINE Honoured ==
      \A m \in Message :
        /\ rows[m].status = "delivering" /\ rows'[m].status = "delivering"
        /\ rows'[m].lease # rows[m].lease
        => rows[m].lease <= clock /\ rows[m].lease < rows'[m].lease
<1>1. IInv /\ [RelayNext]_relayVars => Honoured
  <2> SUFFICES ASSUME IInv, RowStep, NEW m \in Message,
                      rows[m].status = "delivering", rows'[m].status = "delivering",
                      rows'[m].lease # rows[m].lease
               PROVE  rows[m].lease <= clock /\ rows[m].lease < rows'[m].lease
    BY NextIsRowStep
  <2>1. rows[m] \in Row /\ clock \in Nat
    BY DEF IInv, RelayTypeOK
  <2>2. rows[m].lease \in Nat
    BY <2>1 DEF Row
  <2>3. ~Cleaned(m)
    BY <2>1 DEF Cleaned, NoRow
  <2>4. Claimed(m)
    BY <2>3 DEF RowStep, OneRow, Inserted, Answered
  <2>5. PICK t \in 0 .. clock : rows'[m].lease = t + Lease /\ rows[m].lease <= t
    BY <2>4 DEF Claimed
  <2> QED
    BY <2>1, <2>2, <2>5, RelayAssumption
<1>2. IInv /\ [RelayNext]_relayVars => [Honoured]_relayVars
  BY <1>1
<1> HIDE DEF Honoured
<1> QED
  BY <1>2, RelayInductive, PTL DEF RelaySpec, LeaseHonoured, Honoured
-----------------------------------------------------------------------------
(***************************************************************************)
(* The relay implements the mailbox: an insertion takes a message, an      *)
(* answer settles it, cleaning up forgets it, a claim is invisible.        *)
(***************************************************************************)
Box(r) == CASE r.status = "absent" -> "none"
            [] r.status \in {"pending", "delivering"} -> "held"
            [] r.status \in {"delivered", "rejected"} -> "answered"

boxes == [m \in Message |-> Box(rows[m])]
limits == [m \in Message |-> rows[m].expires]

LEMMA BoxValues ==
  ASSUME NEW r \in Row
  PROVE  /\ Box(r) \in {"none", "held", "answered"} /\ r.expires \in Nat
         /\ Box(r) = "none" <=> r.status = "absent"
         /\ Box(r) = "held" <=> r.status \in {"pending", "delivering"}
         /\ Box(r) = "answered" <=> r.status \in {"delivered", "rejected"}
BY DEF Box, Row, Status

LEMMA BoxTypes ==
  ASSUME IInv, IInv'
  PROVE  /\ \A m \in Message : rows[m] \in Row /\ rows'[m] \in Row
         /\ boxes' \in [Message -> {"none", "held", "answered"}]
         /\ limits' \in [Message -> Nat]
         /\ DOMAIN boxes = Message /\ DOMAIN limits = Message
<1>1. \A m \in Message : rows[m] \in Row /\ rows'[m] \in Row
  BY DEF IInv, RelayTypeOK
<1> QED
  BY <1>1, BoxValues DEF boxes, limits

LEMMA OneRowMaps ==
  ASSUME IInv, IInv', NEW m \in Message, OneRow(m)
  PROVE  \/ /\ ~revoked /\ boxes[m] = "none" /\ boxes' = [boxes EXCEPT ![m] = "held"]
            /\ \A n \in Message \ {m} : limits'[n] = limits[n]
         \/ /\ boxes[m] = "held" /\ boxes' = [boxes EXCEPT ![m] = "answered"]
            /\ limits' = limits
         \/ boxes' = boxes /\ limits' = limits
<1>1. rows[m] \in Row /\ rows'[m] \in Row
  BY BoxTypes
<1>2. \A n \in Message \ {m} : boxes'[n] = boxes[n] /\ limits'[n] = limits[n]
  BY DEF OneRow, boxes, limits
<1>3. /\ boxes[m] = Box(rows[m]) /\ boxes'[m] = Box(rows'[m])
      /\ limits[m] = rows[m].expires /\ limits'[m] = rows'[m].expires
  BY DEF boxes, limits
<1>4. CASE Inserted(m)
  <2>1. boxes[m] = "none" /\ boxes'[m] = "held" /\ ~revoked
    BY <1>1, <1>3, <1>4, BoxValues DEF Inserted
  <2>2. boxes' = [boxes EXCEPT ![m] = "held"]
    BY <1>2, <2>1 DEF boxes
  <2> QED
    BY <1>2, <2>1, <2>2
<1>5. CASE Claimed(m)
  <2>1. boxes[m] = "held" /\ boxes'[m] = "held" /\ limits'[m] = limits[m]
    BY <1>1, <1>3, <1>5, BoxValues DEF Claimed
  <2>2. boxes' = boxes /\ limits' = limits
    BY <1>2, <2>1 DEF boxes, limits
  <2> QED
    BY <2>2
<1>6. CASE Answered(m)
  <2>1. boxes[m] \in {"held", "answered"} /\ boxes'[m] = "answered"
        /\ limits'[m] = limits[m]
    BY <1>1, <1>3, <1>6, BoxValues DEF Answered, Row, Status
  <2>2. limits' = limits
    BY <1>2, <2>1 DEF limits
  <2>3. boxes' = [boxes EXCEPT ![m] = "answered"]
    BY <1>2, <2>1 DEF boxes
  <2>4. boxes[m] = "answered" => boxes' = boxes
    BY <1>2, <2>1 DEF boxes
  <2> QED
    BY <2>1, <2>2, <2>3, <2>4
<1> QED
  BY <1>4, <1>5, <1>6 DEF OneRow

LEMMA CleanedMaps ==
  ASSUME IInv, IInv', NEW m \in Message, Cleaned(m)
  PROVE  \/ boxes'[m] = boxes[m] /\ limits'[m] = limits[m]
         \/ boxes'[m] = "none" /\ limits'[m] = 0 /\ (revoked \/ limits[m] < clock)
<1>1. rows[m] \in Row /\ rows'[m] \in Row
  BY BoxTypes
<1>2. /\ boxes[m] = Box(rows[m]) /\ boxes'[m] = Box(rows'[m])
      /\ limits[m] = rows[m].expires /\ limits'[m] = rows'[m].expires
  BY DEF boxes, limits
<1>3. CASE rows'[m] = rows[m]
  BY <1>2, <1>3
<1>4. CASE rows'[m] = NoRow /\ (revoked \/ rows[m].expires < clock)
  <2>1. NoRow.status = "absent" /\ NoRow.expires = 0
    BY DEF NoRow
  <2> QED
    BY <1>1, <1>2, <1>4, <2>1, BoxValues
<1>5. CASE rows[m].status = "delivered" /\ rows'[m] = [rows[m] EXCEPT !.ack = 0]
  <2>1. rows'[m].status = rows[m].status /\ rows'[m].expires = rows[m].expires
    BY <1>1, <1>5 DEF Row
  <2> QED
    BY <1>1, <1>2, <1>5, <2>1, BoxValues
<1> QED
  BY <1>3, <1>4, <1>5 DEF Cleaned

\* The relay keeps the mailbox's promise.
THEOREM RelayImplementsMailbox == RelaySpec => MailboxSpec
<1>0. /\ Mail!Init <=> clock = 1 /\ revoked = FALSE
                       /\ boxes = [m \in Message |-> "none"]
                       /\ limits = [m \in Message |-> 0]
      /\ Mail!Forget <=> /\ \A m \in Message :
                              \/ boxes'[m] = boxes[m] /\ limits'[m] = limits[m]
                              \/ boxes'[m] = "none" /\ limits'[m] = 0
                                 /\ (revoked \/ limits[m] < clock)
                         /\ boxes' \in [Message -> {"none", "held", "answered"}]
                         /\ limits' \in [Message -> Nat]
                         /\ UNCHANGED <<clock, revoked>>
      /\ Mail!Close <=> revoked' = TRUE /\ UNCHANGED <<clock, boxes, limits>>
      /\ Mail!Advance <=> clock' = clock + 1 /\ UNCHANGED <<revoked, boxes, limits>>
      /\ UNCHANGED Mail!mailVars <=> UNCHANGED <<clock, revoked, boxes, limits>>
  BY DEF Mail!Init, Mail!Forget, Mail!Close, Mail!Advance, Mail!mailVars,
         boxes, limits, Box
<1>1. \A m \in Message :
        /\ Mail!Take(m) <=> /\ ~revoked /\ boxes[m] = "none"
                            /\ boxes' = [boxes EXCEPT ![m] = "held"]
                            /\ limits' \in [Message -> Nat]
                            /\ \A n \in Message \ {m} : limits'[n] = limits[n]
                            /\ UNCHANGED <<clock, revoked>>
        /\ Mail!Settle(m) <=> /\ boxes[m] = "held"
                              /\ boxes' = [boxes EXCEPT ![m] = "answered"]
                              /\ UNCHANGED <<clock, revoked, limits>>
  BY DEF Mail!Take, Mail!Settle, boxes, limits, Box
<1>2. RelayInit => Mail!Init
  <2> SUFFICES ASSUME RelayInit
               PROVE  /\ clock = 1 /\ revoked = FALSE
                      /\ boxes = [m \in Message |-> "none"]
                      /\ limits = [m \in Message |-> 0]
    BY <1>0
  <2>1. NoRow.status = "absent" /\ NoRow.expires = 0
    BY DEF NoRow
  <2>2. Box(NoRow) = "none"
    BY <2>1, NoRowType, BoxValues
  <2> QED
    BY <2>1, <2>2 DEF RelayInit, boxes, limits
<1>3. IInv /\ IInv' /\ [RelayNext]_relayVars => [Mail!Next]_(Mail!mailVars)
  <2> SUFFICES ASSUME IInv, IInv', [RelayNext]_relayVars
               PROVE  Mail!Next \/ UNCHANGED Mail!mailVars
    OBVIOUS
  <2> USE DEF Mail!Next
  <2>1. boxes' \in [Message -> {"none", "held", "answered"}]
        /\ limits' \in [Message -> Nat]
    BY BoxTypes
  <2>2. ASSUME NEW m \in Message, OneRow(m) PROVE Mail!Next \/ UNCHANGED Mail!mailVars
    <3>1. UNCHANGED <<clock, revoked>>
      BY <2>2 DEF OneRow
    <3>2. Mail!Take(m) \/ Mail!Settle(m) \/ (boxes' = boxes /\ limits' = limits)
      BY <1>1, <2>1, <2>2, <3>1, OneRowMaps
    <3> QED
      BY <1>0, <3>1, <3>2
  <2>3. CASE (\A m \in Message : Cleaned(m)) /\ UNCHANGED <<clock, revoked>>
    <3>1. Mail!Forget
      BY <1>0, <2>1, <2>3, CleanedMaps
    <3> QED
      BY <3>1
  <2>4. CASE UNCHANGED rows
    <3>1. boxes' = boxes /\ limits' = limits
      BY <2>4 DEF boxes, limits
    <3>2. \/ UNCHANGED <<clock, revoked>>
          \/ revoked' = TRUE /\ UNCHANGED clock
          \/ clock' = clock + 1 /\ UNCHANGED revoked
      BY DEF RelayNext, RelayStep, Handle, relayVars, tables, SubmitAuthorize,
             SubmitInsert, PollHeartbeat, PollClaim, AckSelect, AckStore,
             NackStore, StatusAuthorize, StatusRead, RevokeMark, RevokePurge,
             Cleanup, Unavailable, OrphanDies, Tick, ClientCall, ClientGone
    <3> QED
      BY <1>0, <3>1, <3>2
  <2> QED
    BY <2>2, <2>3, <2>4, NextIsRowStep DEF RowStep
<1> QED
  BY <1>2, <1>3, RelayInductive, PTL DEF RelaySpec, MailboxSpec, Mail!Spec

-----------------------------------------------------------------------------
(*                       The whole delivery                                *)

(***************************************************************************)
(* The inductive invariant.  Each client's slot holds the calls of that    *)
(* client only, a slot without a call is blank, and the orphan is a        *)
(* handler that still runs.                                                *)
(***************************************************************************)
Clean == /\ \A s \in Slot : call[s].op = "none" => call[s] = NoCall
         /\ call["orphan"].op # "none" => Waiting("orphan")
         /\ call["phone"].op \in {"none", "submit", "status"}
         /\ call["pc"].op \in {"none", "poll", "ack", "nack"}
         /\ call["tray"].op \in {"none", "revoke"}

(* The variables of phone and PC have their types.                         *)
PhoneTypes == /\ attempt \in [Link -> Message \cup {NoMessage}]
              /\ linkOf \in [Message -> Link \cup {NoLink}]
              /\ expiry \in [Message -> Nat]
              /\ known \in SUBSET Message
              /\ verified \in SUBSET Message
              /\ rescanned \in SUBSET verified
              /\ view \in [link : Link \cup {NoLink}, st : DeliveryState]
              /\ phonePaired \in BOOLEAN

PcTypes == /\ accepted \in SUBSET Message
           /\ dropped \in SUBSET accepted
           /\ prompts \in [Message -> Nat]
           /\ paired \in BOOLEAN

(* The screen shows the link whose message is in flight.                   *)
Page == /\ view.st # "camera" => view.link \in Link
        /\ call["phone"].op = "submit" => view.st = "sending" /\ call["phone"].msg = OnScreen
        /\ call["phone"].op = "status" =>
             view.st \in {"sending", "pending"} /\ call["phone"].msg = OnScreen

(* A message is acknowledged after it was accepted and before its user is  *)
(* asked.                                                                  *)
Asking == /\ \A m \in Message \ accepted : prompts[m] = 0
          /\ \A m \in Message : prompts[m] <= 1
          /\ \A m \in Unheard : m \in accepted \ dropped /\ prompts[m] = 0
          /\ AcceptedIsPrompted

(* The tray hears "revoked" of a revocation that has deleted the rows.     *)
Removal == /\ call["tray"].res = "revoked" => purged
           /\ ~paired => purged

(* Whatever says "delivered" goes back to the PC's acceptance.             *)
Truth == /\ \A s \in Slot : call[s].op = "ack" => call[s].msg \in accepted
         /\ \A m \in Message : rows[m].status = "delivered" => m \in accepted
         /\ call["phone"].op = "status"
              /\ call["phone"].res \in {"delivered", "delivery_receipt_expired"}
              => call["phone"].msg \in accepted
         /\ verified \subseteq accepted
         /\ ReceiptIsTrue

-----------------------------------------------------------------------------
Held(m) == rows[m].status \in {"pending", "delivering"}

(* A message has one envelope, which is posted once: its POST is under way *)
(* in one place, before its row exists, and carries the row's expiry.      *)
Posts(s, m) == call[s].op = "submit" /\ call[s].msg = m /\ Waiting(s)

Once == /\ \A m \in Message : linkOf[m] = NoLink =>
             /\ ~Stored(m) /\ m \notin known
             /\ \A s \in Slot : call[s].op \in {"submit", "status"} => call[s].msg # m
        /\ \A u \in Link : attempt[u] # NoMessage => linkOf[attempt[u]] = u
        /\ \A m \in Message : \A s, t \in Slot : Posts(s, m) /\ Posts(t, m) => s = t
        /\ \A m \in Message : \A s \in Slot :
             Posts(s, m) => call[s].exp = expiry[m] /\ ~Stored(m) /\ m \notin known
        /\ \A m \in Message : Stored(m) => rows[m].expires = expiry[m]

(* What the phone has heard of a message that may not arrive any more.     *)
Over(m) == ~Posting(m) /\ ~Held(m)

Heard == LET c == call["phone"] IN
  /\ c.op = "submit" /\ c.stage = "reply" /\ c.res = "pending" => ~Posting(c.msg)
  /\ c.op = "submit" /\ c.stage = "reply" /\ c.res \in Definite => Over(c.msg)
  /\ c.op = "status" => c.msg \in known
  /\ c.op = "status" /\ c.res \in {"delivered", "delivery_rejected"} => Over(c.msg)
  /\ c.op = "status" /\ c.res = "delivery_expired" => Overdue(c.msg)
  /\ \A m \in verified : Over(m) /\ m \in known

(* What may still arrive is the attempt of its link.                       *)
Locked == \A m \in Message : Deliverable(m) => linkOf[m] \in Link /\ attempt[linkOf[m]] = m

-----------------------------------------------------------------------------
(***************************************************************************)
(* What a step of the relay may do to calls and rows.                      *)
(***************************************************************************)
Named(c) == c.op \in {"submit", "status", "ack", "nack"}

(* A client's call goes on with what it was about, or waits no longer.     *)
ClientKept(t) ==
  /\ call'[t].op = call[t].op
  /\ Named(call[t]) => call'[t].msg = call[t].msg
  /\ Waiting(t)' => Waiting(t) /\ call'[t].exp = call[t].exp /\ call'[t].res = call[t].res
  /\ ~Waiting(t) => call'[t] = call[t]

(* The orphan was one already or has left its client without an answer.    *)
OrphanKept ==
  call'["orphan"] # NoCall =>
    /\ Waiting("orphan")'
    /\ \E t \in Slot :
         /\ Waiting(t) /\ (t = "orphan" \/ ~Waiting(t)')
         /\ call'["orphan"].op = call[t].op
         /\ Named(call[t]) => call'["orphan"].msg = call[t].msg
         /\ call'["orphan"].exp = call[t].exp

Outcomes == {"delivered", "delivery_receipt_expired", "delivery_rejected",
             "delivery_expired"}

(* What an answer tells its client.                                        *)
Told(t) ==
  Waiting(t) /\ ~Waiting(t)' =>
    /\ call'[t].op = "submit" /\ call'[t].res # "unavailable" =>
         call'["orphan"] = call["orphan"]
    /\ call'[t].op = "submit" /\ call'[t].res \in Definite => UNCHANGED rows
    /\ call'[t].op = "status" /\ call'[t].res \in Outcomes =>
         call'[t].res = Verdict(call[t].msg) /\ UNCHANGED <<rows, clock>>
    /\ call'[t].res = "revoked" => purged'

RowKept(m) == \/ rows'[m].status = "absent"
              \/ /\ rows'[m].expires = rows[m].expires
                 /\ \/ rows'[m].status = rows[m].status
                    \/ Held(m) /\ Held(m)'

RowInserted(m, s) == /\ Posts(s, m) /\ ~revoked /\ revoked' = revoked
                     /\ rows[m].status = "absent" /\ rows'[m].status = "pending"
                     /\ rows'[m].expires = call[s].exp
                     /\ ~Waiting(s)'
                     /\ \A t \in Slot \ {s} : call'[t] = call[t]

RowAnswered(m, s) == /\ call[s].msg = m /\ Stored(m)
                     /\ rows'[m].expires = rows[m].expires
                     /\ \/ rows'[m].status = "rejected"
                        \/ rows'[m].status = "delivered" /\ call[s].op = "ack"

RelayEffect ==
  /\ clock' \in Nat /\ clock <= clock'
  /\ (revoked => revoked') /\ (purged => purged')
  /\ \A t \in Slot \ {"orphan"} : ClientKept(t) /\ Told(t)
  /\ OrphanKept
  /\ \A m \in Message :
       RowKept(m) \/ \E s \in Slot : RowInserted(m, s) \/ RowAnswered(m, s)

(* The same of a single handler, whose call becomes c.                     *)
Becomes(s, c) ==
  /\ Waiting(s) /\ c \in Call
  /\ call' = [call EXCEPT ![s] = c]
  /\ \/ /\ c.stage = "mid" /\ c.op = call[s].op /\ c.msg = call[s].msg
        /\ c.exp = call[s].exp /\ c.res = call[s].res /\ UNCHANGED rows
     \/ s = "orphan" /\ c = NoCall
     \/ /\ s # "orphan" /\ c.stage = "reply" /\ c.op = call[s].op
        /\ Named(c) => c.msg = call[s].msg
        /\ c.op = "submit" /\ c.res \in Definite => UNCHANGED rows
        /\ c.op = "status" /\ c.res \in Outcomes => c.res = Verdict(c.msg) /\ UNCHANGED rows
        /\ c.res = "revoked" => purged'
  /\ clock' = clock /\ (revoked => revoked') /\ (purged => purged')

RowEffect(s) ==
  \A m \in Message :
    \/ RowKept(m)
    \/ /\ Posts(s, m) /\ ~revoked /\ revoked' = revoked
       /\ rows[m].status = "absent" /\ rows'[m].status = "pending"
       /\ rows'[m].expires = call[s].exp
    \/ RowAnswered(m, s)

LEMMA AnsweredCall ==
  ASSUME NEW d \in Call
  PROVE  LET c == [d EXCEPT !.stage = "reply", !.at = 0]
         IN  c \in Call /\ c.op = d.op /\ c.msg = d.msg /\ c.exp = d.exp /\ c.res = d.res
             /\ c.stage = "reply"
BY DEF Call

LEMMA ReplyBecomes ==
  ASSUME IInv, NEW s \in Slot, NEW r \in Result, Waiting(s), Reply(s, r),
         call[s].op = "submit" /\ r \in Definite => UNCHANGED rows,
         call[s].op = "status" => r \notin Outcomes,
         r = "revoked" => purged',
         clock' = clock, revoked => revoked', purged => purged'
  PROVE  \E c : Becomes(s, c)
<1> DEFINE d == [call[s] EXCEPT !.res = r, !.exp = 0]
           c == Answer(s, d)
<1>1. d \in Call /\ d.op = call[s].op /\ d.msg = call[s].msg /\ d.res = r
  BY DEF IInv, RelayTypeOK, Call
<1>2. call' = [call EXCEPT ![s] = c]
  BY DEF Reply
<1> HIDE DEF d
<1>3. CASE s = "orphan"
  <2>1. c = NoCall
    BY <1>3 DEF Answer
  <2> QED
    BY <1>2, <1>3, <2>1, NoCallFits DEF Becomes, IInv
<1>4. CASE s # "orphan"
  <2>1. c = [d EXCEPT !.stage = "reply", !.at = 0]
    BY <1>4 DEF Answer
  <2>2. c \in Call /\ c.op = call[s].op /\ c.msg = call[s].msg /\ c.res = r /\ c.stage = "reply"
    BY <1>1, <2>1, AnsweredCall
  <2> QED
    BY <1>2, <1>4, <2>2 DEF Becomes
<1> QED
  BY <1>3, <1>4

LEMMA ProceedBecomes ==
  ASSUME IInv, NEW s \in Slot, Waiting(s), Proceed(s), UNCHANGED rows,
         clock' = clock, revoked => revoked', purged => purged'
  PROVE  \E c : Becomes(s, c)
<1> DEFINE c == [call[s] EXCEPT !.stage = "mid", !.at = clock]
<1>1. /\ c \in Call /\ c.op = call[s].op /\ c.msg = call[s].msg /\ c.stage = "mid"
      /\ c.exp = call[s].exp /\ c.res = call[s].res
  BY DEF IInv, RelayTypeOK, Call
<1>2. call' = [call EXCEPT ![s] = c]
  BY DEF Proceed, IInv, RelayTypeOK
<1> HIDE DEF c
<1> QED
  BY <1>1, <1>2 DEF Becomes

LEMMA SubmitEffect ==
  ASSUME IInv, NEW s \in Slot, SubmitAuthorize(s) \/ SubmitInsert(s)
  PROVE  RowEffect(s) /\ \E c : Becomes(s, c)
<1> USE DEF tables
<1>0. Waiting(s) /\ call[s].op = "submit" /\ call[s].msg \in Message
  BY DEF SubmitAuthorize, SubmitInsert, At, Waiting, IInv, CallsFit, Fits
<1>1. CASE SubmitAuthorize(s)
  <2>1. UNCHANGED <<clock, revoked, purged, rows>>
    BY <1>1 DEF SubmitAuthorize
  <2>2. \/ \E r \in {"pair_revoked", "rate_limited", "receiver_offline"} : Reply(s, r)
        \/ Proceed(s)
    BY <1>1 DEF SubmitAuthorize
  <2>3. \E c : Becomes(s, c)
    BY <1>0, <2>1, <2>2, ReplyBecomes, ProceedBecomes DEF Result, Outcomes
  <2> QED
    BY <2>1, <2>3 DEF RowEffect, RowKept
<1>2. CASE SubmitInsert(s)
  <2> DEFINE m == call[s].msg
  <2>1. UNCHANGED <<clock, revoked, purged>>
    BY <1>2 DEF SubmitInsert
  <2>2. CASE UNCHANGED rows
    <3>1. \E r \in {"invalid_request", "pair_revoked", "replay_rejected", "pending"} :
            Reply(s, r)
      BY <1>2 DEF SubmitInsert
    <3> QED
      BY <1>0, <2>1, <2>2, <3>1, ReplyBecomes DEF Result, Outcomes, RowEffect, RowKept
  <2>3. CASE ~(UNCHANGED rows)
    <3> DEFINE new == [NoRow EXCEPT !.status = "pending", !.created = call[s].at,
                                    !.expires = call[s].exp]
    <3>1. Reply(s, "pending") /\ ~revoked /\ ~Stored(m) /\ rows' = [rows EXCEPT ![m] = new]
      BY <1>2, <2>3 DEF SubmitInsert
    <3>2. new.status = "pending" /\ new.expires = call[s].exp
      BY DEF NoRow
    <3> HIDE DEF new
    <3>3. rows'[m] = new /\ \A n \in Message \ {m} : rows'[n] = rows[n]
      BY <1>0, <3>1 DEF IInv, RelayTypeOK
    <3>4. \E c : Becomes(s, c)
      BY <1>0, <2>1, <3>1, ReplyBecomes DEF Result, Outcomes, Definite
    <3>5. RowEffect(s)
      BY <1>0, <2>1, <3>1, <3>2, <3>3 DEF RowEffect, RowKept, Posts, Stored
    <3> QED
      BY <3>4, <3>5
  <2> QED
    BY <2>2, <2>3
<1> QED
  BY <1>1, <1>2

LEMMA PollEffect ==
  ASSUME IInv, NEW s \in Slot, PollHeartbeat(s) \/ PollClaim(s)
  PROVE  RowEffect(s) /\ \E c : Becomes(s, c)
<1>0. Waiting(s) /\ call[s].op = "poll" /\ UNCHANGED <<clock, revoked, purged>>
  BY DEF PollHeartbeat, PollClaim, At, Waiting
<1>1. CASE PollHeartbeat(s)
  BY <1>0, <1>1, ProceedBecomes DEF PollHeartbeat, RowEffect, RowKept
<1>2. CASE PollClaim(s) /\ UNCHANGED rows /\ Reply(s, "empty")
  BY <1>0, <1>2, ReplyBecomes DEF Result, Outcomes, RowEffect, RowKept
<1>3. ASSUME NEW m \in Claimable(call[s].at),
             rows' = [rows EXCEPT ![m] = [@ EXCEPT !.status = "delivering",
                                                   !.lease = call[s].at + Lease]],
             call' = [call EXCEPT ![s] =
                        Answer(s, [call[s] EXCEPT !.res = "event", !.msg = m])]
      PROVE  RowEffect(s) /\ \E c : Becomes(s, c)
  <2> DEFINE d == [call[s] EXCEPT !.res = "event", !.msg = m]
             new == [rows[m] EXCEPT !.status = "delivering", !.lease = call[s].at + Lease]
  <2>1. m \in Message /\ Held(m)
    BY DEF Claimable, Held
  <2>2. new.status = "delivering" /\ new.expires = rows[m].expires
    BY <2>1 DEF IInv, RelayTypeOK, Row
  <2>3. rows' = [rows EXCEPT ![m] = new]
    BY <1>3
  <2>4. d \in Call /\ d.op = "poll" /\ d.res = "event"
    BY <1>0, <2>1 DEF IInv, RelayTypeOK, Call, Result
  <2> HIDE DEF new, d
  <2>5. rows'[m] = new /\ \A n \in Message \ {m} : rows'[n] = rows[n]
    BY <2>1, <2>3 DEF IInv, RelayTypeOK
  <2>6. RowEffect(s)
    BY <2>1, <2>2, <2>5 DEF RowEffect, RowKept, Held
  <2>7. call' = [call EXCEPT ![s] = Answer(s, d)]
    BY <1>3 DEF d
  <2>8. CASE s = "orphan"
    BY <1>0, <2>6, <2>7, <2>8, NoCallFits DEF Answer, Becomes, IInv
  <2>9. CASE s # "orphan"
    <3> DEFINE c == [d EXCEPT !.stage = "reply", !.at = 0]
    <3>1. c \in Call /\ c.op = "poll" /\ c.res = "event" /\ c.stage = "reply"
      BY <2>4, AnsweredCall
    <3>2. call' = [call EXCEPT ![s] = c]
      BY <2>7, <2>9 DEF Answer
    <3> HIDE DEF c
    <3>3. Becomes(s, c)
      BY <1>0, <2>9, <3>1, <3>2 DEF Becomes, Named
    <3> QED
      BY <2>6, <3>3
  <2> QED
    BY <2>8, <2>9
<1> QED
  BY <1>1, <1>2, <1>3 DEF PollClaim

LEMMA AckEffect ==
  ASSUME IInv, NEW s \in Slot, AckSelect(s) \/ AckStore(s) \/ NackStore(s)
  PROVE  RowEffect(s) /\ \E c : Becomes(s, c)
<1> USE DEF tables
<1> DEFINE m == call[s].msg
<1>0. /\ Waiting(s) /\ call[s].op \in {"ack", "nack"} /\ m \in Message
      /\ UNCHANGED <<clock, revoked, purged>>
  BY DEF AckSelect, AckStore, NackStore, At, Waiting, IInv, CallsFit, Fits
<1>1. CASE AckSelect(s)
  <2>1. UNCHANGED rows
    BY <1>1 DEF AckSelect
  <2>2. (\E r \in {"delivery_not_found", "delivery_expired"} : Reply(s, r)) \/ Proceed(s)
    BY <1>1 DEF AckSelect
  <2>3. \E c : Becomes(s, c)
    <3>1. CASE Proceed(s)
      BY <1>0, <2>1, <3>1, ProceedBecomes
    <3>2. ASSUME NEW r \in {"delivery_not_found", "delivery_expired"}, Reply(s, r)
          PROVE  \E c : Becomes(s, c)
      BY <1>0, <2>1, <3>2, ReplyBecomes DEF Result
    <3> QED
      BY <2>2, <3>1, <3>2
  <2> QED
    BY <2>1, <2>3 DEF RowEffect, RowKept
<1>2. CASE AckStore(s) \/ NackStore(s)
  <2> DEFINE ack == [rows[m] EXCEPT !.status = "delivered", !.lease = 0,
                                    !.ack = call[s].exp]
             nack == [rows[m] EXCEPT !.status = "rejected", !.lease = 0]
  <2>1. \E c : Becomes(s, c)
    <3>1. \E r \in {"invalid_request", "stored"} : Reply(s, r)
      BY <1>2 DEF AckStore, NackStore
    <3> QED
      BY <1>0, <3>1, ReplyBecomes DEF Result
  <2>2. /\ ack.status = "delivered" /\ ack.expires = rows[m].expires
        /\ nack.status = "rejected" /\ nack.expires = rows[m].expires
    BY <1>0 DEF IInv, RelayTypeOK, Row
  <2>3. \/ UNCHANGED rows
        \/ call[s].op = "ack" /\ Set(m, ack)
        \/ Set(m, nack)
    BY <1>2 DEF AckStore, NackStore, At
  <2> HIDE DEF ack, nack
  <2>4. ASSUME NEW r, Set(m, r), r.expires = rows[m].expires,
               r.status = "rejected" \/ (r.status = "delivered" /\ call[s].op = "ack")
        PROVE  RowEffect(s)
    <3>1. CASE Stored(m)
      <4>1. rows'[m] = r /\ \A n \in Message \ {m} : rows'[n] = rows[n]
        BY <1>0, <2>4, <3>1 DEF Set, IInv, RelayTypeOK
      <4> QED
        BY <2>4, <3>1, <4>1 DEF RowEffect, RowKept, RowAnswered
    <3> QED
      BY <2>4, <3>1 DEF Set, RowEffect, RowKept
  <2>5. CASE UNCHANGED rows
    <3>1. RowEffect(s)
      BY <2>5 DEF RowEffect, RowKept
    <3> QED
      BY <2>1, <3>1
  <2> QED
    BY <2>1, <2>2, <2>3, <2>4, <2>5
<1> QED
  BY <1>1, <1>2

LEMMA StatusEffect ==
  ASSUME IInv, NEW s \in Slot, StatusAuthorize(s) \/ StatusRead(s)
  PROVE  RowEffect(s) /\ \E c : Becomes(s, c)
<1> USE DEF tables
<1>0. /\ Waiting(s) /\ call[s].op = "status" /\ call[s].msg \in Message
      /\ UNCHANGED <<clock, revoked, purged, rows>>
  BY DEF StatusAuthorize, StatusRead, At, Waiting, IInv, CallsFit, Fits
<1>1. RowEffect(s)
  BY <1>0 DEF RowEffect, RowKept
<1>2. CASE StatusAuthorize(s)
  <2>1. Reply(s, "pair_revoked") \/ Proceed(s)
    BY <1>2 DEF StatusAuthorize
  <2> QED
    BY <1>0, <1>1, <2>1, ReplyBecomes, ProceedBecomes DEF Result, Outcomes
<1>3. CASE StatusRead(s)
  <2> DEFINE m == call[s].msg
             d == [call[s] EXCEPT !.res = Verdict(m), !.exp = rows[m].ack]
  <2>1. Verdict(m) \in Result /\ rows[m].ack \in Nat
    BY <1>0 DEF Verdict, Result, IInv, RelayTypeOK, Row
  <2>2. d \in Call /\ d.op = "status" /\ d.msg = m /\ d.res = Verdict(m)
    BY <1>0, <2>1 DEF IInv, RelayTypeOK, Call
  <2>3. call' = [call EXCEPT ![s] = Answer(s, d)]
    BY <1>3 DEF StatusRead
  <2> HIDE DEF d
  <2>4. CASE s = "orphan"
    BY <1>0, <1>1, <2>3, <2>4, NoCallFits DEF Answer, Becomes, IInv
  <2>5. CASE s # "orphan"
    <3> DEFINE c == [d EXCEPT !.stage = "reply", !.at = 0]
    <3>1. c \in Call /\ c.op = "status" /\ c.msg = m /\ c.res = Verdict(m) /\ c.stage = "reply"
      BY <2>2, AnsweredCall
    <3>2. call' = [call EXCEPT ![s] = c]
      BY <2>3, <2>5 DEF Answer
    <3>3. Verdict(m) # "revoked"
      BY DEF Verdict
    <3> HIDE DEF c
    <3> QED
      BY <1>0, <1>1, <2>5, <3>1, <3>2, <3>3 DEF Becomes
  <2> QED
    BY <2>4, <2>5
<1> QED
  BY <1>2, <1>3

LEMMA RevokeEffect ==
  ASSUME IInv, NEW s \in Slot, RevokeMark(s) \/ RevokePurge(s)
  PROVE  RowEffect(s) /\ \E c : Becomes(s, c)
<1>0. Waiting(s) /\ call[s].op = "revoke" /\ UNCHANGED clock /\ (revoked => revoked')
  BY DEF RevokeMark, RevokePurge, At, Waiting
<1>1. CASE RevokeMark(s)
  BY <1>0, <1>1, ProceedBecomes DEF RevokeMark, RowEffect, RowKept
<1>2. CASE RevokePurge(s)
  <2>1. RowEffect(s)
    BY <1>2, NoRowType DEF RevokePurge, RowEffect, RowKept
  <2> QED
    BY <1>0, <1>2, <2>1, ReplyBecomes DEF RevokePurge, Result
<1> QED
  BY <1>1, <1>2

LEMMA HandleHasEffect ==
  ASSUME IInv, Clean, NEW s \in Slot, Handle(s)
  PROVE  RelayEffect
<1>1. RowEffect(s) /\ \E c : Becomes(s, c)
  BY SubmitEffect, PollEffect, AckEffect, StatusEffect, RevokeEffect DEF Handle
<1>2. PICK c : Becomes(s, c)
  BY <1>1
<1>3. call \in [Slot -> Call] /\ "orphan" \in Slot
  BY RelayAssumption DEF IInv, RelayTypeOK
<1>4. call'[s] = c /\ \A t \in Slot \ {s} : call'[t] = call[t]
  BY <1>2, <1>3 DEF Becomes
<1>5. clock' \in Nat /\ clock <= clock' /\ (revoked => revoked') /\ (purged => purged')
  BY <1>2 DEF Becomes, IInv, RelayTypeOK
<1>6. ASSUME NEW t \in Slot \ {"orphan"} PROVE ClientKept(t) /\ Told(t)
  <2>1. CASE t # s
    BY <1>4, <2>1 DEF ClientKept, Told, Waiting
  <2>2. CASE t = s /\ c.stage = "mid"
    <3>1. /\ c.op = call[s].op /\ c.msg = call[s].msg /\ c.exp = call[s].exp
          /\ c.res = call[s].res /\ Waiting(s)
      BY <1>2, <2>2 DEF Becomes, NoCall
    <3> QED
      BY <1>4, <2>2, <3>1 DEF ClientKept, Told, Waiting
  <2>3. CASE t = s /\ c.stage # "mid"
    <3>1. /\ c.stage = "reply" /\ c.op = call[s].op /\ Waiting(s)
          /\ Named(c) => c.msg = call[s].msg
          /\ c.op = "submit" /\ c.res \in Definite => UNCHANGED rows
          /\ c.op = "status" /\ c.res \in Outcomes => c.res = Verdict(c.msg) /\ UNCHANGED rows
          /\ c.res = "revoked" => purged'
          /\ clock' = clock
      BY <1>2, <2>3 DEF Becomes
    <3>2. call'["orphan"] = call["orphan"]
      BY <1>3, <1>4, <2>3
    <3>3. ClientKept(t)
      BY <1>4, <2>3, <3>1 DEF ClientKept, Named, Waiting
    <3>4. Told(t)
      BY <1>4, <2>3, <3>1, <3>2 DEF Told, Named, Waiting
    <3> QED
      BY <3>3, <3>4
  <2> QED
    BY <2>1, <2>2, <2>3
<1>7. OrphanKept
  <2>1. CASE s # "orphan"
    BY <1>3, <1>4, <2>1 DEF OrphanKept, Clean, Waiting
  <2>2. CASE s = "orphan"
    <3>1. \/ c = NoCall
          \/ /\ c.stage = "mid" /\ c.op = call[s].op /\ c.msg = call[s].msg
             /\ c.exp = call[s].exp /\ Waiting(s)
      BY <1>2, <2>2 DEF Becomes
    <3> QED
      BY <1>3, <1>4, <2>2, <3>1 DEF OrphanKept, NoCall, Waiting
  <2> QED
    BY <2>1, <2>2
<1>8. ASSUME NEW m \in Message
      PROVE  RowKept(m) \/ \E t \in Slot : RowInserted(m, t) \/ RowAnswered(m, t)
  <2>1. CASE RowKept(m) \/ RowAnswered(m, s)
    BY <2>1
  <2>2. CASE /\ Posts(s, m) /\ ~revoked /\ revoked' = revoked
             /\ rows[m].status = "absent" /\ rows'[m].status = "pending"
             /\ rows'[m].expires = call[s].exp
    <3>1. ~Waiting(s)'
      <4>1. c = NoCall \/ c.stage = "reply"
        BY <1>2, <2>2 DEF Becomes
      <4> QED
        BY <1>4, <4>1 DEF Waiting, NoCall
    <3> QED
      BY <1>4, <2>2, <3>1 DEF RowInserted
  <2> QED
    BY <1>1, <2>1, <2>2 DEF RowEffect
<1> QED
  BY <1>5, <1>6, <1>7, <1>8 DEF RelayEffect

LEMMA RelayHasEffect == ASSUME IInv, Clean, RelayStep PROVE RelayEffect
<1> USE DEF tables
<1>0. call \in [Slot -> Call] /\ "orphan" \in Slot
  BY RelayAssumption DEF IInv, RelayTypeOK
<1>1. ASSUME NEW s \in Slot, Unavailable(s) PROVE RelayEffect
  <2> DEFINE d == [call[s] EXCEPT !.res = "unavailable", !.exp = 0]
             c == [d EXCEPT !.stage = "reply", !.at = 0]
  <2>1. PICK o \in Orphaned(s) :
           call' = [call EXCEPT ![s] = Answer(s, [@ EXCEPT !.res = "unavailable", !.exp = 0]),
                                !["orphan"] = o]
    BY <1>1 DEF Unavailable
  <2>2. Waiting(s) /\ s # "orphan" /\ UNCHANGED <<clock, revoked, purged, rows>>
    BY <1>1 DEF Unavailable
  <2>3. d \in Call /\ d.op = call[s].op /\ d.msg = call[s].msg /\ d.res = "unavailable"
    BY <1>0 DEF Call, Result
  <2>4. /\ c \in Call /\ c.op = call[s].op /\ c.msg = call[s].msg
        /\ c.res = "unavailable" /\ c.stage = "reply"
    BY <2>3, AnsweredCall
  <2>5. call'[s] = c
    BY <1>0, <2>1, <2>2 DEF Answer
  <2>6. call'["orphan"] = o /\ \A t \in Slot \ {s, "orphan"} : call'[t] = call[t]
    BY <1>0, <2>1, <2>2
  <2> HIDE DEF c, d
  <2>7. ASSUME NEW t \in Slot \ {"orphan"} PROVE ClientKept(t) /\ Told(t)
    <3>1. CASE t # s
      BY <2>6, <3>1 DEF ClientKept, Told, Waiting
    <3>2. CASE t = s
      <4>1. ClientKept(t)
        BY <2>2, <2>4, <2>5, <3>2 DEF ClientKept, Waiting
      <4>2. Told(t)
        BY <2>4, <2>5, <3>2 DEF Told, Definite, Outcomes
      <4> QED
        BY <4>1, <4>2
    <3> QED
      BY <3>1, <3>2
  <2>8. OrphanKept
    <3>1. o = NoCall \/ o = call[s] \/ o = call["orphan"]
      BY DEF Orphaned
    <3>2. CASE o = call[s]
      BY <2>2, <2>4, <2>5, <2>6, <3>2 DEF OrphanKept, Waiting
    <3>3. CASE o = NoCall \/ o = call["orphan"]
      BY <1>0, <2>6, <3>3 DEF OrphanKept, Clean, Waiting, NoCall
    <3> QED
      BY <3>1, <3>2, <3>3
  <2> QED
    BY <2>2, <2>7, <2>8 DEF RelayEffect, RowKept, IInv, RelayTypeOK
<1>2. CASE Cleanup \/ Tick
  <2>1. UNCHANGED <<call, revoked, purged>> /\ clock' \in Nat /\ clock <= clock'
    BY <1>2 DEF Cleanup, Tick, IInv, RelayTypeOK
  <2>2. \A m \in Message : RowKept(m)
    <3>1. CASE Tick
      BY <3>1 DEF Tick, RowKept
    <3>2. CASE Cleanup
      <4> SUFFICES ASSUME NEW m \in Message PROVE RowKept(m)
        OBVIOUS
      <4>1. rows'[m] \in {NoRow, [rows[m] EXCEPT !.ack = 0], rows[m]}
        BY <3>2 DEF Cleanup
      <4>2. rows[m] \in Row
        BY DEF IInv, RelayTypeOK
      <4> QED
        BY <4>1, <4>2, NoRowType DEF RowKept, Row
    <3> QED
      BY <1>2, <3>1, <3>2
  <2>3. \A t \in Slot : Waiting(t)' <=> Waiting(t)
    BY <2>1 DEF Waiting
  <2>4. \A t \in Slot \ {"orphan"} : ClientKept(t) /\ Told(t)
    BY <2>1, <2>3 DEF ClientKept, Told
  <2>5. OrphanKept
    BY <1>0, <2>1, <2>3 DEF OrphanKept, Clean
  <2> QED
    BY <2>1, <2>2, <2>4, <2>5 DEF RelayEffect
<1>3. CASE OrphanDies
  <2>1. /\ call'["orphan"] = NoCall /\ \A t \in Slot \ {"orphan"} : call'[t] = call[t]
        /\ UNCHANGED <<clock, revoked, purged, rows>>
    BY <1>0, <1>3 DEF OrphanDies
  <2> QED
    BY <2>1 DEF RelayEffect, ClientKept, Told, OrphanKept, RowKept, Waiting, NoCall,
                IInv, RelayTypeOK
<1> QED
  BY <1>1, <1>2, <1>3, HandleHasEffect DEF RelayStep

-----------------------------------------------------------------------------
(***************************************************************************)
(* What the clients may do to the calls.                                   *)
(***************************************************************************)
Clients == {"phone", "pc", "tray"}

LEMMA Slots == Clients \subseteq Slot /\ "orphan" \in Slot \ Clients
BY SystemAssumption, RelayAssumption DEF Clients

(* Nobody but s and the orphan is affected.                                *)
OnlyCall(s, c) == /\ call'[s] = c /\ OrphanKept
                  /\ \A t \in Slot \ {s, "orphan"} : call'[t] = call[t]

LEMMA Asked ==
  ASSUME IInv, Clean, NEW s \in Clients, NEW c, Ask(s, c)
  PROVE  OnlyCall(s, c)
BY Slots DEF Ask, OnlyCall, OrphanKept, Clean, Waiting, IInv, RelayTypeOK, Clients

LEMMA HungUp ==
  ASSUME IInv, Clean, NEW s \in Clients, HangUp(s)
  PROVE  OnlyCall(s, NoCall)
BY Slots DEF HangUp, OnlyCall, OrphanKept, Clean, Waiting, IInv, RelayTypeOK, Clients

LEMMA Untouched ==
  ASSUME IInv, Clean, NEW s \in Clients, UNCHANGED call
  PROVE  OnlyCall(s, call[s])
BY Slots DEF OnlyCall, OrphanKept, Clean, Waiting, IInv, RelayTypeOK, Clients

LEMMA Abandoned ==
  ASSUME IInv, Clean, NEW s \in Clients, Abandon(s)
  PROVE  OnlyCall(s, NoCall)
<1>1. PICK o \in IF Waiting(s) THEN Orphaned(s) ELSE {call["orphan"]} :
         call' = [call EXCEPT ![s] = NoCall, !["orphan"] = o]
  BY DEF Abandon
<1>2. s \in Slot /\ "orphan" \in Slot /\ s # "orphan" /\ call \in [Slot -> Call]
  BY Slots DEF IInv, RelayTypeOK
<1>3. /\ call'[s] = NoCall /\ call'["orphan"] = o
      /\ \A t \in Slot \ {s, "orphan"} : call'[t] = call[t]
  BY <1>1, <1>2
<1>4. o = NoCall \/ (o = call[s] /\ Waiting(s)) \/ o = call["orphan"]
  BY DEF Orphaned
<1>5. OrphanKept
  <2>1. CASE o = call[s] /\ Waiting(s)
    BY <1>2, <1>3, <2>1 DEF OrphanKept, Waiting, NoCall
  <2>2. CASE o = NoCall \/ o = call["orphan"]
    BY <1>2, <1>3, <2>2 DEF OrphanKept, Clean, Waiting, NoCall
  <2> QED
    BY <1>4, <2>1, <2>2
<1> QED
  BY <1>3, <1>5 DEF OnlyCall

(***************************************************************************)
(* Phone and PC make the requests the relay is checked against, each when  *)
(* its last one is over.                                                   *)
(***************************************************************************)
LEMMA AskFits ==
  ASSUME NEW s \in Clients, ~Waiting(s), NEW c \in Requests, Ask(s, c),
         UNCHANGED <<clock, tables>>
  PROVE  RelayNext
BY Slots DEF Ask, ClientCall, RelayNext, Clients

LEMMA HangUpFits ==
  ASSUME IInv, Clean, NEW s \in Clients, HangUp(s), UNCHANGED <<clock, tables>>
  PROVE  [RelayNext]_relayVars
<1>1. s \in Slot /\ "orphan" \in Slot /\ s # "orphan" /\ call \in [Slot -> Call]
  BY Slots DEF IInv, RelayTypeOK
<1>2. CASE call[s].op = "none"
  BY <1>1, <1>2 DEF HangUp, Clean, relayVars, tables
<1>3. CASE call[s].op # "none"
  <2>1. call' = [call EXCEPT ![s] = NoCall, !["orphan"] = call["orphan"]]
    BY <1>1 DEF HangUp
  <2>2. CASE ~Waiting(s)
    BY <1>1, <1>3, <2>1, <2>2 DEF Abandon, ClientGone, RelayNext
  <2>3. CASE Waiting(s)
    <3>1. call["orphan"] \in Orphaned(s)
      BY DEF Orphaned
    <3> QED
      BY <1>1, <1>3, <2>1, <2>3, <3>1 DEF Abandon, ClientGone, RelayNext
  <2> QED
    BY <2>2, <2>3
<1> QED
  BY <1>2, <1>3

LEMMA AbandonFits ==
  ASSUME NEW s \in Clients, Abandon(s), UNCHANGED <<clock, tables>>
  PROVE  RelayNext
BY Slots DEF ClientGone, RelayNext

LEMMA FreshRequests ==
  ASSUME IInv
  PROVE  /\ \A m \in Message : /\ Request("submit", m, clock + MessageTTL) \in Requests
                               /\ Request("status", m, 0) \in Requests
                               /\ Request("ack", m, clock + AckTTL) \in Requests
                               /\ Request("nack", m, 0) \in Requests
         /\ Request("poll", NoMessage, 0) \in Requests
         /\ Request("revoke", NoMessage, 0) \in Requests
BY DEF Requests

LEMMA PhoneFits ==
  ASSUME IInv, TypeOK, Clean, Page, PhoneStep
  PROVE  [RelayNext]_relayVars
<1> USE DEF Relay, Clients
<1>1. CASE \E m \in Message : SendNew(m)
  BY <1>1, AskFits, FreshRequests DEF SendNew, MaySend, Page, Clean, Waiting
<1>2. CASE Watch
  <2>1. OnScreen \in Message
    BY <1>2 DEF Watch, TypeOK
  <2> QED
    BY <1>2, <2>1, AskFits, FreshRequests DEF Watch, Watching, Waiting
<1>3. CASE PostReply \/ WatchReply \/ WatchLost \/ Rescan
  <2>1. HangUp("phone") /\ UNCHANGED <<clock, tables>>
    BY <1>3 DEF PostReply, WatchReply, WatchLost, Rescan
  <2> QED
    BY <2>1, HangUpFits
<1>4. CASE PostLost
  BY <1>4, AbandonFits DEF PostLost
<1>5. CASE Leave
  BY <1>5, AbandonFits, HangUpFits DEF Leave
<1>6. CASE (\E u \in Link : Scan(u)) \/ SendAgain \/ WatchExpired \/ StopSending
  BY <1>6 DEF Scan, SendAgain, WatchExpired, StopSending, relayVars, tables
<1> QED
  BY <1>1, <1>2, <1>3, <1>4, <1>5, <1>6 DEF PhoneStep

LEMMA PcFits ==
  ASSUME IInv, Clean, PcStep
  PROVE  [RelayNext]_relayVars
<1> USE DEF Relay, Clients
<1>1. CASE Poll
  BY <1>1, AskFits, FreshRequests DEF Poll, Idle, Waiting
<1>2. ASSUME NEW m \in Message, Accept(m) \/ Refuse(m) PROVE RelayNext
  BY <1>2, AskFits, FreshRequests DEF Accept, Refuse, Event, Replied, At, Waiting
<1>3. CASE PollNothing \/ (\E m \in Message : LedgerFails(m)) \/ AckReply \/ NackDone
  <2>1. HangUp("pc") /\ UNCHANGED <<clock, tables>>
    BY <1>3 DEF PollNothing, LedgerFails, AckReply, NackDone
  <2> QED
    BY <2>1, HangUpFits
<1>4. CASE AckLost \/ CallLost \/ Restart
  BY <1>4, AbandonFits DEF AckLost, CallLost, Restart
<1>5. CASE Remove
  BY <1>5, AskFits, FreshRequests DEF Remove, Waiting
<1>6. CASE RemoveFailed
  BY <1>6, AbandonFits, HangUpFits DEF RemoveFailed
<1>7. CASE RemoveDone
  BY <1>7, HangUpFits DEF RemoveDone
<1> QED
  BY <1>1, <1>2, <1>3, <1>4, <1>5, <1>6, <1>7 DEF PcStep

LEMMA NextFits ==
  ASSUME IInv, TypeOK, Clean, Page, [Next]_vars
  PROVE  [RelayNext]_relayVars
<1>1. CASE RelayWorks
  BY <1>1 DEF RelayWorks, RelayNext, RelayStep
<1>2. CASE \E s \in Slot : RelayFails(s)
  BY <1>2 DEF RelayFails, RelayNext, RelayStep
<1>3. CASE UNCHANGED vars
  BY <1>3 DEF vars
<1> QED
  BY <1>1, <1>2, <1>3, PhoneFits, PcFits DEF Next

-----------------------------------------------------------------------------
(***************************************************************************)
(* The phone's steps: what becomes of its call.                            *)
(***************************************************************************)
LEMMA PhoneCalls ==
  ASSUME IInv, TypeOK, Clean, PhoneStep
  PROVE  /\ \/ \E m \in Message : SendNew(m) /\ OnlyCall("phone", Request("submit", m, clock + MessageTTL))
            \/ Watch /\ OnlyCall("phone", Request("status", OnScreen, 0))
            \/ (PostReply \/ PostLost \/ WatchReply \/ WatchLost \/ Rescan \/ Leave)
                 /\ OnlyCall("phone", NoCall)
            \/ ((\E u \in Link : Scan(u)) \/ SendAgain \/ WatchExpired \/ StopSending)
                 /\ OnlyCall("phone", call["phone"])
         /\ UNCHANGED <<clock, tables, pcVars>>
<1> USE DEF Clients, Relay
<1>1. UNCHANGED <<clock, tables, pcVars>>
  BY DEF PhoneStep, SendNew, Watch, PostReply, PostLost, WatchReply, WatchLost, Rescan,
         Leave, Scan, SendAgain, WatchExpired, StopSending
<1>2. ASSUME NEW m \in Message, SendNew(m)
      PROVE  OnlyCall("phone", Request("submit", m, clock + MessageTTL))
  BY <1>2, Asked DEF SendNew
<1>3. CASE Watch
  BY <1>1, <1>3, Asked DEF Watch
<1>4. CASE PostReply \/ PostLost \/ WatchReply \/ WatchLost \/ Rescan \/ Leave
  <2>1. HangUp("phone") \/ Abandon("phone")
    BY <1>4 DEF PostReply, PostLost, WatchReply, WatchLost, Rescan, Leave
  <2>2. OnlyCall("phone", NoCall)
    BY <2>1, HungUp, Abandoned
  <2> QED
    BY <1>1, <1>4, <2>2
<1>5. CASE (\E u \in Link : Scan(u)) \/ SendAgain \/ WatchExpired \/ StopSending
  <2>1. UNCHANGED call
    BY <1>5 DEF Scan, SendAgain, WatchExpired, StopSending
  <2>2. OnlyCall("phone", call["phone"])
    BY <2>1, Untouched
  <2> QED
    BY <1>1, <1>5, <2>2
<1> QED
  BY <1>1, <1>2, <1>3, <1>4, <1>5 DEF PhoneStep

(***************************************************************************)
(* The PC's steps: one of its two slots changes, and nothing of the phone  *)
(* or the relay.                                                           *)
(***************************************************************************)
LEMMA PcCalls ==
  ASSUME IInv, TypeOK, Clean, PcStep
  PROVE  /\ \/ Poll /\ OnlyCall("pc", Request("poll", NoMessage, 0))
            \/ \E m \in Message : \/ Accept(m) /\ OnlyCall("pc", Request("ack", m, clock + AckTTL))
                                  \/ Refuse(m) /\ OnlyCall("pc", Request("nack", m, 0))
            \/ (PollNothing \/ (\E m \in Message : LedgerFails(m)) \/ AckReply \/ NackDone
                  \/ AckLost \/ CallLost \/ Restart) /\ OnlyCall("pc", NoCall)
            \/ Remove /\ OnlyCall("tray", Request("revoke", NoMessage, 0))
            \/ (RemoveFailed \/ RemoveDone) /\ OnlyCall("tray", NoCall)
         /\ UNCHANGED <<clock, tables, phoneVars>>
<1> USE DEF Clients, Relay
<1>1. UNCHANGED <<clock, tables, phoneVars>>
  BY DEF PcStep, Poll, Accept, Refuse, PollNothing, LedgerFails, AckReply, NackDone,
         AckLost, CallLost, Restart, Remove, RemoveFailed, RemoveDone
<1>2. CASE Poll
  BY <1>1, <1>2, Asked DEF Poll
<1>3. ASSUME NEW m \in Message, Accept(m)
      PROVE  OnlyCall("pc", Request("ack", m, clock + AckTTL))
  BY <1>3, Asked DEF Accept
<1>4. ASSUME NEW m \in Message, Refuse(m)
      PROVE  OnlyCall("pc", Request("nack", m, 0))
  BY <1>4, Asked DEF Refuse
<1>5. CASE PollNothing \/ (\E m \in Message : LedgerFails(m)) \/ AckReply \/ NackDone
             \/ AckLost \/ CallLost \/ Restart
  <2>1. HangUp("pc") \/ Abandon("pc")
    BY <1>5 DEF PollNothing, LedgerFails, AckReply, NackDone, AckLost, CallLost, Restart
  <2>2. OnlyCall("pc", NoCall)
    BY <2>1, HungUp, Abandoned
  <2> QED
    BY <1>1, <1>5, <2>2
<1>6. CASE Remove
  BY <1>1, <1>6, Asked DEF Remove
<1>7. CASE RemoveFailed \/ RemoveDone
  <2>1. HangUp("tray") \/ Abandon("tray")
    BY <1>7 DEF RemoveFailed, RemoveDone
  <2>2. OnlyCall("tray", NoCall)
    BY <2>1, HungUp, Abandoned
  <2> QED
    BY <1>1, <1>7, <2>2
<1> QED
  BY <1>1, <1>2, <1>3, <1>4, <1>5, <1>6, <1>7 DEF PcStep

-----------------------------------------------------------------------------
(***************************************************************************)
(* Each part of the invariant is kept by relay, phone and PC.              *)
(***************************************************************************)
LEMMA RelayKeepsClean == ASSUME Clean, RelayEffect PROVE Clean'
<1>1. \A t \in Slot \ {"orphan"} : ClientKept(t)
  BY DEF RelayEffect
<1>2. ASSUME NEW s \in Slot, call'[s].op = "none" PROVE call'[s] = NoCall
  <2>1. CASE s = "orphan"
    BY <1>2, <2>1 DEF RelayEffect, OrphanKept, Waiting
  <2>2. CASE s # "orphan"
    BY <1>1, <1>2, <2>2 DEF ClientKept, Clean, Waiting
  <2> QED
    BY <2>1, <2>2
<1>3. call'["orphan"].op # "none" => Waiting("orphan")'
  BY DEF RelayEffect, OrphanKept, NoCall
<1>4. \A t \in Clients : call'[t].op = call[t].op
  BY <1>1, Slots DEF ClientKept
<1> QED
  BY <1>2, <1>3, <1>4 DEF Clean, Clients

LEMMA CallKeepsClean ==
  ASSUME Clean, NEW s \in Clients, NEW c, OnlyCall(s, c),
         c.op = "none" => c = NoCall,
         s = "phone" => c.op \in {"none", "submit", "status"},
         s = "pc" => c.op \in {"none", "poll", "ack", "nack"},
         s = "tray" => c.op \in {"none", "revoke"}
  PROVE  Clean'
<1>1. ASSUME NEW t \in Slot, call'[t].op = "none" PROVE call'[t] = NoCall
  BY <1>1 DEF OnlyCall, OrphanKept, Clean, Waiting
<1>2. call'["orphan"].op # "none" => Waiting("orphan")'
  BY DEF OnlyCall, OrphanKept, NoCall
<1>3. \A t \in Clients : t # s => call'[t] = call[t]
  BY Slots DEF OnlyCall
<1>4. call'[s] = c
  BY DEF OnlyCall
<1>5. call'["phone"].op \in {"none", "submit", "status"}
  BY <1>3, <1>4 DEF Clean, Clients
<1>6. call'["pc"].op \in {"none", "poll", "ack", "nack"}
  BY <1>3, <1>4 DEF Clean, Clients
<1>7. call'["tray"].op \in {"none", "revoke"}
  BY <1>3, <1>4 DEF Clean, Clients
<1> QED
  BY <1>1, <1>2, <1>5, <1>6, <1>7 DEF Clean

LEMMA RequestFields ==
  ASSUME NEW op, NEW m, NEW e
  PROVE  LET c == Request(op, m, e)
         IN  /\ c.op = op /\ c.msg = m /\ c.exp = e /\ c.stage = "sent" /\ c.res = "none"
BY DEF Request, NoCall

LEMMA NoCallFields ==
  /\ NoCall.op = "none" /\ NoCall.msg = NoMessage /\ NoCall.res = "none"
  /\ NoCall.stage = "sent" /\ NoCall.exp = 0
BY DEF NoCall

LEMMA ClientsKeepClean ==
  ASSUME IInv, TypeOK, Clean, PhoneStep \/ PcStep
  PROVE  Clean'
<1> USE DEF Clients
<1>1. CASE PhoneStep
  <2>1. PICK c : /\ OnlyCall("phone", c) /\ c.op \in {"none", "submit", "status"}
                 /\ c.op = "none" => c = NoCall
    BY <1>1, PhoneCalls, RequestFields, NoCallFields, Slots DEF Clean
  <2> QED
    BY <2>1, CallKeepsClean
<1>2. CASE PcStep
  <2>1. \/ OnlyCall("pc", NoCall) \/ OnlyCall("tray", NoCall)
        \/ OnlyCall("tray", Request("revoke", NoMessage, 0))
        \/ \E op \in {"poll", "ack", "nack"} : \E m, e : OnlyCall("pc", Request(op, m, e))
    BY <1>2, PcCalls
  <2> QED
    BY <2>1, CallKeepsClean, RequestFields, NoCallFields
<1> QED
  BY <1>1, <1>2

LEMMA TypesAreParts ==
  TypeOK <=> RelayTypeOK /\ PhoneTypes /\ PcTypes /\ faults \in 0 .. MaxFaults
BY DEF TypeOK, PhoneTypes, PcTypes

LEMMA LapsedType ==
  ASSUME PhoneTypes
  PROVE  /\ Lapsed \in [Link -> Message \cup {NoMessage}]
         /\ \A u \in Link : \/ Lapsed[u] = attempt[u]
                            \/ Lapsed[u] = NoMessage /\ attempt[u] # NoMessage
                               /\ Overdue(attempt[u])
BY DEF PhoneTypes, Lapsed

LEMMA PhoneKeepsTypes ==
  ASSUME IInv, PhoneTypes, Clean, Page, PhoneStep
  PROVE  PhoneTypes'
<1> USE RelayAssumption DEF PhoneTypes, DeliveryState
<1>1. ASSUME NEW u \in Link, Scan(u) PROVE PhoneTypes'
  BY <1>1 DEF Scan
<1>2. ASSUME NEW m \in Message, SendNew(m) PROVE PhoneTypes'
  <2>1. view.link \in Link
    BY <1>2 DEF SendNew, MaySend, Page
  <2>2. attempt' \in [Link -> Message \cup {NoMessage}]
    BY <1>2, LapsedType DEF SendNew
  <2>3. clock + MessageTTL \in Nat
    BY DEF IInv, RelayTypeOK
  <2>4. linkOf' \in [Message -> Link \cup {NoLink}] /\ expiry' \in [Message -> Nat]
    BY <1>2, <2>1, <2>3 DEF SendNew
  <2>5. view' \in [link : Link \cup {NoLink}, st : DeliveryState]
    BY <1>2 DEF SendNew, Show
  <2> QED
    BY <1>2, <2>2, <2>4, <2>5 DEF SendNew
<1>3. CASE SendAgain
  <2>1. attempt' \in [Link -> Message \cup {NoMessage}]
    BY <1>3, LapsedType DEF SendAgain
  <2>2. view' \in [link : Link \cup {NoLink}, st : DeliveryState]
    BY <1>3 DEF SendAgain, Show
  <2> QED
    BY <1>3, <2>1, <2>2 DEF SendAgain
<1>4. CASE PostReply
  <2>1. call["phone"].msg \in Message
    BY <1>4, Slots DEF PostReply, Replied, At, Clients, IInv, CallsFit, Fits
  <2>2. known' \in SUBSET Message /\ phonePaired' \in BOOLEAN
    BY <1>4, <2>1 DEF PostReply
  <2>3. attempt' \in [Link -> Message \cup {NoMessage}]
    BY <1>4 DEF PostReply, Retire
  <2>4. view' \in [link : Link \cup {NoLink}, st : DeliveryState]
    BY <1>4 DEF PostReply, Show
  <2> QED
    BY <1>4, <2>2, <2>3, <2>4 DEF PostReply
<1>5. CASE PostLost
  BY <1>5 DEF PostLost, Show
<1>6. CASE Watch \/ WatchLost
  BY <1>6 DEF Watch, WatchLost, phoneVars
<1>7. CASE WatchExpired
  BY <1>7 DEF WatchExpired, Retire, Show
<1>8. CASE StopSending
  BY <1>8 DEF StopSending, Show
<1>9. CASE WatchReply
  <2>1. call["phone"].msg \in Message
    BY <1>9, Slots DEF WatchReply, Replied, At, Clients, IInv, CallsFit, Fits
  <2>2. verified' \in SUBSET Message /\ verified \subseteq verified' /\ phonePaired' \in BOOLEAN
    BY <1>9, <2>1 DEF WatchReply
  <2>3. attempt' \in [Link -> Message \cup {NoMessage}]
    BY <1>9 DEF WatchReply, Retire
  <2>4. view' \in [link : Link \cup {NoLink}, st : DeliveryState]
    BY <1>9 DEF WatchReply, Show
  <2> QED
    BY <1>9, <2>2, <2>3, <2>4 DEF WatchReply
<1>10. CASE Rescan
  BY <1>10 DEF Rescan, Retire
<1>11. CASE Leave
  BY <1>11 DEF Leave
<1> QED
  BY <1>1, <1>2, <1>3, <1>4, <1>5, <1>6, <1>7, <1>8, <1>9, <1>10, <1>11 DEF PhoneStep

LEMMA PcKeepsTypes ==
  ASSUME IInv, PcTypes, Clean, Asking, PcStep
  PROVE  PcTypes'
<1> USE DEF PcTypes
<1>1. CASE \E m \in Message : Accept(m)
  BY <1>1 DEF Accept
<1>2. CASE AckReply \/ AckLost \/ Restart
  <2>1. call["pc"].op = "ack" => call["pc"].msg \in accepted /\ call["pc"].msg \in Message
    BY Slots DEF Asking, Unheard, IInv, CallsFit, Fits, Clients
  <2>2. Unheard \subseteq accepted
    BY <2>1 DEF Unheard
  <2>3. CASE AckReply
    <3>1. call["pc"].msg \in accepted /\ call["pc"].msg \in Message
      BY <2>1, <2>3 DEF AckReply, Replied, At
    <3> QED
      BY <2>3, <3>1 DEF AckReply, Prompt
  <2>4. CASE AckLost
    BY <2>1, <2>4 DEF AckLost, Prompt
  <2>5. CASE Restart
    BY <2>2, <2>5 DEF Restart
  <2> QED
    BY <1>2, <2>3, <2>4, <2>5
<1>3. CASE RemoveDone
  BY <1>3 DEF RemoveDone
<1>4. CASE UNCHANGED pcVars
  BY <1>4 DEF pcVars
<1> QED
  BY <1>1, <1>2, <1>3, <1>4 DEF PcStep, Poll, PollNothing, Refuse, LedgerFails, NackDone,
     CallLost, Remove, RemoveFailed

LEMMA FaultsBounded ==
  ASSUME faults \in 0 .. MaxFaults, [Next]_vars
  PROVE  faults' \in 0 .. MaxFaults
<1>1. UNCHANGED faults \/ Spend
  BY DEF Next, RelayFails, vars, PhoneStep, SendNew, Watch, PostReply, PostLost,
         WatchReply, WatchLost, Rescan, Leave, Scan, SendAgain, WatchExpired, StopSending,
         PcStep, Poll, Accept, Refuse, PollNothing, LedgerFails, AckReply, NackDone,
         AckLost, CallLost, Restart, Remove, RemoveFailed, RemoveDone
<1> QED
  BY <1>1, SystemAssumption DEF Spend

LEMMA RelayKeepsPage ==
  ASSUME Page, Clean, RelayEffect, UNCHANGED phoneVars
  PROVE  Page'
<1>1. ClientKept("phone")
  BY Slots DEF RelayEffect, Clients
<1> QED
  BY <1>1 DEF Page, OnScreen, ClientKept, Named, phoneVars

LEMMA PcKeepsPage ==
  ASSUME IInv, TypeOK, Clean, Page, PcStep
  PROVE  Page' /\ call'["phone"] = call["phone"]
<1>1. call'["phone"] = call["phone"] /\ UNCHANGED phoneVars
  BY PcCalls, Slots DEF OnlyCall, Clients
<1> QED
  BY <1>1 DEF Page, OnScreen, phoneVars

LEMMA PhoneKeepsPage ==
  ASSUME IInv, TypeOK, Clean, Page, PhoneStep
  PROVE  Page'
<1> USE DEF Page, OnScreen
<1>0. view \in [link : Link \cup {NoLink}, st : DeliveryState]
  BY DEF TypeOK
<1>1. ASSUME NEW m \in Message, SendNew(m),
             OnlyCall("phone", Request("submit", m, clock + MessageTTL))
      PROVE  Page'
  <2>1. call'["phone"].op = "submit" /\ call'["phone"].msg = m
    BY <1>1, RequestFields DEF OnlyCall
  <2>2. view'.st = "sending" /\ view'.link = view.link /\ view.link \in Link
    BY <1>0, <1>1 DEF SendNew, MaySend, Show
  <2>3. attempt'[view.link] = m
    BY <1>1, <2>2, LapsedType, TypesAreParts DEF SendNew
  <2> QED
    BY <2>1, <2>2, <2>3
<1>2. CASE Watch /\ OnlyCall("phone", Request("status", OnScreen, 0))
  <2>1. call'["phone"].op = "status" /\ call'["phone"].msg = OnScreen
    BY <1>2, RequestFields DEF OnlyCall
  <2> QED
    BY <1>2, <2>1 DEF Watch, Watching, phoneVars
<1>3. CASE (PostReply \/ PostLost \/ WatchReply \/ WatchLost \/ Rescan \/ Leave)
             /\ OnlyCall("phone", NoCall)
  <2>1. call'["phone"].op = "none"
    BY <1>3, NoCallFields DEF OnlyCall
  <2>2. view'.st # "camera" => view'.link = view.link /\ view.st # "camera"
    <3>1. call["phone"].op \in {"submit", "status"} => view.st # "camera"
      OBVIOUS
    <3>2. CASE PostReply
      BY <1>0, <3>1, <3>2 DEF PostReply, Replied, At, Show
    <3>3. CASE PostLost
      BY <1>0, <3>1, <3>3 DEF PostLost, Show
    <3>4. CASE WatchReply
      BY <1>0, <3>1, <3>4 DEF WatchReply, Replied, At, Show
    <3>5. CASE WatchLost
      BY <3>5 DEF WatchLost, phoneVars
    <3>6. CASE Rescan \/ Leave
      BY <3>6 DEF Rescan, Leave
    <3> QED
      BY <1>3, <3>2, <3>3, <3>4, <3>5, <3>6
  <2> QED
    BY <2>1, <2>2
<1>4. CASE ((\E u \in Link : Scan(u)) \/ SendAgain \/ WatchExpired \/ StopSending)
             /\ OnlyCall("phone", call["phone"])
  <2>1. call'["phone"] = call["phone"]
    BY <1>4 DEF OnlyCall
  <2>2. call["phone"].op = "none" \/ StopSending
    BY <1>4 DEF Scan, SendAgain, MaySend, WatchExpired, Watching, Clean
  <2>3. CASE \E u \in Link : Scan(u)
    BY <2>1, <2>3, <2>2 DEF Scan, StopSending, Watching
  <2>4. CASE SendAgain
    BY <1>0, <2>1, <2>4 DEF SendAgain, MaySend, Show, Clean
  <2>5. CASE WatchExpired
    BY <1>0, <2>1, <2>5 DEF WatchExpired, Watching, Show
  <2>6. CASE StopSending
    BY <1>0, <2>1, <2>6 DEF StopSending, Watching, Show
  <2> QED
    BY <1>4, <2>3, <2>4, <2>5, <2>6
<1> QED
  BY <1>1, <1>2, <1>3, <1>4, PhoneCalls

LEMMA RelayKeepsAsking ==
  ASSUME Asking, RelayEffect, UNCHANGED pcVars
  PROVE  Asking'
<1>1. ClientKept("pc")
  BY Slots DEF RelayEffect, Clients
<1>2. Unheard' = Unheard
  BY <1>1 DEF ClientKept, Named, Unheard
<1> QED
  BY <1>2 DEF Asking, AcceptedIsPrompted, pcVars

LEMMA PhoneKeepsAsking ==
  ASSUME IInv, TypeOK, Clean, Asking, PhoneStep
  PROVE  Asking' /\ call'["pc"] = call["pc"] /\ call'["tray"] = call["tray"]
<1>1. /\ call'["pc"] = call["pc"] /\ call'["tray"] = call["tray"]
      /\ UNCHANGED <<clock, tables, pcVars>>
  BY PhoneCalls, Slots DEF OnlyCall, Clients
<1>2. Unheard' = Unheard
  BY <1>1 DEF Unheard
<1> QED
  BY <1>1, <1>2 DEF Asking, AcceptedIsPrompted, pcVars

LEMMA PcKeepsAsking ==
  ASSUME IInv, TypeOK, Clean, Asking, PcStep
  PROVE  Asking'
<1> USE DEF Asking, AcceptedIsPrompted
<1>0. /\ accepted \subseteq Message /\ dropped \subseteq accepted
      /\ prompts \in [Message -> Nat]
  BY DEF TypeOK
<1>1. ASSUME NEW m \in Message, Accept(m), OnlyCall("pc", Request("ack", m, clock + AckTTL))
      PROVE  Asking'
  <2>1. Unheard' = {m} /\ Unheard = {}
    BY <1>1, RequestFields DEF OnlyCall, Unheard, Accept, Event, Replied, At
  <2>2. m \notin accepted /\ accepted' = accepted \cup {m} /\ UNCHANGED <<dropped, prompts>>
    BY <1>1 DEF Accept
  <2> QED
    BY <1>0, <2>1, <2>2
<1>2. CASE AckReply /\ OnlyCall("pc", NoCall)
  <2> DEFINE m == call["pc"].msg
  <2>1. Unheard' = {} /\ Unheard = {m}
    BY <1>2, NoCallFields DEF OnlyCall, Unheard, AckReply, Replied, At
  <2>2. m \in accepted \ dropped /\ m \in Message /\ prompts[m] = 0 /\ UNCHANGED accepted
    BY <1>0, <1>2, <2>1 DEF AckReply
  <2> HIDE DEF m
  <2>3. CASE prompts' = [prompts EXCEPT ![m] = @ + 1] /\ UNCHANGED dropped
    BY <1>0, <2>1, <2>2, <2>3
  <2>4. CASE dropped' = dropped \cup {m} /\ UNCHANGED prompts
    BY <1>0, <2>1, <2>2, <2>4
  <2> QED
    BY <1>2, <2>3, <2>4 DEF AckReply, Prompt, m
<1>3. CASE AckLost /\ OnlyCall("pc", NoCall)
  <2> DEFINE m == call["pc"].msg
  <2>1. Unheard' = {} /\ Unheard = {m}
    BY <1>3, NoCallFields DEF OnlyCall, Unheard, AckLost
  <2>2. m \in accepted \ dropped /\ m \in Message /\ prompts[m] = 0
        /\ UNCHANGED <<accepted, dropped>> /\ prompts' = [prompts EXCEPT ![m] = @ + 1]
    BY <1>0, <1>3, <2>1 DEF AckLost, Prompt
  <2> HIDE DEF m
  <2> QED
    BY <1>0, <2>1, <2>2
<1>4. CASE Restart /\ OnlyCall("pc", NoCall)
  <2>1. Unheard' = {}
    BY <1>4, NoCallFields DEF OnlyCall, Unheard
  <2>2. dropped' = dropped \cup Unheard /\ UNCHANGED <<accepted, prompts>>
    BY <1>4 DEF Restart
  <2> QED
    BY <1>0, <2>1, <2>2
<1>5. ASSUME UNCHANGED <<accepted, dropped, prompts>>, Unheard' = Unheard PROVE Asking'
  BY <1>5
<1>6. ASSUME UNCHANGED <<accepted, dropped, prompts>>, call["pc"].op # "ack",
             call'["pc"].op # "ack"
      PROVE  Asking'
  BY <1>5, <1>6 DEF Unheard
<1>7. ASSUME NEW m \in Message, Refuse(m), OnlyCall("pc", Request("nack", m, 0))
      PROVE  Asking'
  BY <1>6, <1>7, RequestFields DEF Refuse, Event, Replied, At, pcVars, OnlyCall
<1>8. CASE Poll /\ OnlyCall("pc", Request("poll", NoMessage, 0))
  BY <1>6, <1>8, RequestFields DEF Poll, Idle, pcVars, OnlyCall
<1>9. CASE (PollNothing \/ (\E m \in Message : LedgerFails(m)) \/ NackDone \/ CallLost)
             /\ OnlyCall("pc", NoCall)
  BY <1>6, <1>9, NoCallFields DEF PollNothing, LedgerFails, Event, NackDone, CallLost,
     Replied, At, pcVars, OnlyCall
<1>10. CASE Remove \/ RemoveFailed \/ RemoveDone
  <2>1. call'["pc"] = call["pc"]
    <3>1. \E c : OnlyCall("tray", c)
      BY <1>10, Asked, HungUp, Abandoned DEF Remove, RemoveFailed, RemoveDone, Clients
    <3> QED
      BY <3>1, Slots DEF OnlyCall, Clients
  <2> QED
    BY <1>5, <1>10, <2>1 DEF Unheard, Remove, RemoveFailed, RemoveDone, pcVars
<1> QED
  BY <1>1, <1>2, <1>3, <1>4, <1>7, <1>8, <1>9, <1>10, PcCalls

LEMMA RelayKeepsRemoval ==
  ASSUME Removal, RelayEffect, UNCHANGED pcVars
  PROVE  Removal'
<1>1. ClientKept("tray") /\ Told("tray") /\ (purged => purged')
  BY Slots DEF RelayEffect, Clients
<1>2. call'["tray"].res = "revoked" => purged'
  BY <1>1 DEF Removal, ClientKept, Told
<1> QED
  BY <1>1, <1>2 DEF Removal, pcVars

LEMMA ClientsKeepRemoval ==
  ASSUME IInv, TypeOK, Clean, Asking, Removal, PhoneStep \/ PcStep
  PROVE  Removal'
<1> USE DEF Removal
<1>1. CASE PhoneStep
  BY <1>1, PhoneKeepsAsking, PhoneCalls DEF tables, pcVars
<1>2. CASE PcStep
  <2>1. UNCHANGED purged
    BY <1>2, PcCalls DEF tables
  <2>2. call'["tray"].res = call["tray"].res \/ call'["tray"].res = "none"
    BY <1>2, PcCalls, Slots, RequestFields, NoCallFields DEF OnlyCall, Clients
  <2>3. UNCHANGED paired \/ RemoveDone
    BY <1>2 DEF PcStep, Poll, Accept, Refuse, PollNothing, LedgerFails, AckReply, NackDone,
         AckLost, CallLost, Restart, Remove, RemoveFailed, pcVars
  <2>4. RemoveDone => purged
    BY DEF RemoveDone
  <2> QED
    BY <2>1, <2>2, <2>3, <2>4
<1> QED
  BY <1>1, <1>2

LEMMA RelayKeepsTruth ==
  ASSUME IInv, Truth, RelayEffect, UNCHANGED <<phoneVars, pcVars>>
  PROVE  Truth'
<1> USE DEF Truth
<1>1. ASSUME NEW s \in Slot, call'[s].op = "ack" PROVE call'[s].msg \in accepted'
  <2>1. CASE s = "orphan"
    BY <1>1, <2>1 DEF RelayEffect, OrphanKept, NoCall, Named, pcVars
  <2>2. CASE s # "orphan"
    BY <1>1, <2>2 DEF RelayEffect, ClientKept, Named, pcVars
  <2> QED
    BY <2>1, <2>2
<1>2. ASSUME NEW m \in Message, rows'[m].status = "delivered" PROVE m \in accepted'
  BY <1>2 DEF RelayEffect, RowKept, RowInserted, RowAnswered, Held, pcVars
<1>3. ASSUME call'["phone"].op = "status",
             call'["phone"].res \in {"delivered", "delivery_receipt_expired"}
      PROVE  call'["phone"].msg \in accepted'
  <2>1. ClientKept("phone") /\ Told("phone")
    BY Slots DEF RelayEffect, Clients
  <2>2. CASE ~Waiting("phone") \/ Waiting("phone")'
    BY <1>3, <2>1, <2>2 DEF ClientKept, Named, pcVars
  <2>3. CASE Waiting("phone") /\ ~Waiting("phone")'
    <3>1. /\ call'["phone"].msg = call["phone"].msg
          /\ Verdict(call["phone"].msg) \in {"delivered", "delivery_receipt_expired"}
      BY <1>3, <2>1, <2>3 DEF ClientKept, Named, Told, Outcomes
    <3>2. call["phone"].msg \in Message
      BY <1>3, <2>1, Slots DEF ClientKept, IInv, CallsFit, Fits, Clients
    <3>3. rows[call["phone"].msg].status = "delivered"
      BY <3>1 DEF Verdict
    <3> QED
      BY <3>1, <3>2, <3>3 DEF pcVars
  <2> QED
    BY <2>2, <2>3
<1>4. ReceiptIsTrue' /\ verified' \subseteq accepted'
  BY DEF ReceiptIsTrue, OnScreen, phoneVars, pcVars
<1> QED
  BY <1>1, <1>2, <1>3, <1>4

\* The orphan took its call over, so nothing is acknowledged that was not.
LEMMA ClientsKeepAcks ==
  ASSUME Truth, NEW s \in Clients, NEW c, OnlyCall(s, c), accepted \subseteq accepted',
         c.op = "ack" => c.msg \in accepted'
  PROVE  \A t \in Slot : call'[t].op = "ack" => call'[t].msg \in accepted'
<1> SUFFICES ASSUME NEW t \in Slot, call'[t].op = "ack" PROVE call'[t].msg \in accepted'
  OBVIOUS
<1>1. CASE t = "orphan"
  BY <1>1 DEF OnlyCall, OrphanKept, NoCall, Named, Truth
<1>2. CASE t # "orphan"
  BY <1>2 DEF OnlyCall, Truth
<1> QED
  BY <1>1, <1>2

LEMMA PcKeepsTruth ==
  ASSUME IInv, TypeOK, Clean, Truth, PcStep
  PROVE  Truth'
<1>1. UNCHANGED <<rows, phoneVars>>
  BY PcCalls DEF tables
<1>2. accepted \subseteq accepted'
  BY DEF PcStep, Poll, Accept, Refuse, PollNothing, LedgerFails, AckReply, NackDone,
         AckLost, CallLost, Restart, Remove, RemoveFailed, RemoveDone, pcVars
<1>3. call'["phone"] = call["phone"]
  BY PcCalls, Slots DEF OnlyCall, Clients
<1>4. \A t \in Slot : call'[t].op = "ack" => call'[t].msg \in accepted'
  <2>1. ASSUME NEW m \in Message, Accept(m), OnlyCall("pc", Request("ack", m, clock + AckTTL))
        PROVE  \A t \in Slot : call'[t].op = "ack" => call'[t].msg \in accepted'
    <3>1. m \in accepted'
      BY <2>1 DEF Accept
    <3> QED
      BY <1>2, <2>1, <3>1, ClientsKeepAcks, RequestFields DEF Clients
  <2>2. ASSUME NEW s \in Clients, NEW c, OnlyCall(s, c), c.op # "ack"
        PROVE  \A t \in Slot : call'[t].op = "ack" => call'[t].msg \in accepted'
    BY <1>2, <2>2, ClientsKeepAcks
  <2> QED
    BY <2>1, <2>2, PcCalls, RequestFields, NoCallFields DEF Clients
<1> QED
  BY <1>1, <1>2, <1>3, <1>4 DEF Truth, ReceiptIsTrue, OnScreen, phoneVars

LEMMA PhoneKeepsTruth ==
  ASSUME IInv, TypeOK, Clean, Page, Truth, PhoneStep
  PROVE  Truth'
<1>0. /\ view \in [link : Link \cup {NoLink}, st : DeliveryState]
      /\ call["phone"].op \in {"none", "submit", "status"}
      /\ UNCHANGED <<rows, accepted>>
  BY PhoneCalls DEF TypeOK, Clean, tables, pcVars
<1>1. PICK c : /\ OnlyCall("phone", c) /\ c.op # "ack"
               /\ c.op = "status" => c.res = "none" \/ c = call["phone"]
  BY PhoneCalls, RequestFields, NoCallFields, <1>0
<1>2. \A t \in Slot : call'[t].op = "ack" => call'[t].msg \in accepted'
  BY <1>0, <1>1, ClientsKeepAcks DEF Clients
<1>3. call'["phone"].op = "status"
        /\ call'["phone"].res \in {"delivered", "delivery_receipt_expired"}
        => call'["phone"].msg \in accepted'
  BY <1>0, <1>1 DEF OnlyCall, Truth
<1>4. verified' \subseteq accepted' /\ ReceiptIsTrue'
  <2> USE DEF Truth, ReceiptIsTrue, OnScreen
  <2>1. CASE WatchReply
    <3> DEFINE r == call["phone"]
    <3>1. r.op = "status" /\ r.msg = attempt[view.link] /\ view.st \in {"sending", "pending"}
      BY <2>1 DEF WatchReply, Replied, At, Page
    <3>2. r.res \in {"delivered", "delivery_receipt_expired"} => r.msg \in accepted
      BY <3>1
    <3>3. verified' \subseteq accepted
      BY <2>1, <3>2 DEF WatchReply
    <3>4. CASE view'.st \in {"delivered", "unconfirmed"}
      <4>1. r.res \in {"delivered", "delivery_receipt_expired"} /\ view'.link = view.link
        BY <1>0, <2>1, <3>1, <3>4 DEF WatchReply, Show
      <4>2. attempt' = attempt
        BY <2>1, <4>1 DEF WatchReply
      <4> QED
        BY <1>0, <3>1, <3>2, <3>3, <4>1, <4>2
    <3> QED
      BY <1>0, <3>3, <3>4
  <2>2. CASE SendAgain
    <3>1. view'.link = view.link /\ attempt' = Lapsed /\ UNCHANGED verified
      BY <1>0, <2>2 DEF SendAgain, Show
    <3>2. view'.st = "delivered" => Lapsed[view.link] \in verified
      BY <1>0, <2>2 DEF SendAgain, Show
    <3>3. view'.st # "unconfirmed"
      BY <1>0, <2>2 DEF SendAgain, Show
    <3> QED
      BY <1>0, <3>1, <3>2, <3>3
  <2>3. CASE Watch \/ WatchLost
    BY <1>0, <2>3 DEF Watch, WatchLost, phoneVars
  <2>4. CASE PostReply
    BY <1>0, <2>4 DEF PostReply, Replied, At, Show, Page
  <2>5. CASE \E m \in Message : SendNew(m)
    BY <1>0, <2>5 DEF SendNew, Show
  <2>6. CASE (\E u \in Link : Scan(u)) \/ PostLost \/ WatchExpired \/ StopSending
    BY <1>0, <2>6 DEF Scan, PostLost, WatchExpired, StopSending, Show
  <2>7. CASE Rescan \/ Leave
    BY <1>0, <2>7 DEF Rescan, Leave
  <2> QED
    BY <2>1, <2>2, <2>3, <2>4, <2>5, <2>6, <2>7 DEF PhoneStep
<1> QED
  BY <1>0, <1>2, <1>3, <1>4 DEF Truth

-----------------------------------------------------------------------------
(***************************************************************************)
(* A POST that is still under way was so before, and where it was or with  *)
(* a client that no longer waits for it.                                   *)
(***************************************************************************)
PostsKept(m) ==
  \A s \in Slot : Posts(s, m)' =>
    \E t \in Slot : /\ Posts(t, m) /\ call'[s].exp = call[t].exp
                    /\ s = t \/ (s = "orphan" /\ ~Waiting(t)')

LEMMA RelayKeepsPosts ==
  ASSUME Clean, RelayEffect, NEW m
  PROVE  PostsKept(m)
<1> SUFFICES ASSUME NEW s \in Slot, Posts(s, m)'
             PROVE  \E t \in Slot : /\ Posts(t, m) /\ call'[s].exp = call[t].exp
                                    /\ s = t \/ (s = "orphan" /\ ~Waiting(t)')
  BY DEF PostsKept
<1>1. CASE s = "orphan"
  <2>1. call'["orphan"] # NoCall
    BY <1>1, NoCallFields DEF Posts
  <2>2. OrphanKept
    BY DEF RelayEffect
  <2>3. PICK t \in Slot :
          /\ Waiting(t) /\ (t = "orphan" \/ ~Waiting(t)')
          /\ call'["orphan"].op = call[t].op
          /\ Named(call[t]) => call'["orphan"].msg = call[t].msg
          /\ call'["orphan"].exp = call[t].exp
    BY <2>1, <2>2 DEF OrphanKept
  <2>4. Posts(t, m)
    BY <1>1, <2>3 DEF Posts, Named
  <2> QED
    BY <1>1, <2>3, <2>4
<1>2. CASE s # "orphan"
  BY <1>2 DEF RelayEffect, ClientKept, Posts, Named
<1> QED
  BY <1>1, <1>2

LEMMA CallKeepsPosts ==
  ASSUME NEW s \in Clients, NEW c, OnlyCall(s, c), NEW m,
         c = call[s] \/ c.op # "submit" \/ c.msg # m
  PROVE  PostsKept(m)
<1> SUFFICES ASSUME NEW r \in Slot, Posts(r, m)'
             PROVE  \E t \in Slot : /\ Posts(t, m) /\ call'[r].exp = call[t].exp
                                    /\ r = t \/ (r = "orphan" /\ ~Waiting(t)')
  BY DEF PostsKept
<1>1. CASE r = "orphan"
  BY <1>1, Slots DEF OnlyCall, OrphanKept, Posts, NoCall, Named
<1>2. CASE r # "orphan"
  BY <1>2 DEF OnlyCall, Posts, Waiting
<1> QED
  BY <1>1, <1>2

LEMMA PostingKept ==
  ASSUME NEW m, PostsKept(m)
  PROVE  Posting(m)' => Posting(m)
BY DEF PostsKept, Posting, Posts

LEMMA PostedOnce ==
  ASSUME NEW m \in Message, Once, PostsKept(m), NEW s \in Slot, NEW t \in Slot,
         Posts(s, m)', Posts(t, m)'
  PROVE  s = t
<1>1. PICK a \in Slot : Posts(a, m) /\ (s = a \/ (s = "orphan" /\ ~Waiting(a)'))
  BY DEF PostsKept
<1>2. PICK b \in Slot : Posts(b, m) /\ (t = b \/ (t = "orphan" /\ ~Waiting(b)'))
  BY DEF PostsKept
<1>3. a = b
  BY <1>1, <1>2 DEF Once
<1>4. Waiting(s)' /\ Waiting(t)'
  BY DEF Posts
<1> QED
  BY <1>1, <1>2, <1>3, <1>4

\* When a client's POST is answered, or is the one that was stored, it is over.
LEMMA AnsweredPost ==
  ASSUME NEW m \in Message, Once, PostsKept(m), NEW s \in Slot, Posts(s, m),
         ~Waiting(s)', s = "orphan" \/ call'["orphan"] = call["orphan"]
  PROVE  ~Posting(m)'
<1> SUFFICES ASSUME NEW r \in Slot, Posts(r, m)' PROVE FALSE
  BY DEF Posting, Posts
<1>1. PICK t \in Slot : Posts(t, m) /\ (r = t \/ (r = "orphan" /\ ~Waiting(t)'))
  BY DEF PostsKept
<1>2. t = s
  BY <1>1 DEF Once
<1>3. r = "orphan" /\ s # "orphan"
  BY <1>1, <1>2 DEF Posts
<1>4. Posts("orphan", m)
  BY <1>3 DEF Posts, Waiting
<1> QED
  BY <1>3, <1>4, Slots DEF Once

\* A row appears only in the place of the POST that carried it.
LEMMA StoredKept ==
  ASSUME Clean, Once, RelayEffect, NEW m \in Message, Stored(m)'
  PROVE  \/ Stored(m) /\ rows'[m].expires = rows[m].expires
         \/ Posting(m) /\ ~Posting(m)' /\ rows'[m].expires = expiry[m]
<1>1. CASE RowKept(m)
  BY <1>1 DEF RowKept, Stored, Held
<1>2. ASSUME NEW s \in Slot, RowAnswered(m, s)
      PROVE  Stored(m) /\ rows'[m].expires = rows[m].expires
  BY <1>2 DEF RowAnswered
<1>3. ASSUME NEW s \in Slot, RowInserted(m, s)
      PROVE  Posting(m) /\ ~Posting(m)' /\ rows'[m].expires = expiry[m]
  <2>1. PostsKept(m)
    BY RelayKeepsPosts
  <2>2. ~Posting(m)'
    BY <1>3, <2>1, AnsweredPost, Slots DEF RowInserted
  <2> QED
    BY <1>3, <2>2 DEF RowInserted, Once, Posts, Posting
<1> QED
  BY <1>1, <1>2, <1>3 DEF RelayEffect

LEMMA OverKept ==
  ASSUME Clean, RelayEffect, NEW m \in Message, Over(m)
  PROVE  Over(m)'
<1>1. ~Posting(m)'
  BY RelayKeepsPosts, PostingKept DEF Over
<1>2. ~Held(m)'
  <2>1. CASE RowKept(m)
    BY <2>1 DEF RowKept, Held, Over
  <2>2. ASSUME NEW s \in Slot, RowInserted(m, s) \/ RowAnswered(m, s) PROVE ~Held(m)'
    BY <2>2 DEF RowInserted, RowAnswered, Posts, Posting, Held, Over
  <2> QED
    BY <2>1, <2>2 DEF RelayEffect
<1> QED
  BY <1>1, <1>2 DEF Over

LEMMA RelayKeepsOnce ==
  ASSUME IInv, TypeOK, Clean, Once, RelayEffect, UNCHANGED phoneVars
  PROVE  Once'
<1>0. UNCHANGED <<linkOf, known, attempt, expiry>>
  BY DEF phoneVars
<1>1. ASSUME NEW m \in Message, linkOf[m] = NoLink
      PROVE  /\ ~Stored(m)' /\ m \notin known
             /\ \A s \in Slot : call'[s].op \in {"submit", "status"} => call'[s].msg # m
  <2>1. ~Stored(m) /\ m \notin known
        /\ \A s \in Slot : call[s].op \in {"submit", "status"} => call[s].msg # m
    BY <1>1 DEF Once
  <2>2. ~Stored(m)'
    BY <2>1, StoredKept DEF Posting
  <2>3. ASSUME NEW s \in Slot, call'[s].op \in {"submit", "status"} PROVE call'[s].msg # m
    <3>1. CASE s = "orphan"
      <4>1. call'["orphan"] # NoCall
        BY <2>3, <3>1, NoCallFields
      <4>2. OrphanKept
        BY DEF RelayEffect
      <4>3. PICK t \in Slot : /\ call'["orphan"].op = call[t].op
                              /\ Named(call[t]) => call'["orphan"].msg = call[t].msg
        BY <4>1, <4>2 DEF OrphanKept
      <4> QED
        BY <2>1, <2>3, <3>1, <4>3 DEF Named
    <3>2. CASE s # "orphan"
      BY <2>1, <2>3, <3>2 DEF RelayEffect, ClientKept, Named
    <3> QED
      BY <3>1, <3>2
  <2> QED
    BY <2>1, <2>2, <2>3
<1>2. ASSUME NEW m \in Message, NEW s \in Slot, NEW t \in Slot, Posts(s, m)', Posts(t, m)'
      PROVE  s = t
  BY <1>2, RelayKeepsPosts, PostedOnce
<1>3. ASSUME NEW m \in Message, NEW s \in Slot, Posts(s, m)'
      PROVE  call'[s].exp = expiry[m] /\ ~Stored(m)' /\ m \notin known
  <2>1. PICK t \in Slot : Posts(t, m) /\ call'[s].exp = call[t].exp
    BY <1>3, RelayKeepsPosts DEF PostsKept
  <2>2. call[t].exp = expiry[m] /\ ~Stored(m) /\ m \notin known
    BY <2>1 DEF Once
  <2>3. Posting(m)'
    BY <1>3 DEF Posting, Posts
  <2> QED
    BY <2>1, <2>2, <2>3, StoredKept
<1>4. ASSUME NEW m \in Message, Stored(m)' PROVE rows'[m].expires = expiry[m]
  BY <1>4, StoredKept DEF Once
<1>5. \A u \in Link : attempt[u] # NoMessage => linkOf[attempt[u]] = u
  BY DEF Once
<1> QED
  BY <1>0, <1>1, <1>2, <1>3, <1>4, <1>5 DEF Once

\* The steps of the PC post nothing.
LEMMA PcKeepsPosts ==
  ASSUME IInv, TypeOK, Clean, PcStep
  PROVE  /\ \A m \in Message : PostsKept(m)
         /\ \A s \in Slot : call'[s].op \in {"submit", "status"} =>
              \E t \in Slot : call'[s].op = call[t].op /\ call'[s].msg = call[t].msg
<1>0. PICK s \in Clients : \E c : OnlyCall(s, c) /\ c.op \notin {"submit", "status"}
  BY PcCalls, RequestFields, NoCallFields DEF Clients
<1>1. PICK c : OnlyCall(s, c) /\ c.op \notin {"submit", "status"}
  BY <1>0
<1>2. \A m \in Message : PostsKept(m)
  BY <1>1, CallKeepsPosts
<1>3. ASSUME NEW r \in Slot, call'[r].op \in {"submit", "status"}
      PROVE  \E t \in Slot : call'[r].op = call[t].op /\ call'[r].msg = call[t].msg
  <2>1. CASE r = "orphan"
    <3>1. call'["orphan"] # NoCall
      BY <1>3, <2>1, NoCallFields
    <3>2. OrphanKept
      BY <1>1 DEF OnlyCall
    <3>3. PICK t \in Slot : /\ call'["orphan"].op = call[t].op
                            /\ Named(call[t]) => call'["orphan"].msg = call[t].msg
      BY <3>1, <3>2 DEF OrphanKept
    <3> QED
      BY <1>3, <2>1, <3>3 DEF Named
  <2>2. CASE r # "orphan"
    BY <1>1, <1>3, <2>2 DEF OnlyCall
  <2> QED
    BY <2>1, <2>2
<1> QED
  BY <1>2, <1>3

LEMMA PcKeepsOnce ==
  ASSUME IInv, TypeOK, Clean, Once, PcStep
  PROVE  Once'
<1>0. UNCHANGED <<linkOf, known, attempt, expiry, rows>>
  BY PcCalls DEF phoneVars, tables
<1>1. ASSUME NEW m \in Message, NEW s \in Slot, NEW t \in Slot, Posts(s, m)', Posts(t, m)'
      PROVE  s = t
  BY <1>1, PcKeepsPosts, PostedOnce
<1>2. ASSUME NEW m \in Message, NEW s \in Slot, Posts(s, m)'
      PROVE  call'[s].exp = expiry[m] /\ ~Stored(m) /\ m \notin known
  BY <1>2, PcKeepsPosts DEF PostsKept, Once
<1>3. ASSUME NEW m \in Message, linkOf[m] = NoLink
      PROVE  /\ ~Stored(m) /\ m \notin known
             /\ \A s \in Slot : call'[s].op \in {"submit", "status"} => call'[s].msg # m
  BY <1>3, PcKeepsPosts DEF Once
<1> QED
  BY <1>0, <1>1, <1>2, <1>3 DEF Once, Stored

\* The phone posts a message when it builds it, and never again.
LEMMA PhonePosts ==
  ASSUME IInv, TypeOK, Clean, PhoneStep
  PROVE  \A m \in Message :
           /\ ~SendNew(m) => PostsKept(m)
           /\ ~SendNew(m) => linkOf'[m] = linkOf[m] /\ expiry'[m] = expiry[m]
<1>0. linkOf \in [Message -> Link \cup {NoLink}] /\ expiry \in [Message -> Nat]
  BY DEF TypeOK
<1> SUFFICES ASSUME NEW m \in Message, ~SendNew(m)
             PROVE  PostsKept(m) /\ linkOf'[m] = linkOf[m] /\ expiry'[m] = expiry[m]
  OBVIOUS
<1>1. ASSUME NEW n \in Message, SendNew(n)
      PROVE  PostsKept(m) /\ linkOf'[m] = linkOf[m] /\ expiry'[m] = expiry[m]
  <2>0. OnlyCall("phone", Request("submit", n, clock + MessageTTL))
    BY <1>1, Asked DEF SendNew, Clients
  <2>1. n # m
    BY <1>1
  <2>2. PostsKept(m)
    BY <2>0, <2>1, CallKeepsPosts, RequestFields DEF Clients
  <2> QED
    BY <1>0, <1>1, <2>1, <2>2 DEF SendNew
<1>2. ASSUME ~(\E n \in Message : SendNew(n)) PROVE UNCHANGED <<linkOf, expiry>>
  BY <1>2 DEF PhoneStep, Watch, PostReply, PostLost, WatchReply, WatchLost, Rescan,
              Leave, Scan, SendAgain, WatchExpired, StopSending, phoneVars
<1>3. ASSUME ~(\E n \in Message : SendNew(n)) PROVE PostsKept(m)
  <2>1. \E c : OnlyCall("phone", c) /\ (c.op # "submit" \/ c = call["phone"])
    BY <1>3, PhoneCalls, RequestFields, NoCallFields
  <2> QED
    BY <2>1, CallKeepsPosts DEF Clients
<1> QED
  BY <1>1, <1>2, <1>3

LEMMA PhoneKeepsOnce ==
  ASSUME IInv, TypeOK, Clean, Page, Once, Heard, PhoneStep
  PROVE  Once'
<1>0. /\ UNCHANGED <<rows, clock>> /\ call \in [Slot -> Call]
      /\ linkOf \in [Message -> Link \cup {NoLink}] /\ expiry \in [Message -> Nat]
      /\ attempt \in [Link -> Message \cup {NoMessage}] /\ known \subseteq Message
  BY PhoneCalls DEF TypeOK, tables, RelayTypeOK
\* known grows by a message whose POST was answered.
<1>1. \A m \in Message : m \in known' /\ m \notin known =>
        /\ call["phone"].op = "submit" /\ call["phone"].msg = m /\ ~Posting(m)
  BY DEF PhoneStep, SendNew, Watch, PostReply, PostLost, WatchReply, WatchLost, Rescan,
         Leave, Scan, SendAgain, WatchExpired, StopSending, phoneVars, Replied, At, Heard
<1>2. \A m \in Message : linkOf'[m] = NoLink => linkOf[m] = NoLink /\ ~SendNew(m)
  <2> SUFFICES ASSUME NEW m \in Message, linkOf'[m] = NoLink
               PROVE  linkOf[m] = NoLink /\ ~SendNew(m)
    OBVIOUS
  <2>1. ~SendNew(m)
    BY <1>0, SystemAssumption DEF SendNew, MaySend, Page
  <2> QED
    BY <2>1, PhonePosts
<1>3. ASSUME NEW m \in Message, linkOf'[m] = NoLink
      PROVE  /\ ~Stored(m)' /\ m \notin known'
             /\ \A s \in Slot : call'[s].op \in {"submit", "status"} => call'[s].msg # m
  <2>1. /\ ~Stored(m) /\ m \notin known
        /\ \A s \in Slot : call[s].op \in {"submit", "status"} => call[s].msg # m
    BY <1>2, <1>3 DEF Once
  <2>2. m \notin known'
    BY <1>1, <2>1, Slots DEF Clients
  <2>3. ASSUME NEW s \in Slot, call'[s].op \in {"submit", "status"}, call'[s].msg = m
        PROVE  FALSE
    <3>1. PICK c : /\ OnlyCall("phone", c)
                   /\ \/ c = NoCall \/ c = call["phone"]
                      \/ \E n \in Message : SendNew(n) /\ c.msg = n
                      \/ Watch /\ c.msg = OnScreen
      BY PhoneCalls, RequestFields
    <3>2. CASE s = "orphan"
      <4>1. call'["orphan"] # NoCall
        BY <2>3, <3>2, NoCallFields
      <4>2. PICK t \in Slot : call'["orphan"].op = call[t].op
                               /\ (Named(call[t]) => call'["orphan"].msg = call[t].msg)
        BY <3>1, <4>1 DEF OnlyCall, OrphanKept
      <4> QED
        BY <2>1, <2>3, <3>2, <4>2 DEF Named
    <3>3. CASE s \notin {"phone", "orphan"}
      BY <2>1, <2>3, <3>1, <3>3 DEF OnlyCall
    <3>4. CASE s = "phone"
      <4>1. c.msg = m /\ c.op \in {"submit", "status"}
        BY <2>3, <3>1, <3>4 DEF OnlyCall
      <4>2. c # NoCall /\ c # call["phone"]
        BY <2>1, <4>1, NoCallFields, Slots DEF Clients
      <4>3. ~SendNew(m)
        BY <1>2, <1>3
      <4>4. OnScreen = m /\ m \in known
        BY <3>1, <4>1, <4>2, <4>3 DEF Watch
      <4> QED
        BY <2>1, <4>4
    <3> QED
      BY <3>2, <3>3, <3>4
  <2> QED
    BY <1>0, <2>1, <2>2, <2>3 DEF Stored
<1>4. ASSUME NEW m \in Message, NEW s \in Slot, Posts(s, m)', SendNew(m)
      PROVE  s = "phone" /\ call'[s].exp = expiry'[m]
  <2>1. OnlyCall("phone", Request("submit", m, clock + MessageTTL))
    BY <1>4, Asked DEF SendNew, Clients
  <2>2. linkOf[m] = NoLink
    BY <1>4 DEF SendNew, Unbuilt
  <2>3. s = "phone"
    BY <1>4, <2>1, <2>2 DEF OnlyCall, OrphanKept, Posts, Named, NoCall, Once
  <2>4. expiry'[m] = clock + MessageTTL
    BY <1>0, <1>4 DEF SendNew
  <2> QED
    BY <2>1, <2>3, <2>4, RequestFields DEF OnlyCall
<1>5. ASSUME NEW m \in Message, NEW s \in Slot, NEW t \in Slot, Posts(s, m)', Posts(t, m)'
      PROVE  s = t
  <2>1. CASE SendNew(m)
    BY <1>4, <1>5, <2>1
  <2>2. CASE ~SendNew(m)
    BY <1>5, <2>2, PhonePosts, PostedOnce
  <2> QED
    BY <2>1, <2>2
<1>6. ASSUME NEW m \in Message, NEW s \in Slot, Posts(s, m)'
      PROVE  call'[s].exp = expiry'[m] /\ ~Stored(m)' /\ m \notin known'
  <2>1. CASE SendNew(m)
    <3>1. linkOf[m] = NoLink /\ known' = known
      BY <2>1 DEF SendNew, Unbuilt
    <3> QED
      BY <1>0, <1>4, <1>6, <2>1, <3>1 DEF Once, Stored
  <2>2. CASE ~SendNew(m)
    <3>1. PICK t \in Slot : Posts(t, m) /\ call'[s].exp = call[t].exp
      BY <1>6, <2>2, PhonePosts DEF PostsKept
    <3>2. Posting(m)
      BY <3>1 DEF Posting, Posts
    <3> QED
      BY <1>0, <1>1, <2>2, <3>1, <3>2, PhonePosts DEF Once, Stored
  <2> QED
    BY <2>1, <2>2
<1>7. ASSUME NEW m \in Message, Stored(m)' PROVE rows'[m].expires = expiry'[m]
  <2>1. Stored(m) /\ linkOf[m] # NoLink
    BY <1>0, <1>7 DEF Stored, Once
  <2>2. ~SendNew(m)
    BY <2>1 DEF SendNew, Unbuilt
  <2> QED
    BY <1>0, <2>1, <2>2, PhonePosts DEF Once
<1>8. ASSUME NEW u \in Link, attempt'[u] # NoMessage PROVE linkOf'[attempt'[u]] = u
  <2>1. ASSUME NEW n \in Message, SendNew(n) PROVE linkOf'[attempt'[u]] = u
    <3>1. view.link \in Link /\ linkOf[n] = NoLink
      BY <2>1 DEF SendNew, MaySend, Page, Unbuilt
    <3>2. CASE u = view.link
      <4>1. attempt'[u] = n /\ linkOf'[n] = u
        BY <1>0, <2>1, <3>1, <3>2, LapsedType, TypesAreParts DEF SendNew
      <4> QED
        BY <4>1
    <3>3. CASE u # view.link
      <4>1. attempt'[u] = Lapsed[u]
        BY <2>1, <3>1, <3>3, LapsedType, TypesAreParts DEF SendNew
      <4>2. attempt'[u] = attempt[u] /\ attempt[u] \in Message
        BY <1>0, <1>8, <4>1, LapsedType, TypesAreParts
      <4>3. linkOf[attempt[u]] = u
        BY <1>8, <4>2 DEF Once
      <4>4. attempt[u] # n
        BY <3>1, <4>3, SystemAssumption
      <4> QED
        BY <1>0, <2>1, <4>2, <4>3, <4>4 DEF SendNew
    <3> QED
      BY <3>2, <3>3
  <2>2. ASSUME ~(\E n \in Message : SendNew(n)) PROVE linkOf'[attempt'[u]] = u
    <3>1. attempt'[u] = attempt[u] \/ attempt'[u] = NoMessage
      BY <1>0, <2>2, LapsedType, TypesAreParts DEF PhoneStep, Watch, PostReply, PostLost,
         WatchReply, WatchLost, Rescan, Leave, Scan, SendAgain, WatchExpired, StopSending,
         phoneVars, Retire
    <3>2. attempt[u] \in Message /\ attempt'[u] = attempt[u]
      BY <1>0, <1>8, <3>1
    <3> QED
      BY <1>8, <2>2, <3>2, PhonePosts DEF Once
  <2> QED
    BY <2>1, <2>2
<1> QED
  BY <1>3, <1>5, <1>6, <1>7, <1>8 DEF Once

LEMMA RelayKeepsHeard ==
  ASSUME IInv, TypeOK, Clean, Once, Heard, RelayEffect, UNCHANGED phoneVars
  PROVE  Heard'
<1> DEFINE c == call["phone"]
<1>0. /\ UNCHANGED <<known, verified, expiry>> /\ verified \subseteq Message
      /\ expiry \in [Message -> Nat]
  BY DEF phoneVars, TypeOK
<1>1. ClientKept("phone") /\ Told("phone") /\ "phone" \in Slot /\ "phone" # "orphan"
  BY Slots DEF RelayEffect, Clients
<1>2. \A n \in verified : Over(n)' /\ n \in known
  BY <1>0, OverKept DEF Heard
<1>3. CASE c.op \notin {"submit", "status"}
  BY <1>0, <1>1, <1>2, <1>3 DEF Heard, ClientKept
<1>4. CASE c.op \in {"submit", "status"}
  <2>0. PICK m \in Message : m = c.msg
    BY <1>1, <1>4 DEF IInv, CallsFit, Fits
  <2>1. c.msg = m /\ call'["phone"].op = c.op /\ call'["phone"].msg = m
    BY <2>0, <1>1, <1>4 DEF ClientKept, Named, IInv, CallsFit, Fits
  <2>2. PostsKept(m) /\ (Posting(m)' => Posting(m))
    BY RelayKeepsPosts, PostingKept
  <2>3. Over(m) => Over(m)'
    BY <2>1, OverKept
  <2>4. Overdue(m) => Overdue(m)'
    BY <1>0, <2>1 DEF Overdue, RelayEffect, IInv, RelayTypeOK
  <2>5. CASE ~Waiting("phone") \/ Waiting("phone")'
    <3>1. \/ call'["phone"] = c
          \/ call'["phone"].stage # "reply" /\ call'["phone"].res = c.res
      BY <1>1, <1>4, <2>5 DEF ClientKept, Waiting
    <3> QED
      BY <1>0, <1>2, <2>1, <2>2, <2>3, <2>4, <3>1 DEF Heard
  <2>6. CASE Waiting("phone") /\ ~Waiting("phone")' /\ c.op = "submit"
    <3>1. Posts("phone", m) /\ ~Stored(m)
      BY <1>1, <2>1, <2>6 DEF Posts, Once
    <3>2. call'["phone"].res # "unavailable" => ~Posting(m)'
      BY <1>1, <2>1, <2>2, <2>6, <3>1, AnsweredPost DEF Told
    <3>3. call'["phone"].res \in Definite => ~Held(m)'
      BY <1>1, <2>1, <2>6, <3>1 DEF Told, Stored, Held
    <3>4. call'["phone"].res \in Definite => call'["phone"].res # "unavailable"
      BY DEF Definite
    <3> QED
      BY <1>0, <1>2, <2>1, <2>6, <3>2, <3>3, <3>4 DEF Heard, Over
  <2>7. CASE Waiting("phone") /\ ~Waiting("phone")' /\ c.op = "status"
    <3>1. m \in known /\ ~Posting(m)
      BY <2>1, <2>7 DEF Heard, Posting, Posts, Once
    <3>2. call'["phone"].res \in Outcomes =>
            call'["phone"].res = Verdict(m) /\ UNCHANGED <<rows, clock>>
      BY <1>1, <2>1, <2>7 DEF Told
    <3>3. call'["phone"].res \in {"delivered", "delivery_rejected"} => Over(m)'
      <4> SUFFICES ASSUME call'["phone"].res \in {"delivered", "delivery_rejected"}
                   PROVE  Over(m)'
        OBVIOUS
      <4>1. Verdict(m) \in {"delivered", "delivery_rejected"}
        BY <3>2 DEF Outcomes
      <4>2. ~Held(m)
        BY <4>1 DEF Verdict, Held
      <4> QED
        BY <2>3, <3>1, <4>2 DEF Over
    <3>4. call'["phone"].res = "delivery_expired" => Overdue(m)'
      <4> SUFFICES ASSUME call'["phone"].res = "delivery_expired" PROVE Overdue(m)'
        OBVIOUS
      <4>1. Verdict(m) = "delivery_expired"
        BY <3>2 DEF Outcomes
      <4>2. Stored(m) /\ rows[m].expires < clock
        BY <4>1 DEF Verdict
      <4> QED
        BY <2>1, <2>4, <4>2 DEF Once, Overdue
    <3> QED
      BY <1>0, <1>2, <2>1, <2>7, <3>1, <3>3, <3>4 DEF Heard
  <2> QED
    BY <1>4, <2>5, <2>6, <2>7
<1> QED
  BY <1>3, <1>4

LEMMA PcKeepsHeard ==
  ASSUME IInv, TypeOK, Clean, Page, Heard, PcStep
  PROVE  Heard'
<1>1. call'["phone"] = call["phone"]
  BY PcKeepsPage
<1>2. UNCHANGED <<clock, rows, known, verified, expiry>> /\ verified \subseteq Message
  BY PcCalls DEF tables, phoneVars, TypeOK
<1>3. \A m \in Message : (Posting(m)' => Posting(m)) /\ (Over(m) => Over(m)')
  BY <1>2, PcKeepsPosts, PostingKept DEF Over, Held
<1>4. call["phone"].op \in {"submit", "status"} => call["phone"].msg \in Message
  BY Slots DEF Clients, IInv, CallsFit, Fits
<1> QED
  BY <1>1, <1>2, <1>3, <1>4 DEF Heard, Overdue

LEMMA PhoneKeepsHeard ==
  ASSUME IInv, TypeOK, Clean, Page, Once, Heard, PhoneStep
  PROVE  Heard'
<1>0. /\ UNCHANGED <<rows, clock>> /\ verified \subseteq Message /\ known \subseteq Message
  BY PhoneCalls DEF TypeOK, tables
<1>1. ASSUME NEW m \in Message, m \in known \/ linkOf[m] # NoLink
      PROVE  PostsKept(m) /\ expiry'[m] = expiry[m] /\ (Over(m) => Over(m)')
  <2>1. ~SendNew(m)
    BY <1>1 DEF SendNew, Unbuilt, Once
  <2>2. PostsKept(m) /\ expiry'[m] = expiry[m]
    BY <2>1, PhonePosts
  <2> QED
    BY <1>0, <2>2, PostingKept DEF Over, Held
<1>2. known \subseteq known'
  BY DEF PhoneStep, SendNew, Watch, PostReply, PostLost, WatchReply, WatchLost, Rescan,
         Leave, Scan, SendAgain, WatchExpired, StopSending, phoneVars
<1>3. \A m \in verified' : m \in Message /\ Over(m) /\ m \in known
  <2>1. CASE WatchReply
    <3>1. call["phone"].op = "status" /\ call["phone"].msg \in Message
      BY <2>1, Slots DEF WatchReply, Replied, At, IInv, CallsFit, Fits, Clients
    <3> QED
      BY <1>0, <2>1, <3>1 DEF WatchReply, Heard
  <2>2. CASE UNCHANGED verified
    BY <1>0, <2>2 DEF Heard
  <2> QED
    BY <2>1, <2>2 DEF PhoneStep, SendNew, Watch, PostReply, PostLost, WatchLost, Rescan,
       Leave, Scan, SendAgain, WatchExpired, StopSending, phoneVars
<1>4. \A m \in verified' : Over(m)' /\ m \in known'
  BY <1>1, <1>2, <1>3
<1>5. CASE call'["phone"].op = "none"
  BY <1>4, <1>5 DEF Heard
<1>6. CASE call'["phone"] = call["phone"] /\ call["phone"].op # "none"
  <2>0. PICK m \in Message : m = call["phone"].msg
    BY <1>6, Slots DEF Clean, IInv, CallsFit, Fits, Clients
  <2>1. linkOf[m] # NoLink
    BY <1>6, <2>0, Slots DEF Clean, Once, Clients
  <2>2. (Posting(m)' => Posting(m)) /\ (Over(m) => Over(m)') /\ (Overdue(m) => Overdue(m)')
    BY <1>0, <1>1, <2>0, <2>1, PostingKept DEF Overdue
  <2> QED
    BY <1>2, <1>4, <1>6, <2>0, <2>2 DEF Heard
<1>7. CASE call'["phone"].op = "submit" /\ call'["phone"].stage = "sent"
  BY <1>4, <1>7 DEF Heard
<1>8. CASE /\ call'["phone"].op = "status" /\ call'["phone"].msg \in known
           /\ call'["phone"].res = "none"
  BY <1>2, <1>4, <1>8 DEF Heard
<1>9. \/ call'["phone"].op = "none"
      \/ call'["phone"] = call["phone"]
      \/ call'["phone"].op = "submit" /\ call'["phone"].stage = "sent"
      \/ /\ call'["phone"].op = "status" /\ call'["phone"].msg \in known
         /\ call'["phone"].res = "none"
  BY PhoneCalls, RequestFields, NoCallFields DEF OnlyCall, Watch
<1> QED
  BY <1>5, <1>6, <1>7, <1>8, <1>9

LEMMA RelayKeepsLocked ==
  ASSUME IInv, TypeOK, Clean, Locked, RelayEffect, UNCHANGED phoneVars
  PROVE  Locked'
<1> SUFFICES ASSUME NEW m \in Message, Deliverable(m)' PROVE Deliverable(m)
  BY DEF Locked, phoneVars
<1>1. ~Overdue(m)
  <2>1. expiry[m] \in Nat /\ clock \in Nat /\ expiry' = expiry
        /\ clock' \in Nat /\ clock <= clock'
    BY DEF TypeOK, RelayTypeOK, phoneVars, RelayEffect
  <2>2. ~Overdue(m)'
    BY DEF Deliverable
  <2> QED
    BY <2>1, <2>2 DEF Overdue
<1>2. ~revoked
  BY DEF Deliverable, RelayEffect
<1>3. Posting(m) \/ Held(m)
  BY OverKept DEF Over, Deliverable, Held
<1> QED
  BY <1>1, <1>2, <1>3 DEF Deliverable, Held

LEMMA PcKeepsLocked ==
  ASSUME IInv, TypeOK, Clean, Locked, PcStep
  PROVE  Locked'
<1>1. UNCHANGED <<clock, revoked, rows, phoneVars>>
  BY PcCalls DEF tables
<1>2. \A m \in Message : Posting(m)' => Posting(m)
  BY PcKeepsPosts, PostingKept
<1> QED
  BY <1>1, <1>2 DEF Locked, Deliverable, Overdue, phoneVars

\* A link is retired for a message that may not arrive any more.
LEMMA RetiredIsOver ==
  ASSUME IInv, TypeOK, Clean, Page, Heard, PhoneStep, ~(\E n \in Message : SendNew(n))
  PROVE  \/ attempt' = attempt \/ attempt' = Lapsed
         \/ /\ Retire(view.link)
            /\ OnScreen = NoMessage \/ Overdue(OnScreen) \/ Over(OnScreen)
<1>1. CASE PostReply
  BY <1>1 DEF PostReply, Replied, At, Page, Heard
<1>2. CASE WatchReply
  BY <1>2 DEF WatchReply, Replied, At, Page, Heard
<1>3. CASE WatchExpired
  BY <1>3 DEF WatchExpired
<1>4. CASE Rescan
  BY <1>4 DEF Rescan, Heard
<1>5. CASE SendAgain
  BY <1>5 DEF SendAgain
<1>6. CASE UNCHANGED attempt
  BY <1>6
<1> QED
  BY <1>1, <1>2, <1>3, <1>4, <1>5, <1>6
  DEF PhoneStep, Scan, Watch, PostLost, WatchLost, Leave, StopSending, phoneVars

LEMMA PhoneKeepsLocked ==
  ASSUME IInv, TypeOK, Clean, Page, Once, Heard, Locked, PhoneStep
  PROVE  Locked'
<1>0. /\ UNCHANGED <<rows, clock, revoked>> /\ attempt \in [Link -> Message \cup {NoMessage}]
      /\ linkOf \in [Message -> Link \cup {NoLink}] /\ NoMessage \notin Message
      /\ Lapsed \in [Link -> Message \cup {NoMessage}]
  BY PhoneCalls, LapsedType, TypesAreParts, RelayAssumption DEF TypeOK, tables
<1> SUFFICES ASSUME NEW m \in Message, Deliverable(m)'
             PROVE  linkOf'[m] \in Link /\ attempt'[linkOf'[m]] = m
  BY DEF Locked
<1>1. CASE SendNew(m)
  <2>1. view.link \in Link
    BY <1>1 DEF SendNew, MaySend, Page
  <2> QED
    BY <1>0, <1>1, <2>1 DEF SendNew
<1>2. CASE ~SendNew(m)
  <2>1. PostsKept(m) /\ linkOf'[m] = linkOf[m] /\ expiry'[m] = expiry[m]
    BY <1>2, PhonePosts
  <2>2. Deliverable(m)
    BY <1>0, <2>1, PostingKept DEF Deliverable, Overdue
  <2>3. ~Overdue(m) /\ ~Over(m)
    BY <2>2 DEF Deliverable, Over, Held
  <2>4. linkOf[m] \in Link /\ attempt[linkOf[m]] = m
    BY <2>2 DEF Locked
  <2>5. Lapsed[linkOf[m]] = m
    BY <1>0, <2>3, <2>4 DEF Lapsed
  <2>6. CASE \E n \in Message : SendNew(n)
    <3>1. PICK n \in Message : SendNew(n)
      BY <2>6
    <3>2. linkOf[m] # view.link
      BY <1>0, <2>5, <3>1 DEF SendNew
    <3>3. attempt' = [Lapsed EXCEPT ![view.link] = n]
      BY <3>1 DEF SendNew
    <3>4. attempt'[linkOf[m]] = m
      BY <1>0, <2>4, <2>5, <3>2, <3>3
    <3> QED
      BY <2>1, <2>4, <3>4
  <2>7. CASE ~(\E n \in Message : SendNew(n))
    <3>1. CASE attempt' = attempt \/ attempt' = Lapsed
      BY <2>1, <2>4, <2>5, <3>1
    <3>2. CASE Retire(view.link) /\ (OnScreen = NoMessage \/ Overdue(OnScreen) \/ Over(OnScreen))
      <4>1. linkOf[m] # view.link
        BY <1>0, <2>3, <2>4, <3>2 DEF OnScreen
      <4> QED
        BY <1>0, <2>1, <2>4, <3>2, <4>1 DEF Retire
    <3> QED
      BY <2>7, <3>1, <3>2, RetiredIsOver
  <2> QED
    BY <2>6, <2>7
<1> QED
  BY <1>1, <1>2

-----------------------------------------------------------------------------
(***************************************************************************)
(* All of it, from the start and through every step.                       *)
(***************************************************************************)
SysInv == /\ IInv /\ TypeOK /\ Clean /\ Page /\ Asking /\ Removal /\ Truth
          /\ Once /\ Heard /\ Locked

LEMMA InitSysInv == Init => SysInv
<1> SUFFICES ASSUME Init PROVE SysInv
  OBVIOUS
<1>0. \A s \in Slot : call[s] = NoCall
  BY DEF Init, RelayInit
<1>1. IInv
  BY IInvInit DEF Init
<1>2. RelayTypeOK
  BY <1>1 DEF IInv
<1>3. TypeOK
  BY <1>2, SystemAssumption DEF TypeOK, Init, DeliveryState
<1>4. Clean
  BY <1>0, Slots, NoCallFields DEF Clean, Clients
<1>5. Page
  BY <1>0, Slots, NoCallFields DEF Page, Clients, Init
<1>6. Asking
  BY <1>0, Slots, NoCallFields DEF Asking, Clients, Init, Unheard, AcceptedIsPrompted
<1>7. Removal
  BY <1>0, Slots, NoCallFields DEF Removal, Clients, Init
<1>8. \A m \in Message : rows[m].status = "absent"
  BY DEF Init, RelayInit, NoRow
<1>9. Truth
  BY <1>0, <1>8, Slots, NoCallFields DEF Truth, Clients, Init, ReceiptIsTrue
<1>10. Once
  BY <1>0, <1>8, Slots, NoCallFields DEF Once, Init, Posts, Stored
<1>11. Heard
  BY <1>0, Slots, NoCallFields DEF Heard, Clients, Init
<1>12. Locked
  BY <1>0, <1>8, NoCallFields DEF Locked, Deliverable, Posting
<1> QED
  BY <1>1, <1>3, <1>4, <1>5, <1>6, <1>7, <1>9, <1>10, <1>11, <1>12 DEF SysInv

LEMMA StutterHasEffect == ASSUME IInv, Clean, UNCHANGED vars PROVE RelayEffect
<1>0. UNCHANGED <<clock, revoked, purged, rows, call>> /\ clock \in Nat
  BY DEF vars, relayVars, tables, IInv, RelayTypeOK
<1>1. OrphanKept
  BY <1>0, Slots DEF OrphanKept, Clean, Waiting, Named
<1>2. \A t \in Slot : ClientKept(t) /\ Told(t)
  BY <1>0 DEF ClientKept, Told, Waiting
<1>3. \A m \in Message : RowKept(m)
  BY <1>0 DEF RowKept
<1> QED
  BY <1>0, <1>1, <1>2, <1>3 DEF RelayEffect

\* A relay step, or none at all, leaves phone and PC where they are.
LEMMA RelayKeepsSysInv ==
  ASSUME SysInv, IInv', TypeOK', RelayEffect, UNCHANGED <<phoneVars, pcVars>>
  PROVE  SysInv'
<1> USE DEF SysInv
<1>1. Clean' /\ Page'
  BY RelayKeepsClean, RelayKeepsPage
<1>2. Asking' /\ Removal'
  BY RelayKeepsAsking, RelayKeepsRemoval
<1>3. Truth' /\ Once'
  BY RelayKeepsTruth, RelayKeepsOnce
<1>4. Heard' /\ Locked'
  BY RelayKeepsHeard, RelayKeepsLocked
<1> QED
  BY <1>1, <1>2, <1>3, <1>4

LEMMA NextKeepsSysInv == ASSUME SysInv, [Next]_vars PROVE SysInv'
<1>1. IInv'
  BY NextFits, NextKeepsIInv DEF SysInv
<1>2. ASSUME PhoneTypes', PcTypes' PROVE TypeOK'
  BY <1>1, <1>2, FaultsBounded, TypesAreParts DEF SysInv, IInv, TypeOK, PhoneTypes, PcTypes
<1>3. CASE RelayWorks /\ UNCHANGED <<phoneVars, pcVars, faults>>
  <2>1. RelayEffect
    BY <1>3, RelayHasEffect DEF SysInv, RelayWorks, RelayStep
  <2>2. PhoneTypes' /\ PcTypes'
    BY <1>3, TypesAreParts DEF SysInv, phoneVars, pcVars, PhoneTypes, PcTypes
  <2> QED
    BY <1>1, <1>2, <1>3, <2>1, <2>2, RelayKeepsSysInv
<1>4. CASE (\E s \in Slot : RelayFails(s)) /\ UNCHANGED <<phoneVars, pcVars>>
  <2>1. RelayEffect
    BY <1>4, RelayHasEffect DEF SysInv, RelayFails, RelayStep
  <2>2. PhoneTypes' /\ PcTypes'
    BY <1>4, TypesAreParts DEF SysInv, phoneVars, pcVars, PhoneTypes, PcTypes
  <2> QED
    BY <1>1, <1>2, <1>4, <2>1, <2>2, RelayKeepsSysInv
<1>5. CASE PhoneStep
  <2>1. PhoneTypes'
    BY <1>5, PhoneKeepsTypes, TypesAreParts DEF SysInv
  <2>2. PcTypes'
    BY <1>5, PhoneCalls, TypesAreParts DEF SysInv, pcVars, PcTypes
  <2>3. Clean' /\ Page'
    BY <1>5, ClientsKeepClean, PhoneKeepsPage DEF SysInv
  <2>4. Asking' /\ Removal'
    BY <1>5, PhoneKeepsAsking, ClientsKeepRemoval DEF SysInv
  <2>5. Truth' /\ Once'
    BY <1>5, PhoneKeepsTruth, PhoneKeepsOnce DEF SysInv
  <2>6. Heard' /\ Locked'
    BY <1>5, PhoneKeepsHeard, PhoneKeepsLocked DEF SysInv
  <2> QED
    BY <1>1, <1>2, <2>1, <2>2, <2>3, <2>4, <2>5, <2>6 DEF SysInv
<1>6. CASE PcStep
  <2>1. PcTypes'
    BY <1>6, PcKeepsTypes, TypesAreParts DEF SysInv
  <2>2. PhoneTypes'
    BY <1>6, PcCalls, TypesAreParts DEF SysInv, phoneVars, PhoneTypes
  <2>3. Clean' /\ Page'
    BY <1>6, ClientsKeepClean, PcKeepsPage DEF SysInv
  <2>4. Asking' /\ Removal'
    BY <1>6, PcKeepsAsking, ClientsKeepRemoval DEF SysInv
  <2>5. Truth' /\ Once'
    BY <1>6, PcKeepsTruth, PcKeepsOnce DEF SysInv
  <2>6. Heard' /\ Locked'
    BY <1>6, PcKeepsHeard, PcKeepsLocked DEF SysInv
  <2> QED
    BY <1>1, <1>2, <2>1, <2>2, <2>3, <2>4, <2>5, <2>6 DEF SysInv
<1>7. CASE UNCHANGED vars
  <2>1. RelayEffect
    BY <1>7, StutterHasEffect DEF SysInv
  <2>2. PhoneTypes' /\ PcTypes'
    BY <1>7, TypesAreParts DEF SysInv, vars, phoneVars, pcVars, PhoneTypes, PcTypes
  <2> QED
    BY <1>1, <1>2, <1>7, <2>1, <2>2, RelayKeepsSysInv DEF vars
<1> QED
  BY <1>3, <1>4, <1>5, <1>6, <1>7 DEF Next

THEOREM SystemInductive == Spec => []SysInv
BY InitSysInv, NextKeepsSysInv, PTL DEF Spec

-----------------------------------------------------------------------------
\* Every reachable state of phone, relay and PC has its type, and no more
\* faults than the bound happen.
THEOREM SystemTypeCorrect == Spec => []TypeOK
<1>1. SysInv => TypeOK
  BY DEF SysInv
<1> QED
  BY <1>1, SystemInductive, PTL

\* The user is asked about a message at most once (receiver.py:281-304).
THEOREM AskedAtMostOnce == Spec => []PromptOnce
<1>1. SysInv => PromptOnce
  BY DEF SysInv, PromptOnce, Asking
<1> QED
  BY <1>1, SystemInductive, PTL

\* What the PC accepted is being acknowledged, was shown to its user, or was
\* given up, and then it is never shown after all (receiver.py:281-304).
THEOREM AcceptedReachesUser == Spec => []AcceptedIsPrompted
<1>1. SysInv => AcceptedIsPrompted
  BY DEF SysInv, Asking
<1> QED
  BY <1>1, SystemInductive, PTL

\* A page says "received" only of what the PC accepted (relay-client.ts:340-342).
THEOREM ReceiptsAreTrue == Spec => []ReceiptIsTrue
<1>1. SysInv => ReceiptIsTrue
  BY DEF SysInv, Truth
<1> QED
  BY <1>1, SystemInductive, PTL

\* Two messages of a page that may both still arrive are for two links
\* (relay-client.ts:26-28).
THEOREM LinkIsLocked == Spec => []OneOnItsWay
<1>1. SysInv => OneOnItsWay
  BY DEF SysInv, Locked, OneOnItsWay
<1> QED
  BY <1>1, SystemInductive, PTL

\* When the PC has forgotten a phone, the relay holds nothing of it and takes
\* nothing from it (pair_management.py:133-138).
THEOREM RemovalIsComplete == Spec => []RemovedIsEmpty
<1>1. SysInv => RemovedIsEmpty
  BY DEF SysInv, Removal, IInv, RemovedIsEmpty
<1> QED
  BY <1>1, SystemInductive, PTL

\* Phone and PC call the relay in no way it was not checked against: what is
\* proved of the relay alone holds of the system.
THEOREM SystemRefinesRelay == Spec => ClientsFit
<1>1. Init => RelayInit
  BY DEF Init
<1>2. ASSUME SysInv, [Next]_vars PROVE [RelayNext]_relayVars
  BY <1>2, NextFits DEF SysInv
<1> QED
  BY <1>1, <1>2, SystemInductive, PTL DEF Spec, RelaySpec, ClientsFit

-----------------------------------------------------------------------------
(***************************************************************************)
(* The delivery implements the promise: accepting takes a message, an      *)
(* answered or lost acknowledgement asks or gives up, a cancellation gives *)
(* up, a verified receipt tells; everything else is invisible.             *)
(***************************************************************************)
Promised == <<accepted, prompts, dropped, verified>>

LEMMA PhoneKeepsPromise ==
  ASSUME SysInv, PhoneStep
  PROVE  [Promise!Next]_Promised
<1> USE DEF Promised
<1>1. UNCHANGED <<accepted, prompts, dropped>>
  BY PhoneCalls DEF pcVars, SysInv
<1>2. CASE WatchReply
  <2> DEFINE m == call["phone"].msg
  <2>1. call["phone"].op = "status"
    BY <1>2 DEF WatchReply, Replied, At
  <2>2. CASE call["phone"].res = "delivered" /\ verified' = verified \cup {m}
    <3>1. m \in accepted
      BY <2>1, <2>2 DEF SysInv, Truth
    <3>2. m \in Message
      BY <3>1 DEF SysInv, TypeOK
    <3>3. Promise!Tell(m)
      BY <1>1, <2>2, <3>1 DEF Promise!Tell
    <3> QED
      BY <3>2, <3>3 DEF Promise!Next
  <2>3. CASE UNCHANGED verified
    BY <1>1, <2>3
  <2> QED
    BY <1>2, <2>2, <2>3 DEF WatchReply
<1>3. ASSUME UNCHANGED verified PROVE [Promise!Next]_Promised
  BY <1>1, <1>3
<1> QED
  BY <1>2, <1>3 DEF PhoneStep, Scan, SendNew, SendAgain, PostReply, PostLost, Watch,
     WatchExpired, StopSending, WatchLost, Rescan, Leave, phoneVars

LEMMA PcKeepsPromise ==
  ASSUME SysInv, PcStep
  PROVE  [Promise!Next]_Promised
<1> USE DEF Promised
<1>0. /\ UNCHANGED verified
      /\ accepted \subseteq Message
      /\ \A m \in Unheard : m \in accepted \ dropped /\ prompts[m] = 0
  BY PcCalls DEF SysInv, phoneVars, TypeOK, Asking
<1>1. ASSUME NEW m \in Message, Accept(m) PROVE Promise!Next
  <2>1. Promise!Accept(m)
    BY <1>0, <1>1 DEF Accept, Promise!Accept
  <2> QED
    BY <2>1 DEF Promise!Next
<1>2. ASSUME NEW m \in Unheard, UNCHANGED <<accepted, dropped>>,
             prompts' = [prompts EXCEPT ![m] = @ + 1]
      PROVE  Promise!Next
  <2>1. m \in Message /\ m \in accepted \ dropped /\ prompts[m] = 0
    BY <1>0
  <2>2. prompts' = [prompts EXCEPT ![m] = 1]
    BY <1>2, <2>1
  <2>3. Promise!Ask(m)
    BY <1>0, <1>2, <2>1, <2>2 DEF Promise!Ask, Promise!Owed
  <2> QED
    BY <2>1, <2>3 DEF Promise!Next
<1>3. ASSUME NEW m \in Unheard, UNCHANGED <<accepted, prompts>>, dropped' = dropped \cup {m}
      PROVE  Promise!Next
  <2>1. m \in Message /\ m \in accepted \ dropped /\ prompts[m] = 0
    BY <1>0
  <2>2. Promise!GiveUp(m)
    BY <1>0, <1>3, <2>1 DEF Promise!GiveUp, Promise!Owed
  <2> QED
    BY <2>1, <2>2 DEF Promise!Next
<1>4. CASE AckReply
  <2>1. call["pc"].msg \in Unheard
    BY <1>4 DEF AckReply, Replied, At, Unheard
  <2> QED
    BY <1>2, <1>3, <1>4, <2>1 DEF AckReply, Prompt
<1>5. CASE AckLost
  <2>1. call["pc"].msg \in Unheard
    BY <1>5 DEF AckLost, Unheard
  <2> QED
    BY <1>2, <1>5, <2>1 DEF AckLost, Prompt
<1>6. CASE Restart
  <2>1. CASE Unheard = {}
    BY <1>0, <1>6, <2>1 DEF Restart
  <2>2. CASE Unheard # {}
    <3>1. Unheard = {call["pc"].msg}
      BY <2>2 DEF Unheard
    <3> QED
      BY <1>3, <1>6, <3>1 DEF Restart
  <2> QED
    BY <2>1, <2>2
<1>7. ASSUME UNCHANGED <<accepted, prompts, dropped>> PROVE [Promise!Next]_Promised
  BY <1>0, <1>7
<1> QED
  BY <1>1, <1>4, <1>5, <1>6, <1>7 DEF PcStep, Poll, PollNothing, Refuse, LedgerFails,
     NackDone, CallLost, Remove, RemoveFailed, RemoveDone, pcVars

\* Whatever is lost, late, repeated or restarted, a message is taken once, then
\* asked about once or given up for good, and "delivered" is said of taken
\* messages only (receiver.py:281-304, relay-client.ts:340-342).
THEOREM SystemKeepsPromise == Spec => HandoverSpec
<1>1. Init => Promise!Init
  BY DEF Init, Promise!Init
<1>2. ASSUME SysInv, [Next]_vars PROVE [Promise!Next]_Promised
  <2>1. CASE UNCHANGED <<phoneVars, pcVars>>
    BY <2>1 DEF phoneVars, pcVars, Promised
  <2> QED
    BY <1>2, <2>1, PhoneKeepsPromise, PcKeepsPromise DEF Next, vars
<1> QED
  BY <1>1, <1>2, SystemInductive, PTL
     DEF Spec, HandoverSpec, Promise!Spec, Promise!vars, Promised
=============================================================================
