---------------------------- MODULE Pairing_proofs ----------------------------
(***************************************************************************)
(* A session gives at most one pair, to the phone whose request the PC     *)
(* decrypted, and none when its window was closed or its phone left it,    *)
(* for any phones, names, lifetimes, restarts and losses.                  *)
(***************************************************************************)
EXTENDS Pairing, FiniteSetTheorems, TLAPS

-----------------------------------------------------------------------------
(* The types TypeOK leaves open. *)

PcState ==
    [stage: {"idle", "register", "open", "wait", "stop", "await", "close", "cancel",
             "register_pair", "persist", "publish", "revoke"},
     id: PairIds \cup {None}, device: DeviceIds \cup {None}, again: BOOLEAN,
     poll: {"none", "polling", "request", "cancelled", "timeout", "refused", "broken"},
     window: {"none", "shown", "cancelled", "received", "opened", "expired", "failed"},
     gone: BOOLEAN, stop: BOOLEAN, opened: BOOLEAN, received: BOOLEAN,
     request: Requests \cup {None},
     result: {"none", "approved", "cancelled", "expired", "error"}]

PhoneState ==
    [at: {"idle", "scanned", "polling", "error"}, id: PairIds \cup {None},
     try: 0..MaxTries, saved: SUBSET (PairIds \X Nat)]

(* The requests that change the relay, and those that only read it.        *)
Writing ==
    [do: {"create_device"}, device: DeviceIds]
    \cup [do: {"create_pairing"}, device: DeviceIds, id: PairIds, prune: BOOLEAN]
    \cup [do: {"opened", "phone_cancel"}, id: PairIds]
    \cup [do: {"submit"}, id: PairIds, request: Requests]
    \cup [do: {"cancel", "register_pair", "revoke"}, device: DeviceIds, id: PairIds]
    \cup [do: {"store_result"}, device: DeviceIds, id: PairIds, request: Requests]
Reading ==
    [do: {"read_request"}, device: DeviceIds, id: PairIds]
    \cup [do: {"read_result"}, id: PairIds]

Types ==
    /\ TypeOK
    /\ pc \in PcState
    /\ phones \in [Phones -> PhoneState]
    /\ \A f \in Phones : phones[f].at # "idle" => phones[f].id # None
    /\ network \subseteq Writing
    /\ faults \in [phones: SUBSET Phones, tries: 0..MaxTries, restarts: Nat, losses: Nat]

(* Names are not given out twice, and there are enough for an attempt.     *)
Names ==
    /\ \A d \in store.devices : d.id \in used
    /\ pc.id # None => pc.id \in used
    /\ pc.device # None => pc.device \in used
    /\ \A i \in PairIds : owner[i] # None => i \in used
    /\ closed \subseteq used

Enough ==
    /\ pc.stage = "register" => DeviceIds \ used # {}
    /\ pc.stage = "register" /\ ~pc.again =>
         \E d, e \in DeviceIds \ used : d # e
    /\ pc.stage = "open" /\ ~pc.again => DeviceIds \ used # {}
    /\ pc.stage \in {"register", "open"} => PairIds \ used # {}

(* How far the controller is, and what it has by then. *)
Progress ==
    /\ pc.stage \notin {"idle", "register", "open"} => pc.id # None
    /\ pc.stage \notin {"idle", "register"} => pc.device # None
    /\ pc.stage \in {"register", "open"} =>
         pc.id = None /\ pc.request = None /\ pc.poll = "none" /\ pc.window = "none"
    /\ pc.result # "none" => pc.stage = "idle"
    /\ pc.window # "none" => pc.id # None
    /\ pc.gone => pc.window \notin {"none", "shown"}
    /\ pc.window # "none" /\ ~pc.gone => pc.stage \in {"wait", "await", "close"}
    /\ pc.poll = "polling" => pc.stage \in {"wait", "stop", "await", "idle"}
    /\ pc.poll = "request" => pc.request # None
    /\ pc.request # None => pc.id # None
    /\ pc.stage \in {"register_pair", "persist", "publish"} => pc.poll = "request"

(* Whom a session belongs to: nobody until the PC has stored the pair.     *)
Stored == pc.stage = "publish" \/ pc.result = "approved"
Ownership ==
    /\ \A i \in StoredIds : owner[i] # None
    /\ pc.stage \in {"wait", "stop", "await", "close", "cancel",
                     "register_pair", "persist"} => owner[pc.id] = None
    /\ Stored => pc.id \in StoredIds /\ owner[pc.id] = pc.request /\ pc.request # None

(* The relay's tables r say the same of a session as its owner does.       *)
Routes(r) ==
    \A i \in PairIds : r.pairings[i] # None =>
        /\ r.pairings[i].cancelled => r.pairings[i].request = None
        /\ r.pairings[i].result # None => owner[i] = r.pairings[i].result
        /\ owner[i] # None => r.pairings[i].request = owner[i]

(* What the PC relies on: its session has the request it took, its pair    *)
(* is there until it is revoked, and so is the result for the phone.       *)
Relied(r) ==
    /\ pc.request # None /\ r.pairings[pc.id] # None =>
         r.pairings[pc.id].request = pc.request
    /\ pc.stage = "persist" \/ Stored =>
         (pc.device \in r.devices =>
            [id |-> pc.id, device |-> pc.device, revoked |-> FALSE] \in r.pairs)
    /\ pc.result = "approved" /\ pc.device \in r.devices /\ InTime(pc.id) =>
         r.pairings[pc.id] # None /\ r.pairings[pc.id].result = pc.request

(* A request that arrives late is about what the PC has given up.          *)
Late(req) ==
    /\ req.do = "create_device" =>
         /\ req.device \in used /\ req.device # pc.device
         /\ \A d \in store.devices : d.id # req.device
    /\ req.do = "create_pairing" =>
         req.id \in used /\ req.id # pc.id /\ owner[req.id] = None
    /\ req.do = "store_result" => owner[req.id] = req.request
    /\ req.do \in {"cancel", "register_pair", "revoke", "store_result"} =>
         /\ req.id \in used
         /\ req.id = pc.id =>
              pc.stage \in {"idle", "revoke"} /\ pc.result # "approved"

AllLate == \A req \in network : Late(req)

(* A session whose window was gone in time, or failed, stays without an    *)
(* owner: the controller stops, or the failure ends the attempt.           *)
ClosedInv ==
    \A i \in closed :
        /\ owner[i] = None
        /\ i = pc.id =>
             /\ pc.stage \in {"wait", "stop", "await", "close", "cancel", "idle"}
             /\ pc.stage = "wait" =>
                  pc.gone /\ pc.window \in {"cancelled", "expired", "failed"}
             /\ pc.stage \in {"await", "close"} => pc.window = "failed"

SavedInv ==
    \A f \in Phones : \A s \in phones[f].saved :
        owner[s[1]] = <<f, s[2]>> /\ owner[s[1]] # None

IInv == /\ Types /\ Names /\ Enough /\ Progress /\ Ownership
        /\ Routes(relay) /\ Relied(relay) /\ AllLate /\ ClosedInv /\ SavedInv

-----------------------------------------------------------------------------
(* What a request does to the relay's tables.                              *)

New(device) == [device |-> device, request |-> None, result |-> None,
                opened |-> FALSE, cancelled |-> FALSE]

(* Session i is left alone, forgotten, or is the request's own.            *)
Forgets(r, req, i) ==
    /\ r.pairings[i] = None
    /\ \/ req.do = "cancel" /\ i = req.id
       \/ req.do = "create_pairing" /\ i # req.id /\ left[i] < 0

Creates(r, req, i) ==
    req.do = "create_pairing" /\ i = req.id /\ r.pairings[i] = New(req.device)

Keeps(a, b) == a.request = b.request /\ a.result = b.result /\ a.cancelled = b.cancelled

Updates(r, req, i) ==
    LET old == relay.pairings[i]
        new == r.pairings[i]
    IN  /\ i = req.id /\ old # None /\ new # None
        /\ \/ req.do = "opened" /\ Keeps(old, new)
           \/ /\ req.do = "phone_cancel" /\ old.request = None
              /\ new.request = None /\ new.result = old.result
           \/ /\ req.do = "submit" /\ old.request = None /\ ~old.cancelled
              /\ ~new.cancelled /\ new.result = old.result
           \/ /\ req.do = "store_result" /\ old.request = req.request
              /\ new.request = old.request /\ new.cancelled = old.cancelled
              /\ new.result = req.request

Effect(r, req) ==
    /\ r \in Relay
    /\ r.devices = relay.devices
         \/ (req.do = "create_device" /\ r.devices = relay.devices \cup {req.device})
    /\ \A p \in relay.pairs :
         p \in r.pairs \/ (req.do \in {"register_pair", "revoke"} /\ p.id = req.id)
    /\ \A i \in PairIds :
         \/ r.pairings[i] = relay.pairings[i]
         \/ Forgets(r, req, i) \/ Creates(r, req, i) \/ Updates(r, req, i)

LEMMA RelayFields ==
    ASSUME NEW r \in Relay
    PROVE  /\ r = [devices |-> r.devices, pairings |-> r.pairings, pairs |-> r.pairs]
           /\ r.devices \in SUBSET DeviceIds
           /\ r.pairings \in [PairIds -> Route \cup {None}]
           /\ r.pairs \in SUBSET [id: PairIds, device: DeviceIds, revoked: BOOLEAN]
BY DEF Relay

LEMMA SameEffect ==
    ASSUME relay \in Relay, NEW req
    PROVE  Effect(relay, req)
BY DEF Effect

LEMMA NewIsRoute ==
    ASSUME NEW d \in DeviceIds
    PROVE  New(d) \in Route /\ New(d) # None
<1>1. New(d) \in Route
  BY DEF New, Route
<1> QED
  BY <1>1, NamesAssumption

(* One session's entry is replaced by another route. *)
LEMMA RouteEffect ==
    ASSUME relay \in Relay, NEW req, req.id \in PairIds, NEW route \in Route,
           NEW r, r = [relay EXCEPT !.pairings[req.id] = route],
           relay.pairings[req.id] # None,
           r.pairings[req.id] = route => Updates(r, req, req.id)
    PROVE  Effect(r, req)
<1>1. /\ r.devices = relay.devices /\ r.pairs = relay.pairs
      /\ r.pairings = [relay.pairings EXCEPT ![req.id] = route]
      /\ r = [devices |-> relay.devices, pairs |-> relay.pairs,
              pairings |-> [relay.pairings EXCEPT ![req.id] = route]]
  BY RelayFields DEF Relay
<1>2. r.pairings \in [PairIds -> Route \cup {None}]
  BY <1>1, RelayFields
<1>3. r \in Relay
  BY <1>1, <1>2, RelayFields DEF Relay
<1>4. r.pairings[req.id] = route /\ \A i \in PairIds : i # req.id => r.pairings[i] = relay.pairings[i]
  BY <1>1, RelayFields
<1> QED
  BY <1>1, <1>3, <1>4 DEF Effect

LEMMA OpenedEffect ==
    ASSUME relay \in Relay, NEW req, req.do = "opened", req.id \in PairIds
    PROVE  Effect(MarkOpened(relay, left, req).relay, req)
<1> DEFINE old == relay.pairings[req.id]
           new == [old EXCEPT !.opened = @ \/ ~old.cancelled]
           r == MarkOpened(relay, left, req).relay
<1>1. CASE PhoneError(relay, left, req) # "ok"
  BY <1>1, SameEffect DEF MarkOpened, Refused
<1>2. CASE PhoneError(relay, left, req) = "ok"
  <2>1. old # None
    BY <1>2 DEF PhoneError
  <2>2. old \in Route
    BY <2>1, RelayFields
  <2>3. new \in Route /\ Keeps(old, new)
    BY <2>2 DEF Route, Keeps
  <2>4. new # None
    BY <2>3, NamesAssumption
  <2>5. r = [relay EXCEPT !.pairings[req.id] = new]
    BY <1>2 DEF MarkOpened, Done
  <2> HIDE DEF new, r
  <2>6. r.pairings[req.id] = new => Updates(r, req, req.id)
    BY <2>1, <2>3, <2>4 DEF Updates
  <2>7. Effect(r, req)
    BY <2>1, <2>3, <2>5, <2>6, RouteEffect
  <2> QED
    BY <2>7 DEF r
<1> QED
  BY <1>1, <1>2

LEMMA PhoneCancelEffect ==
    ASSUME relay \in Relay, NEW req, req.do = "phone_cancel", req.id \in PairIds
    PROVE  Effect(PhoneCancel(relay, left, req).relay, req)
<1> DEFINE old == relay.pairings[req.id]
           new == [old EXCEPT !.opened = TRUE, !.cancelled = TRUE]
           r == PhoneCancel(relay, left, req).relay
<1>1. CASE PhoneError(relay, left, req) # "ok" \/ old.request # None
  BY <1>1, SameEffect DEF PhoneCancel, Refused
<1>2. CASE PhoneError(relay, left, req) = "ok" /\ old.request = None
  <2>1. old # None
    BY <1>2 DEF PhoneError
  <2>2. old \in Route
    BY <2>1, RelayFields
  <2>3. new \in Route /\ new.request = old.request /\ new.result = old.result
    BY <2>2 DEF Route
  <2>4. new # None
    BY <2>3, NamesAssumption
  <2>5. r = [relay EXCEPT !.pairings[req.id] = new]
    BY <1>2 DEF PhoneCancel, Done
  <2> HIDE DEF new, r
  <2>6. r.pairings[req.id] = new => Updates(r, req, req.id)
    BY <1>2, <2>1, <2>3, <2>4 DEF Updates
  <2>7. Effect(r, req)
    BY <2>1, <2>3, <2>5, <2>6, RouteEffect
  <2> QED
    BY <2>7 DEF r
<1> QED
  BY <1>1, <1>2

LEMMA SubmitEffect ==
    ASSUME relay \in Relay, NEW req, req.do = "submit", req.id \in PairIds,
           req.request \in Requests
    PROVE  Effect(Submit(relay, left, req).relay, req)
<1> DEFINE old == relay.pairings[req.id]
           new == [old EXCEPT !.request = req.request]
           r == Submit(relay, left, req).relay
<1>1. CASE PhoneError(relay, left, req) # "ok" \/ old.cancelled \/ old.request # None
  BY <1>1, SameEffect DEF Submit, Refused
<1>2. CASE PhoneError(relay, left, req) = "ok" /\ ~old.cancelled /\ old.request = None
  <2>1. old # None
    BY <1>2 DEF PhoneError
  <2>2. old \in Route
    BY <2>1, RelayFields
  <2>3. new \in Route /\ new.cancelled = old.cancelled /\ new.result = old.result
    BY <2>2 DEF Route
  <2>4. new # None
    BY <2>3, NamesAssumption
  <2>5. r = [relay EXCEPT !.pairings[req.id] = new]
    BY <1>2 DEF Submit, Done
  <2> HIDE DEF new, r
  <2>6. r.pairings[req.id] = new => Updates(r, req, req.id)
    BY <1>2, <2>1, <2>3, <2>4 DEF Updates
  <2>7. Effect(r, req)
    BY <2>1, <2>3, <2>5, <2>6, RouteEffect
  <2> QED
    BY <2>7 DEF r
<1> QED
  BY <1>1, <1>2

LEMMA StoreResultEffect ==
    ASSUME relay \in Relay, NEW req, req.do = "store_result", req.id \in PairIds,
           req.request \in Requests
    PROVE  LET answer == StoreResult(relay, left, req)
           IN  /\ Effect(answer.relay, req)
               /\ answer.code = "ok" =>
                    /\ answer.relay.pairings[req.id] # None
                    /\ answer.relay.pairings[req.id].result = req.request
                    /\ req.device \in relay.devices
<1> DEFINE old == relay.pairings[req.id]
           new == [old EXCEPT !.result = req.request]
           r == StoreResult(relay, left, req).relay
           good == /\ ReceiverError(relay, left, req) = "ok" /\ old.request # None
                   /\ old.result = None /\ old.request = req.request
<1>1. CASE ~good
  <2>1. r = relay /\ StoreResult(relay, left, req).code # "ok"
    BY <1>1 DEF StoreResult, Refused
  <2> QED
    BY <2>1, SameEffect
<1>2. CASE good
  <2>1. old # None /\ req.device \in relay.devices
    BY <1>2 DEF ReceiverError
  <2>2. old \in Route
    BY <2>1, RelayFields
  <2>3. /\ new \in Route /\ new.cancelled = old.cancelled /\ new.request = old.request
        /\ new.result = req.request
    BY <2>2 DEF Route
  <2>4. new # None
    BY <2>3, NamesAssumption
  <2>5. r = [relay EXCEPT !.pairings[req.id] = new]
    BY <1>2 DEF StoreResult, Done
  <2> HIDE DEF new, r
  <2>6. r.pairings[req.id] = new => Updates(r, req, req.id)
    BY <1>2, <2>1, <2>3, <2>4 DEF Updates
  <2>7. Effect(r, req)
    BY <2>1, <2>3, <2>5, <2>6, RouteEffect
  <2>8. r.pairings[req.id] = new
    BY <2>5, RelayFields
  <2> QED
    BY <2>1, <2>3, <2>4, <2>7, <2>8 DEF r
<1> QED
  BY <1>1, <1>2

LEMMA CreateDeviceEffect ==
    ASSUME relay \in Relay, NEW req, req.do = "create_device", req.device \in DeviceIds
    PROVE  Effect(CreateDevice(relay, req).relay, req)
<1> DEFINE r == CreateDevice(relay, req).relay
<1>1. r = [devices |-> relay.devices \cup {req.device}, pairs |-> relay.pairs,
           pairings |-> relay.pairings]
  BY RelayFields DEF CreateDevice, Done, Relay
<1>2. /\ r.devices = relay.devices \cup {req.device} /\ r.pairs = relay.pairs
      /\ r.pairings = relay.pairings
  BY <1>1
<1>3. r \in Relay
  BY <1>1, RelayFields DEF Relay
<1> QED
  BY <1>2, <1>3 DEF Effect

LEMMA CreatePairingEffect ==
    ASSUME relay \in Relay, NEW req, req.do = "create_pairing", req.id \in PairIds,
           req.device \in DeviceIds
    PROVE  Effect(CreatePairing(relay, left, req).relay, req)
<1> DEFINE r == CreatePairing(relay, left, req).relay
           routes == [i \in PairIds |->
                        IF i = req.id THEN New(req.device)
                        ELSE IF req.prune /\ left[i] < 0 THEN None ELSE relay.pairings[i]]
<1>1. CASE req.device \notin relay.devices
  BY <1>1, SameEffect DEF CreatePairing, Refused
<1>2. CASE req.device \in relay.devices
  <2>1. r = [devices |-> relay.devices, pairs |-> relay.pairs, pairings |-> routes]
    BY <1>2, RelayFields DEF CreatePairing, Done, New, Relay
  <2>2. r.devices = relay.devices /\ r.pairs = relay.pairs /\ r.pairings = routes
    BY <2>1
  <2>3. routes \in [PairIds -> Route \cup {None}]
    BY RelayFields, NewIsRoute
  <2>4. r \in Relay
    BY <2>1, <2>3, RelayFields DEF Relay
  <2> HIDE DEF r
  <2>5. ASSUME NEW i \in PairIds
        PROVE  \/ r.pairings[i] = relay.pairings[i]
               \/ Forgets(r, req, i) \/ Creates(r, req, i)
    BY <2>2 DEF Forgets, Creates
  <2> QED
    BY <2>2, <2>4, <2>5 DEF Effect, r
<1> QED
  BY <1>1, <1>2

LEMMA CancelEffect ==
    ASSUME relay \in Relay, NEW req, req.do = "cancel", req.id \in PairIds
    PROVE  Effect(CancelPairing(relay, req).relay, req)
<1> DEFINE r == CancelPairing(relay, req).relay
<1>1. CASE r = relay
  BY <1>1, SameEffect
<1>2. CASE r = [relay EXCEPT !.pairings[req.id] = None]
  <2> HIDE DEF r
  <2>1. r = [devices |-> relay.devices, pairs |-> relay.pairs,
             pairings |-> [relay.pairings EXCEPT ![req.id] = None]]
    BY <1>2, RelayFields DEF Relay
  <2>2. /\ r.devices = relay.devices /\ r.pairs = relay.pairs
        /\ \A i \in PairIds : r.pairings[i] = IF i = req.id THEN None ELSE relay.pairings[i]
        /\ r.pairings \in [PairIds -> Route \cup {None}]
    BY <2>1, RelayFields
  <2>3. r \in Relay
    BY <2>1, <2>2, RelayFields DEF Relay
  <2>4. Effect(r, req)
    BY <2>2, <2>3 DEF Effect, Forgets
  <2> QED
    BY <2>4 DEF r
<1> QED
  BY <1>1, <1>2 DEF CancelPairing, Refused, Done

LEMMA PairsEffect ==
    ASSUME relay \in Relay, NEW req, req.do \in {"register_pair", "revoke"},
           NEW pairs \in SUBSET [id: PairIds, device: DeviceIds, revoked: BOOLEAN],
           \A p \in relay.pairs : p.id # req.id => p \in pairs,
           NEW r, r = [relay EXCEPT !.pairs = pairs]
    PROVE  Effect(r, req)
<1>1. r = [devices |-> relay.devices, pairs |-> pairs, pairings |-> relay.pairings]
  BY RelayFields DEF Relay
<1>2. r.devices = relay.devices /\ r.pairs = pairs /\ r.pairings = relay.pairings
  BY <1>1
<1>3. r \in Relay
  BY <1>1, RelayFields DEF Relay
<1> QED
  BY <1>2, <1>3 DEF Effect

LEMMA RegisterPairEffect ==
    ASSUME relay \in Relay, NEW req, req.do = "register_pair", req.id \in PairIds,
           req.device \in DeviceIds
    PROVE  LET answer == RegisterPair(relay, req)
           IN  /\ Effect(answer.relay, req)
               /\ answer.code = "ok" =>
                    [id |-> req.id, device |-> req.device, revoked |-> FALSE]
                      \in answer.relay.pairs
<1> DEFINE new == [id |-> req.id, device |-> req.device, revoked |-> FALSE]
           pairs == {p \in relay.pairs : p.id # req.id} \cup {new}
           r == RegisterPair(relay, req).relay
<1>1. CASE req.device \notin relay.devices
  <2>1. r = relay /\ RegisterPair(relay, req).code # "ok"
    BY <1>1 DEF RegisterPair, Refused
  <2> QED
    BY <2>1, SameEffect
<1>2. CASE req.device \in relay.devices
  <2>1. r = [relay EXCEPT !.pairs = pairs]
    BY <1>2 DEF RegisterPair, Done
  <2>2. new \in [id: PairIds, device: DeviceIds, revoked: BOOLEAN]
    OBVIOUS
  <2>3. pairs \in SUBSET [id: PairIds, device: DeviceIds, revoked: BOOLEAN]
    BY <2>2, RelayFields
  <2>4. \A p \in relay.pairs : p.id # req.id => p \in pairs
    OBVIOUS
  <2>5. new \in pairs
    OBVIOUS
  <2> HIDE DEF pairs, new, r
  <2>6. Effect(r, req)
    BY <2>1, <2>3, <2>4, PairsEffect
  <2>7. r.pairs = pairs
    BY <2>1, RelayFields
  <2> QED
    BY <2>5, <2>6, <2>7 DEF r, new
<1> QED
  BY <1>1, <1>2

LEMMA RevokeEffect ==
    ASSUME relay \in Relay, NEW req, req.do = "revoke", req.id \in PairIds
    PROVE  Effect(RevokePair(relay, req).relay, req)
<1> DEFINE Known == [id: PairIds, device: DeviceIds, revoked: BOOLEAN]
           now(p) == IF p.id = req.id THEN [p EXCEPT !.revoked = TRUE] ELSE p
           pairs == {now(p) : p \in relay.pairs}
<1>1. \/ RevokePair(relay, req).relay = relay
      \/ RevokePair(relay, req).relay = [relay EXCEPT !.pairs = pairs]
  BY DEF RevokePair, Refused, Done
<1>2. ASSUME NEW p \in relay.pairs
      PROVE  now(p) \in Known /\ (p.id # req.id => now(p) = p)
  <2>1. p \in Known
    BY RelayFields
  <2>2. [p EXCEPT !.revoked = TRUE] \in Known
    BY <2>1
  <2> QED
    BY <2>1, <2>2
<1> HIDE DEF now
<1>3. pairs \in SUBSET Known
  BY <1>2
<1>4. \A p \in relay.pairs : p.id # req.id => p \in pairs
  BY <1>2
<1> HIDE DEF pairs
<1>5. Effect([relay EXCEPT !.pairs = pairs], req)
  BY <1>3, <1>4, PairsEffect
<1>6. Effect(relay, req)
  BY SameEffect
<1> QED
  BY <1>1, <1>5, <1>6

LEMMA ReadEffect ==
    ASSUME NEW req \in Reading
    PROVE  LET answer == Answer(relay, left, req)
           IN  /\ answer.relay = relay
               /\ answer.code = "request_received" =>
                    relay.pairings[req.id] # None /\ relay.pairings[req.id].request # None
               /\ answer.code = "result_available" =>
                    relay.pairings[req.id] # None /\ relay.pairings[req.id].result # None
<1>1. CASE req.do = "read_request"
  <2>1. Answer(relay, left, req) = ReadRequest(relay, left, req)
    BY <1>1 DEF Answer
  <2>2. CASE ReceiverError(relay, left, req) # "ok"
    <3>1. ReceiverError(relay, left, req)
            \in {"unauthorized", "pairing_not_found", "pairing_expired", "ok"}
      BY DEF ReceiverError
    <3>2. ReadRequest(relay, left, req) = Refused(relay, ReceiverError(relay, left, req))
      BY <2>2, Zenon DEF ReadRequest
    <3> QED
      BY <2>1, <3>1, <3>2 DEF Refused
  <2>3. CASE ReceiverError(relay, left, req) = "ok"
    <3>1. relay.pairings[req.id] # None
      BY <2>3 DEF ReceiverError
    <3>2. Answer(relay, left, req).relay = relay
      BY <2>1, <2>3 DEF ReadRequest, Refused
    <3>3. relay.pairings[req.id].request = None =>
            Answer(relay, left, req).code
              \in {"phone_cancelled", "phone_opened", "waiting_for_phone"}
      BY <2>1, <2>3 DEF ReadRequest, Refused
    <3>4. Answer(relay, left, req).code # "result_available"
      BY <2>1, <2>3 DEF ReadRequest, Refused
    <3> QED
      BY <3>1, <3>2, <3>3, <3>4
  <2> QED
    BY <2>2, <2>3
<1>2. CASE req.do = "read_result"
  <2>1. Answer(relay, left, req) = ReadResult(relay, left, req)
    BY <1>2 DEF Answer
  <2> QED
    BY <2>1 DEF ReadResult, Refused, PhoneError
<1> QED
  BY <1>1, <1>2 DEF Reading

(* A request, and whatever may become of the exchange. *)
LEMMA AnswerEffect ==
    ASSUME relay \in Relay, NEW req \in Writing \cup Reading
    PROVE  Effect(Answer(relay, left, req).relay, req)
<1>1. CASE req \in Reading
  BY <1>1, ReadEffect, SameEffect
<1>2. CASE req \in Writing
  <2>1. CASE req \in [do: {"create_device"}, device: DeviceIds]
    <3>1. Answer(relay, left, req) = CreateDevice(relay, req)
      BY <2>1 DEF Answer
    <3> QED
      BY <2>1, <3>1, CreateDeviceEffect
  <2>2. CASE req \in [do: {"create_pairing"}, device: DeviceIds, id: PairIds, prune: BOOLEAN]
    <3>1. Answer(relay, left, req) = CreatePairing(relay, left, req)
      BY <2>2 DEF Answer
    <3> QED
      BY <2>2, <3>1, CreatePairingEffect
  <2>3. CASE req \in [do: {"opened", "phone_cancel"}, id: PairIds]
    <3>1. CASE req.do = "opened"
      <4>1. Answer(relay, left, req) = MarkOpened(relay, left, req)
        BY <3>1 DEF Answer
      <4> QED
        BY <2>3, <3>1, <4>1, OpenedEffect
    <3>2. CASE req.do = "phone_cancel"
      <4>1. Answer(relay, left, req) = PhoneCancel(relay, left, req)
        BY <3>2 DEF Answer
      <4> QED
        BY <2>3, <3>2, <4>1, PhoneCancelEffect
    <3> QED
      BY <2>3, <3>1, <3>2
  <2>4. CASE req \in [do: {"submit"}, id: PairIds, request: Requests]
    <3>1. Answer(relay, left, req) = Submit(relay, left, req)
      BY <2>4 DEF Answer
    <3> QED
      BY <2>4, <3>1, SubmitEffect
  <2>5. CASE req \in [do: {"cancel", "register_pair", "revoke"}, device: DeviceIds, id: PairIds]
    <3>1. CASE req.do = "cancel"
      <4>1. Answer(relay, left, req) = CancelPairing(relay, req)
        BY <3>1 DEF Answer
      <4> QED
        BY <2>5, <3>1, <4>1, CancelEffect
    <3>2. CASE req.do = "register_pair"
      <4>1. Answer(relay, left, req) = RegisterPair(relay, req)
        BY <3>2 DEF Answer
      <4> QED
        BY <2>5, <3>2, <4>1, RegisterPairEffect
    <3>3. CASE req.do = "revoke"
      <4>1. Answer(relay, left, req) = RevokePair(relay, req)
        BY <3>3 DEF Answer
      <4> QED
        BY <2>5, <3>3, <4>1, RevokeEffect
    <3> QED
      BY <2>5, <3>1, <3>2, <3>3
  <2>6. CASE req \in [do: {"store_result"}, device: DeviceIds, id: PairIds, request: Requests]
    <3>1. Answer(relay, left, req) = StoreResult(relay, left, req)
      BY <2>6 DEF Answer
    <3> QED
      BY <2>6, <3>1, StoreResultEffect
  <2> QED
    BY <1>2, <2>1, <2>2, <2>3, <2>4, <2>5, <2>6 DEF Writing
<1> QED
  BY <1>1, <1>2

(* The relay did what was asked or nothing; what is left on the way is a   *)
(* request that would change something.                                    *)
LEMMA Exchanged ==
    ASSUME Types, NEW req \in Writing \cup Reading, NEW x \in Exchanges(req), Happens(x)
    PROVE  /\ Effect(relay', req)
           /\ network' = network \/ (req \in Writing /\ network' = network \cup {req})
           /\ faults' \in [phones: SUBSET Phones, tries: 0..MaxTries, restarts: Nat, losses: Nat]
           /\ x.code = "network"
                \/ (/\ x.code = Answer(relay, left, req).code
                    /\ relay' = Answer(relay, left, req).relay
                    /\ network' = network)
<1> DEFINE answer == Answer(relay, left, req)
<1>1. relay \in Relay /\ faults \in [phones: SUBSET Phones, tries: 0..MaxTries,
                                     restarts: Nat, losses: Nat]
  BY DEF Types, TypeOK
<1>2. Effect(relay, req) /\ Effect(answer.relay, req)
  BY <1>1, SameEffect, AnswerEffect
<1>3. answer.relay # relay => req \in Writing
  BY ReadEffect
<1> HIDE DEF answer
<1>4. /\ x.relay \in {relay, answer.relay}
      /\ x.late = {} \/ (x.late = {req} /\ answer.relay # relay)
      /\ x.lost = 0 \/ (x.lost = 1 /\ faults.losses # 0)
      /\ x.code = "network"
           \/ (x.code = answer.code /\ x.relay = answer.relay /\ x.late = {})
  BY DEF Exchanges, answer
<1>5. faults' \in [phones: SUBSET Phones, tries: 0..MaxTries, restarts: Nat, losses: Nat]
  <2>1. faults.losses - x.lost \in Nat
    BY <1>1, <1>4
  <2>2. faults' = [faults EXCEPT !.losses = faults.losses - x.lost]
    BY DEF Happens
  <2> QED
    BY <1>1, <2>1, <2>2
<1>6. relay' = x.relay /\ network' = network \cup x.late
  BY DEF Happens
<1>7. Effect(relay', req)
  BY <1>2, <1>4, <1>6
<1> QED
  BY <1>3, <1>4, <1>5, <1>6, <1>7 DEF answer

-----------------------------------------------------------------------------
(* A request that does not take away what the PC relies on. *)
Harmless(req) ==
    /\ req.do = "create_device" => req.device # pc.device
    /\ req.do = "create_pairing" => req.id # pc.id /\ owner[req.id] = None
    /\ req.do = "store_result" => owner[req.id] = req.request
    /\ req.do \in {"cancel", "register_pair", "revoke"} =>
         req.id # pc.id
           \/ (pc.stage \notin {"persist", "publish"} /\ pc.result # "approved")

LEMMA LateIsHarmless ==
    ASSUME NEW req, Late(req), Ownership
    PROVE  Harmless(req)
BY DEF Late, Harmless

LEMMA RoutesKept ==
    ASSUME Types, Routes(relay), NEW r, NEW req, Effect(r, req), Harmless(req)
    PROVE  Routes(r)
<1> SUFFICES ASSUME NEW i \in PairIds, r.pairings[i] # None
             PROVE  /\ r.pairings[i].cancelled => r.pairings[i].request = None
                    /\ r.pairings[i].result # None => owner[i] = r.pairings[i].result
                    /\ owner[i] # None => r.pairings[i].request = owner[i]
  BY DEF Routes
<1>1. CASE r.pairings[i] = relay.pairings[i]
  BY <1>1 DEF Routes
<1>2. CASE Forgets(r, req, i)
  BY <1>2 DEF Forgets
<1>3. CASE Creates(r, req, i)
  BY <1>3 DEF Creates, New, Harmless
<1>4. CASE Updates(r, req, i)
  <2>1. /\ relay.pairings[i].cancelled => relay.pairings[i].request = None
        /\ relay.pairings[i].result # None => owner[i] = relay.pairings[i].result
        /\ owner[i] # None => relay.pairings[i].request = owner[i]
    BY <1>4 DEF Updates, Routes
  <2> QED
    BY <1>4, <2>1 DEF Updates, Keeps, Harmless
<1> QED
  BY <1>1, <1>2, <1>3, <1>4 DEF Effect

LEMMA ReliedKept ==
    ASSUME Types, Progress, Ownership, Relied(relay),
           NEW r, NEW req, Effect(r, req), Harmless(req)
    PROVE  Relied(r)
<1>1. pc \in PcState
  BY DEF Types
<1>2. ASSUME pc.request # None
      PROVE  \/ r.pairings[pc.id] = relay.pairings[pc.id]
             \/ Forgets(r, req, pc.id) \/ Creates(r, req, pc.id) \/ Updates(r, req, pc.id)
  <2>1. pc.id \in PairIds
    BY <1>1, <1>2 DEF Progress, PcState
  <2> QED
    BY <2>1 DEF Effect
<1>3. ASSUME pc.request # None, r.pairings[pc.id] # None
      PROVE  r.pairings[pc.id].request = pc.request
  <2>1. ~Creates(r, req, pc.id)
    BY DEF Harmless, Creates
  <2>2. CASE r.pairings[pc.id] = relay.pairings[pc.id]
    BY <1>3, <2>2 DEF Relied
  <2>3. CASE Updates(r, req, pc.id)
    <3>1. relay.pairings[pc.id].request = pc.request
      BY <1>3, <2>3 DEF Updates, Relied
    <3> QED
      BY <1>3, <2>3, <3>1 DEF Updates, Keeps
  <2> QED
    BY <1>2, <1>3, <2>1, <2>2, <2>3 DEF Forgets
<1>4. ASSUME pc.stage = "persist" \/ Stored, pc.device \in r.devices
      PROVE  [id |-> pc.id, device |-> pc.device, revoked |-> FALSE] \in r.pairs
  <2>1. pc.device \in relay.devices
    BY <1>4 DEF Effect, Harmless
  <2>2. ~(req.do \in {"register_pair", "revoke"} /\ req.id = pc.id)
    BY <1>4 DEF Harmless, Stored
  <2>3. [id |-> pc.id, device |-> pc.device, revoked |-> FALSE] \in relay.pairs
    BY <1>4, <2>1 DEF Relied
  <2>4. [id |-> pc.id, device |-> pc.device, revoked |-> FALSE].id = pc.id
    OBVIOUS
  <2> QED
    BY <2>2, <2>3, <2>4 DEF Effect
<1>5. ASSUME pc.result = "approved", pc.device \in r.devices, InTime(pc.id)
      PROVE  r.pairings[pc.id] # None /\ r.pairings[pc.id].result = pc.request
  <2>1. pc.device \in relay.devices
    BY <1>5 DEF Effect, Harmless
  <2>2. relay.pairings[pc.id] # None /\ relay.pairings[pc.id].result = pc.request
    BY <1>5, <2>1 DEF Relied
  <2>3. pc.request # None /\ owner[pc.id] = pc.request
    BY <1>5 DEF Ownership, Stored
  <2>4. ~Creates(r, req, pc.id)
    BY DEF Harmless, Creates
  <2>5. pc.id \in PairIds /\ left[pc.id] >= 0
    BY <1>1, <1>5, <2>3 DEF Progress, PcState, InTime
  <2>6. ~Forgets(r, req, pc.id)
    <3>1. left[pc.id] \in -1..Ttl
      BY <2>5 DEF Types, TypeOK
    <3>2. ~(left[pc.id] < 0)
      BY <2>5, <3>1, NamesAssumption
    <3> QED
      BY <1>5, <3>2 DEF Harmless, Forgets
  <2>7. CASE Updates(r, req, pc.id)
    BY <2>2, <2>3, <2>7 DEF Updates, Keeps, Harmless
  <2> QED
    BY <1>2, <2>2, <2>3, <2>4, <2>6, <2>7
<1> QED
  BY <1>3, <1>4, <1>5 DEF Relied

-----------------------------------------------------------------------------
(* The parts a step seldom touches. *)

LEMMA TypesMade ==
    ASSUME relay' \in Relay, left' \in [PairIds -> -1..Ttl], store' \in Store,
           pc' \in PcState, phones' \in [Phones -> PhoneState],
           \A f \in Phones : phones'[f].at # "idle" => phones'[f].id # None,
           network' \subseteq Writing, closed' \subseteq PairIds,
           owner' \in [PairIds -> Requests \cup {None}],
           faults' \in [phones: SUBSET Phones, tries: 0..MaxTries, restarts: Nat, losses: Nat]
    PROVE  Types'
<1>1. \A f \in Phones : phones'[f].at \in {"idle", "scanned", "polling", "error"}
  BY DEF PhoneState
<1> QED
  BY <1>1 DEF Types, TypeOK, PcState

(* The PC's attempt stays the same one and goes on or ends, without a new  *)
(* pair; `relay` and `network` may change.                                 *)
GoesOn ==
    /\ store' = store /\ left' = left /\ used' = used /\ owner' = owner
    /\ pc'.id = pc.id /\ pc'.device = pc.device /\ pc'.again = pc.again
    /\ pc'.stage \notin {"register", "open"} \/ pc'.stage = pc.stage
    /\ pc.stage \in {"idle", "revoke"} =>
         pc'.stage \in {"idle", "revoke"} /\ (pc'.result = "approved" => pc.result = "approved")

LEMMA NamesStay ==
    ASSUME Names, Enough, GoesOn, closed' \subseteq used
    PROVE  Names' /\ Enough'
<1>1. Names'
  BY DEF Names, GoesOn
<1>2. Enough'
  BY DEF Enough, GoesOn
<1> QED
  BY <1>1, <1>2

LEMMA RoutesStay ==
    ASSUME Routes(relay'), owner' = owner
    PROVE  Routes(relay)'
BY DEF Routes

LEMMA ReliedStays ==
    ASSUME Relied(relay'), GoesOn, pc'.request = pc.request,
           pc'.result = "approved" => pc.result = "approved",
           pc'.stage \in {"persist", "publish"} => pc.stage \in {"persist", "publish"}
    PROVE  Relied(relay)'
BY DEF Relied, Stored, InTime, GoesOn

LEMMA LateStays ==
    ASSUME AllLate, GoesOn, \A req \in network' : req \in network \/ Late(req)'
    PROVE  AllLate'
<1> SUFFICES ASSUME NEW req \in network'
             PROVE  Late(req)'
  BY DEF AllLate
<1>1. CASE Late(req)'
  BY <1>1
<1>2. CASE req \in network
  <2>1. Late(req)
    BY <1>2 DEF AllLate
  <2> QED
    BY <2>1 DEF Late, GoesOn
<1> QED
  BY <1>1, <1>2

(* Phones do not save, nothing is stored. *)
LEMMA SavedStays ==
    ASSUME SavedInv, owner' = owner, phones' = phones
    PROVE  SavedInv'
BY DEF SavedInv

-----------------------------------------------------------------------------
(* Steps of the controller that ask nobody. *)
LEMMA LocalStep ==
    ASSUME IInv, GoesOn, pc' \in PcState, pc'.request = pc.request,
           pc'.result = "approved" => pc.result = "approved",
           UNCHANGED <<relay, phones, network, faults>>,
           closed' \subseteq used \cap PairIds, Progress', ClosedInv',
           pc'.stage \in {"persist", "publish"} => pc.stage = pc'.stage,
           pc'.stage \in {"wait", "stop", "await", "close", "cancel", "register_pair", "persist"} =>
             pc.stage \in {"wait", "stop", "await", "close", "cancel", "register_pair", "persist"}
    PROVE  IInv'
<1> USE DEF IInv
<1>1. Types'
  <2>1. /\ relay' \in Relay /\ left' \in [PairIds -> -1..Ttl] /\ store' \in Store
        /\ phones' \in [Phones -> PhoneState]
        /\ \A f \in Phones : phones'[f].at # "idle" => phones'[f].id # None
        /\ network' \subseteq Writing /\ owner' \in [PairIds -> Requests \cup {None}]
        /\ faults' \in [phones: SUBSET Phones, tries: 0..MaxTries, restarts: Nat, losses: Nat]
    BY DEF Types, TypeOK, GoesOn
  <2> QED
    BY <2>1, TypesMade
<1>2. Names' /\ Enough'
  BY NamesStay
<1>3. Ownership'
  BY DEF Ownership, Stored, StoredIds, GoesOn
<1>4. Routes(relay)' /\ Relied(relay)'
  <2>1. Routes(relay') /\ Relied(relay') /\ owner' = owner
    BY DEF GoesOn
  <2> QED
    BY <2>1, RoutesStay, ReliedStays
<1>5. AllLate'
  BY LateStays
<1>6. SavedInv'
  BY SavedStays DEF GoesOn
<1> QED
  BY <1>1, <1>2, <1>3, <1>4, <1>5, <1>6

LEMMA StopPollingKeeps ==
    ASSUME IInv, StopPolling
    PROVE  IInv'
<1>1. pc \in PcState /\ pc' = [pc EXCEPT !.poll = "cancelled"] /\ closed' = closed
  BY DEF StopPolling, IInv, Types
<1>2. pc' \in PcState
  BY <1>1 DEF PcState
<1>3. /\ GoesOn /\ pc'.request = pc.request /\ pc'.stage = pc.stage
      /\ pc'.result = pc.result
  BY <1>1 DEF GoesOn, PcState, StopPolling
<1>4. Progress'
  BY <1>1 DEF IInv, Progress, PcState, StopPolling
<1>5. ClosedInv'
  BY <1>1 DEF IInv, ClosedInv, PcState, StopPolling
<1>6. closed' \subseteq used \cap PairIds
  BY <1>1 DEF IInv, Names, Types, TypeOK
<1> QED
  BY <1>2, <1>3, <1>4, <1>5, <1>6, LocalStep DEF StopPolling

LEMMA CloseWindowKeeps ==
    ASSUME IInv, NEW outcome \in {"cancelled", "received", "opened", "expired", "failed"},
           CloseWindow(outcome)
    PROVE  IInv'
<1>1. /\ pc \in PcState /\ pc' = [pc EXCEPT !.window = outcome]
      /\ closed' = closed /\ pc.window = "shown" /\ ~pc.gone /\ pc.id \in PairIds
  BY DEF CloseWindow, IInv, Types, Progress, PcState
<1>2. pc' \in PcState
  BY <1>1 DEF PcState
<1>3. /\ GoesOn /\ pc'.request = pc.request /\ pc'.stage = pc.stage
      /\ pc'.result = pc.result
  BY <1>1 DEF GoesOn, PcState, CloseWindow
<1>4. Progress'
  BY <1>1 DEF IInv, Progress, PcState
<1>5. ClosedInv'
  BY <1>1 DEF IInv, ClosedInv, Ownership, PcState, CloseWindow
<1>6. closed' \subseteq used \cap PairIds
  BY <1>1 DEF IInv, Names, Types, TypeOK
<1> QED
  BY <1>2, <1>3, <1>4, <1>5, <1>6, LocalStep DEF CloseWindow

LEMMA WindowGoneKeeps ==
    ASSUME IInv, WindowGone
    PROVE  IInv'
<1>1. /\ pc \in PcState /\ pc' = [pc EXCEPT !.gone = TRUE]
      /\ closed' = closed
           \/ (/\ closed' = closed \cup {pc.id}
               /\ \/ pc.window \in {"cancelled", "expired"} /\ pc.stage = "wait"
                  \/ pc.window = "failed")
      /\ pc.window \notin {"none", "shown"} /\ pc.id \in PairIds
      /\ pc.stage \in {"wait", "await", "close"}
  BY DEF WindowGone, IInv, Types, Progress, PcState
<1>2. pc' \in PcState
  BY <1>1 DEF PcState
<1>3. /\ GoesOn /\ pc'.request = pc.request /\ pc'.stage = pc.stage
      /\ pc'.result = pc.result
  BY <1>1 DEF GoesOn, PcState, WindowGone
<1>4. Progress'
  BY <1>1 DEF IInv, Progress, PcState
<1>5. ClosedInv'
  BY <1>1 DEF IInv, ClosedInv, Ownership, PcState, WindowGone
<1>6. closed' \subseteq used \cap PairIds
  BY <1>1 DEF IInv, Names, Types, TypeOK
<1> QED
  BY <1>1, <1>2, <1>3, <1>4, <1>5, <1>6, LocalStep DEF WindowGone

(* The attempt reaches another stage; what it knows stays the same. *)
Reaches(stage) ==
    /\ pc' \in PcState /\ pc'.stage = stage
    /\ pc'.id = pc.id /\ pc'.device = pc.device /\ pc'.again = pc.again
    /\ pc'.request = pc.request /\ pc'.poll = pc.poll /\ pc'.window = pc.window
    /\ pc'.gone = pc.gone

(* The stages between the window and the cancellation or the pair. *)
LEMMA StageStep ==
    ASSUME IInv, pc.stage \in {"wait", "stop", "await", "close", "register_pair"},
           UNCHANGED <<relay, left, store, phones, network, used, closed, owner, faults>>,
           NEW stage \in {"stop", "await", "close", "cancel", "register_pair", "idle"},
           Reaches(stage),
           pc'.result = "none" \/ (pc'.result = "error" /\ stage = "idle"),
           pc.poll = "polling" => stage \in {"stop", "await", "idle"},
           stage = "register_pair" => pc.poll = "request",
           pc.window # "none" /\ ~pc.gone => stage \in {"await", "close"},
           pc.id \in closed =>
             \/ stage \in {"stop", "cancel", "idle"}
             \/ stage \in {"await", "close"} /\ pc.window = "failed"
    PROVE  IInv'
<1>1. pc \in PcState
  BY DEF IInv, Types
<1>2. pc' \in PcState
  BY DEF Reaches
<1>3. /\ pc'.stage = stage /\ pc'.id = pc.id /\ pc'.device = pc.device /\ pc'.again = pc.again
      /\ pc'.request = pc.request /\ pc'.poll = pc.poll /\ pc'.window = pc.window
      /\ pc'.gone = pc.gone
  BY DEF Reaches
<1>4. GoesOn /\ pc'.result # "approved"
  BY <1>3 DEF GoesOn
<1>5. Progress'
  BY <1>3 DEF IInv, Progress
<1>6. ClosedInv'
  BY <1>3 DEF IInv, ClosedInv
<1>7. closed' \subseteq used \cap PairIds
  BY DEF IInv, Names, Types, TypeOK
<1> QED
  BY <1>2, <1>3, <1>4, <1>5, <1>6, <1>7, LocalStep

\* The attempt ends with an error or goes on to another stage.
LEMMA EndsOrGoes ==
  ASSUME pc \in PcState, NEW stage \in {"idle", "cancel", "register_pair"},
         pc' = [pc EXCEPT !.stage = stage,
                          !.result = IF stage = "idle" THEN "error" ELSE pc.result]
  PROVE  Reaches(stage) /\ pc'.result = IF stage = "idle" THEN "error" ELSE pc.result
<1>1. PICK result : result = IF stage = "idle" THEN "error" ELSE pc.result
  OBVIOUS
<1>2. pc' = [pc EXCEPT !.stage = stage, !.result = result]
  BY <1>1, Zenon
<1>3. result \in {"error", pc.result}
  BY <1>1
<1>4. pc' \in PcState
  BY <1>2, <1>3, ZenonT(30) DEF PcState
<1> QED
  BY <1>1, <1>2, <1>4 DEF Reaches, PcState

LEMMA StagesKeep ==
    ASSUME IInv, Decide \/ Stopped \/ Awaited \/ Closed \/ ApproveTooLate
    PROVE  IInv'
<1>1. pc \in PcState /\ (pc.stage # "idle" => pc.result = "none")
  BY DEF IInv, Types, Progress
<1>2. CASE Decide
  <2>1. CASE pc.gone /\ pc.window \in {"cancelled", "expired"}
    <3>1. pc' = [pc EXCEPT !.stage = "stop", !.stop = TRUE]
      BY <1>2, <2>1 DEF Decide
    <3>2. Reaches("stop") /\ pc'.result = pc.result
      BY <1>1, <3>1 DEF PcState, Reaches
    <3> QED
      BY <1>1, <1>2, <2>1, <3>2, StageStep DEF Decide
  <2>2. CASE pc.gone /\ pc.window = "failed"
    <3>1. pc' = [pc EXCEPT !.stage = "idle", !.result = "error"]
      BY <1>2, <2>2 DEF Decide, End
    <3>2. Reaches("idle") /\ pc'.result = "error"
      BY <1>1, <3>1 DEF PcState, Reaches
    <3> QED
      BY <1>1, <1>2, <2>2, <3>2, StageStep DEF Decide
  <2>3. CASE ~(pc.gone /\ pc.window \in {"cancelled", "expired", "failed"})
    <3>1. pc' = [pc EXCEPT !.stage = "await"]
      BY <1>2, <2>3 DEF Decide, Go
    <3>2. Reaches("await") /\ pc'.result = pc.result
      BY <1>1, <3>1 DEF PcState, Reaches
    <3>3. pc.id \notin closed
      BY <1>2, <2>3 DEF Decide, IInv, ClosedInv
    <3> QED
      BY <1>1, <1>2, <3>2, <3>3, StageStep DEF Decide
  <2> QED
    BY <2>1, <2>2, <2>3
<1>3. CASE Stopped
  <2>1. PICK stage \in {"idle", "cancel"} :
          pc' = [pc EXCEPT !.stage = stage,
                           !.result = IF stage = "idle" THEN "error" ELSE pc.result]
    <3>1. CASE pc.poll = "broken"
      BY <1>3, <3>1 DEF Stopped, End
    <3>2. CASE pc.poll # "broken"
      <4>1. pc' = [pc EXCEPT !.stage = "cancel", !.result = pc.result]
        BY <1>1, <1>3, <3>2 DEF Stopped, Go, PcState
      <4> QED
        BY <4>1
    <3> QED
      BY <3>1, <3>2
  <2>2. Reaches(stage) /\ pc'.result = IF stage = "idle" THEN "error" ELSE pc.result
    BY <1>1, <2>1, EndsOrGoes
  <2>3. pc.window # "none" => pc.gone
    BY <1>3 DEF Stopped, IInv, Progress
  <2> QED
    BY <1>1, <1>3, <2>2, <2>3, StageStep DEF Stopped, PollDone
<1>4. CASE Awaited
  <2>1. pc' = [pc EXCEPT !.stage = "close", !.received = TRUE]
    BY <1>4 DEF Awaited
  <2>2. Reaches("close") /\ pc'.result = pc.result
    BY <1>1, <2>1 DEF PcState, Reaches
  <2>3. pc.id \in closed => pc.window = "failed"
    BY <1>4 DEF Awaited, IInv, ClosedInv
  <2> QED
    BY <1>1, <1>4, <2>2, <2>3, StageStep DEF Awaited, PollDone
<1>5. CASE Closed
  <2>1. PICK stage \in {"idle", "cancel", "register_pair"} :
          /\ pc' = [pc EXCEPT !.stage = stage,
                              !.result = IF stage = "idle" THEN "error" ELSE pc.result]
          /\ stage = "register_pair" => pc.poll = "request"
          /\ stage # "idle" => pc.window # "failed"
    <3>1. CASE pc.window # "failed" /\ pc.poll = "request"
      <4>1. pc' = [pc EXCEPT !.stage = "register_pair", !.result = pc.result]
        BY <1>1, <1>5, <3>1 DEF Closed, Go, PcState
      <4> QED
        BY <3>1, <4>1
    <3>2. CASE pc.window # "failed" /\ pc.poll \in {"cancelled", "timeout"}
      <4>1. pc' = [pc EXCEPT !.stage = "cancel", !.result = pc.result]
        BY <1>1, <1>5, <3>2 DEF Closed, Go, PcState
      <4> QED
        BY <3>2, <4>1
    <3>3. CASE pc.window = "failed" \/ pc.poll \notin {"request", "cancelled", "timeout"}
      BY <1>5, <3>3 DEF Closed, End
    <3> QED
      BY <3>1, <3>2, <3>3
  <2>2. Reaches(stage) /\ pc'.result = IF stage = "idle" THEN "error" ELSE pc.result
    BY <1>1, <2>1, EndsOrGoes
  <2>3. pc.gone /\ pc.poll # "polling" /\ (pc.id \in closed => pc.window = "failed")
    BY <1>5 DEF Closed, IInv, ClosedInv, Progress
  <2> QED
    BY <1>1, <1>5, <2>1, <2>2, <2>3, StageStep DEF Closed
<1>6. CASE ApproveTooLate
  <2>1. pc' = [pc EXCEPT !.stage = "idle", !.result = "error"]
    BY <1>6 DEF ApproveTooLate, End
  <2>2. Reaches("idle") /\ pc'.result = "error"
    BY <1>1, <2>1 DEF PcState, Reaches
  <2>3. pc.poll # "polling" /\ (pc.window # "none" => pc.gone)
    BY <1>6 DEF ApproveTooLate, IInv, Progress
  <2> QED
    BY <1>1, <1>6, <2>2, <2>3, StageStep DEF ApproveTooLate
<1> QED
  BY <1>2, <1>3, <1>4, <1>5, <1>6

-----------------------------------------------------------------------------
(* Steps of the controller that ask the relay. *)
LEMMA AskStep ==
    ASSUME IInv, NEW req \in Writing \cup Reading, NEW x \in Exchanges(req), Happens(x),
           Harmless(req), GoesOn, pc' \in PcState,
           UNCHANGED <<phones, closed>>, Progress', Ownership', ClosedInv',
           network' = network \/ Late(req)',
           Relied(relay') => Relied(relay)'
    PROVE  IInv'
<1> USE DEF IInv
<1>1. Effect(relay', req) /\ (network' = network \/ (req \in Writing /\ network' = network \cup {req}))
      /\ faults' \in [phones: SUBSET Phones, tries: 0..MaxTries, restarts: Nat, losses: Nat]
  BY Exchanged
<1>2. Types'
  <2>1. /\ relay' \in Relay /\ left' \in [PairIds -> -1..Ttl] /\ store' \in Store
        /\ phones' \in [Phones -> PhoneState]
        /\ \A f \in Phones : phones'[f].at # "idle" => phones'[f].id # None
        /\ closed' \subseteq PairIds /\ owner' \in [PairIds -> Requests \cup {None}]
    BY <1>1 DEF Types, TypeOK, GoesOn, Effect
  <2>2. network' \subseteq Writing
    BY <1>1 DEF Types
  <2> QED
    BY <1>1, <2>1, <2>2, TypesMade
<1>3. Names' /\ Enough'
  <2>1. closed' \subseteq used
    BY DEF Names
  <2> QED
    BY <2>1, NamesStay
<1>4. Routes(relay)' /\ Relied(relay)'
  <2>1. Routes(relay') /\ Relied(relay')
    BY <1>1, RoutesKept, ReliedKept
  <2>2. owner' = owner
    BY DEF GoesOn
  <2> QED
    BY <2>1, <2>2, RoutesStay
<1>5. AllLate'
  BY <1>1, LateStays
<1>6. SavedInv'
  BY SavedStays DEF GoesOn
<1> QED
  BY <1>2, <1>3, <1>4, <1>5, <1>6

LEMMA PollRequestKeeps ==
    ASSUME IInv, PollRequest
    PROVE  IInv'
<1> DEFINE req == [do |-> "read_request", device |-> pc.device, id |-> pc.id]
<1>1. /\ pc \in PcState /\ pc.stage \in {"wait", "stop", "await"}
      /\ pc.id \in PairIds /\ pc.device \in DeviceIds /\ pc.result = "none"
      /\ pc.poll = "polling"
  BY DEF PollRequest, IInv, Types, Progress, PcState
<1>2. req \in Reading /\ Harmless(req)
  BY <1>1 DEF Reading, Harmless
<1>3. PICK x \in Exchanges(req) :
        /\ Happens(x)
        /\ \/ /\ x.code = "request_received"
              /\ \E outcome \in {"request", "broken"} :
                   pc' = [pc EXCEPT !.poll = outcome,
                                    !.request = relay.pairings[pc.id].request]
           \/ \E outcome \in {"cancelled", "timeout", "polling", "broken", "refused"},
                 opened \in BOOLEAN :
                   pc' = [pc EXCEPT !.opened = opened, !.poll = outcome]
        /\ UNCHANGED <<left, store, phones, used, closed, owner>>
  <2>1. PICK x \in Exchanges(req) :
          /\ Happens(x)
          /\ CASE x.code = "request_received" ->
                  \E outcome \in Decrypted(pc.id) :
                      pc' = [pc EXCEPT !.poll = outcome,
                                       !.request = relay.pairings[pc.id].request]
               [] x.code = "phone_cancelled" -> pc' = [pc EXCEPT !.poll = "cancelled"]
               [] x.code \in {"phone_opened", "waiting_for_phone"} ->
                  pc' = [pc EXCEPT !.opened = @ \/ x.code = "phone_opened",
                                   !.poll = IF left[pc.id] <= 0 THEN "timeout" ELSE "polling"]
               [] x.code = "network" -> pc' = [pc EXCEPT !.poll = "broken"]
               [] OTHER -> pc' = [pc EXCEPT !.poll = "refused"]
          /\ UNCHANGED <<left, store, phones, used, closed, owner>>
    BY DEF PollRequest
  <2>2. pc.opened \in BOOLEAN /\ pc = [pc EXCEPT !.opened = pc.opened]
    BY <1>1 DEF PcState
  <2>3. ASSUME NEW outcome PROVE [pc EXCEPT !.poll = outcome]
                                   = [pc EXCEPT !.opened = pc.opened, !.poll = outcome]
    BY <1>1 DEF PcState
  <2>4. CASE x.code = "request_received"
    <3>1. \E outcome \in Decrypted(pc.id) :
            pc' = [pc EXCEPT !.poll = outcome, !.request = relay.pairings[pc.id].request]
      BY <2>1, <2>4
    <3>2. Decrypted(pc.id) \subseteq {"request", "broken"}
      BY DEF Decrypted
    <3> QED
      BY <2>1, <2>4, <3>1, <3>2
  <2>5. CASE x.code = "phone_cancelled"
    <3>1. pc' = [pc EXCEPT !.opened = pc.opened, !.poll = "cancelled"]
      BY <2>1, <2>3, <2>5
    <3> QED
      BY <2>1, <2>2, <3>1
  <2>6. CASE x.code \in {"phone_opened", "waiting_for_phone"}
    <3>1. pc' = [pc EXCEPT !.opened = pc.opened \/ x.code = "phone_opened",
                           !.poll = IF left[pc.id] <= 0 THEN "timeout" ELSE "polling"]
      BY <2>1, <2>6
    <3>2. (pc.opened \/ x.code = "phone_opened") \in BOOLEAN
      BY Zenon
    <3>3. (IF left[pc.id] <= 0 THEN "timeout" ELSE "polling") \in {"timeout", "polling"}
      OBVIOUS
    <3> QED
      BY <2>1, <3>1, <3>2, <3>3, Zenon
  <2>7. CASE x.code = "network"
    <3>1. pc' = [pc EXCEPT !.opened = pc.opened, !.poll = "broken"]
      BY <2>1, <2>3, <2>7
    <3> QED
      BY <2>1, <2>2, <3>1
  <2>8. CASE x.code \notin {"request_received", "phone_cancelled", "phone_opened",
                            "waiting_for_phone", "network"}
    <3>1. pc' = [pc EXCEPT !.opened = pc.opened, !.poll = "refused"]
      BY <2>1, <2>3, <2>8
    <3> QED
      BY <2>1, <2>2, <3>1
  <2> QED
    BY <2>4, <2>5, <2>6, <2>7, <2>8
<1>4. network' = network
  <2>1. req \notin Writing
    BY DEF Writing
  <2> HIDE DEF req
  <2>2. Types /\ req \in Writing \cup Reading
    BY <1>2 DEF IInv
  <2> QED
    BY <1>3, <2>1, <2>2, Exchanged
<1>5. CASE x.code = "request_received"
            /\ \E outcome \in {"request", "broken"} :
                 pc' = [pc EXCEPT !.poll = outcome,
                                  !.request = relay.pairings[pc.id].request]
  <2>1. PICK outcome \in {"request", "broken"} :
          pc' = [pc EXCEPT !.poll = outcome, !.request = relay.pairings[pc.id].request]
    BY <1>5
  <2>2. relay' = relay /\ relay.pairings[pc.id] # None /\ relay.pairings[pc.id].request # None
    BY <1>2, <1>3, <1>5, Exchanged, ReadEffect DEF IInv
  <2>3. relay.pairings[pc.id].request \in Requests
    <3>1. relay.pairings[pc.id] \in Route
      BY <1>1, <2>2, RelayFields DEF IInv, Types, TypeOK
    <3> QED
      BY <2>2, <3>1 DEF Route
  <2>4. pc' \in PcState /\ GoesOn
    BY <1>1, <1>3, <2>1, <2>3 DEF PcState, GoesOn
  <2>5. Progress'
    BY <1>1, <2>1, <2>2 DEF IInv, Progress, PcState
  <2>6. Ownership' /\ ClosedInv'
    BY <1>1, <1>3, <2>1, ZenonT(30) DEF IInv, Ownership, Stored, StoredIds, ClosedInv, PcState
  <2>7. Relied(relay)'
    BY <1>1, <2>1, <2>2 DEF Relied, Stored, PcState
  <2> HIDE DEF req
  <2> QED
    BY <1>2, <1>3, <1>4, <2>4, <2>5, <2>6, <2>7, AskStep
<1>6. CASE \E outcome \in {"cancelled", "timeout", "polling", "broken", "refused"},
              opened \in BOOLEAN :
                pc' = [pc EXCEPT !.opened = opened, !.poll = outcome]
  <2>1. PICK outcome \in {"cancelled", "timeout", "polling", "broken", "refused"},
             opened \in BOOLEAN :
               pc' = [pc EXCEPT !.opened = opened, !.poll = outcome]
    BY <1>6
  <2>2. /\ pc' \in PcState /\ GoesOn /\ pc'.request = pc.request /\ pc'.stage = pc.stage
        /\ pc'.result = pc.result
    BY <1>1, <1>3, <2>1 DEF PcState, GoesOn
  <2>3. Progress'
    BY <1>1, <2>1 DEF IInv, Progress, PcState
  <2>4. Ownership' /\ ClosedInv'
    BY <1>1, <1>3, <2>1, ZenonT(30) DEF IInv, Ownership, Stored, StoredIds, ClosedInv, PcState
  <2>5. Relied(relay') => Relied(relay)'
    BY <2>2, ReliedStays
  <2> HIDE DEF req
  <2> QED
    BY <1>2, <1>3, <1>4, <2>2, <2>3, <2>4, <2>5, AskStep
<1> QED
  BY <1>3, <1>5, <1>6

(* The attempt ends, in failure or cancelled, and the relay may still get  *)
(* the request that was to do so.                                          *)
LEMMA EndStep ==
    ASSUME IInv, NEW req \in Writing, NEW x \in Exchanges(req), Happens(x), Harmless(req),
           UNCHANGED <<left, store, phones, used, closed, owner>>,
           pc.stage \in {"cancel", "register_pair", "revoke"},
           req.do \in {"cancel", "register_pair", "revoke"}, req.id = pc.id,
           NEW result \in {"cancelled", "expired", "error"}, End(result)
    PROVE  IInv'
<1>1. /\ pc \in PcState /\ pc' = [pc EXCEPT !.stage = "idle", !.result = result]
      /\ pc.id \in used
  BY DEF End, IInv, Types, Progress, Names
<1>2. pc' \in PcState /\ GoesOn /\ pc'.request = pc.request
  BY <1>1 DEF PcState, GoesOn
<1>3. Progress'
  BY <1>1 DEF IInv, Progress, PcState
<1>4. Ownership' /\ ClosedInv'
  BY <1>1 DEF IInv, Ownership, Stored, StoredIds, ClosedInv, PcState
<1>5. Late(req)'
  BY <1>1 DEF Late, PcState
<1>6. Relied(relay') => Relied(relay)'
  <2>1. pc'.stage = "idle" /\ pc'.result # "approved"
    BY <1>1 DEF PcState
  <2> QED
    BY <1>2, <2>1, ReliedStays
<1> QED
  BY <1>2, <1>3, <1>4, <1>5, <1>6, AskStep

LEMMA CancelKeeps ==
    ASSUME IInv, Cancel
    PROVE  IInv'
<1> DEFINE req == [do |-> "cancel", device |-> pc.device, id |-> pc.id]
           result == IF pc.window = "expired" \/ pc.poll = "timeout" THEN "expired" ELSE "cancelled"
<1>1. /\ pc \in PcState /\ pc.stage = "cancel" /\ pc.result = "none"
      /\ pc.id \in PairIds /\ pc.device \in DeviceIds
  BY DEF Cancel, IInv, Types, Progress, PcState
<1>2. req \in Writing /\ Harmless(req) /\ req.do = "cancel" /\ req.id = pc.id
  BY <1>1 DEF Writing, Harmless
<1>3. result \in {"cancelled", "expired", "error"}
  OBVIOUS
<1>4. PICK x \in Exchanges(req) :
        Happens(x) /\ End(result) /\ UNCHANGED <<left, store, phones, used, closed, owner>>
  BY DEF Cancel
<1> HIDE DEF req, result
<1> QED
  BY <1>1, <1>2, <1>3, <1>4, EndStep

LEMMA RevokeKeeps ==
    ASSUME IInv, Revoke
    PROVE  IInv'
<1> DEFINE req == [do |-> "revoke", device |-> pc.device, id |-> pc.id]
<1>1. /\ pc \in PcState /\ pc.stage = "revoke" /\ pc.result = "none"
      /\ pc.id \in PairIds /\ pc.device \in DeviceIds
  BY DEF Revoke, IInv, Types, Progress, PcState
<1>2. req \in Writing /\ Harmless(req) /\ req.do = "revoke" /\ req.id = pc.id
  BY <1>1 DEF Writing, Harmless
<1>3. PICK x \in Exchanges(req) :
        Happens(x) /\ End("error") /\ UNCHANGED <<left, store, phones, used, closed, owner>>
  BY DEF Revoke
<1> HIDE DEF req
<1> QED
  BY <1>1, <1>2, <1>3, EndStep

LEMMA RegisterRouteKeeps ==
    ASSUME IInv, RegisterRoute
    PROVE  IInv'
<1> DEFINE req == [do |-> "register_pair", device |-> pc.device, id |-> pc.id]
<1>1. /\ pc \in PcState /\ pc.stage = "register_pair" /\ pc.result = "none"
      /\ pc.id \in PairIds /\ pc.device \in DeviceIds /\ pc.poll = "request"
  BY DEF RegisterRoute, IInv, Types, Progress, PcState
<1>2. /\ req \in Writing /\ Harmless(req) /\ req.do = "register_pair"
      /\ req.id = pc.id /\ req.device = pc.device
  BY <1>1 DEF Writing, Harmless
<1>3. PICK x \in Exchanges(req) :
        /\ Happens(x)
        /\ IF x.code = "ok" THEN Go("persist") ELSE End("error")
        /\ UNCHANGED <<left, store, phones, used, closed, owner>>
  BY DEF RegisterRoute
<1> HIDE DEF req
<1>4. CASE x.code # "ok"
  BY <1>1, <1>2, <1>3, <1>4, EndStep
<1>5. CASE x.code = "ok"
  <2>1. pc' = [pc EXCEPT !.stage = "persist"]
    BY <1>3, <1>5 DEF Go
  <2>2. Types /\ req \in Writing \cup Reading
    BY <1>2 DEF IInv
  <2>3. /\ relay' = Answer(relay, left, req).relay /\ Answer(relay, left, req).code = "ok"
        /\ network' = network
    BY <1>3, <1>5, <2>2, Exchanged
  <2>4. Answer(relay, left, req) = RegisterPair(relay, req)
    BY <1>2 DEF Answer
  <2>5. [id |-> pc.id, device |-> pc.device, revoked |-> FALSE] \in relay'.pairs
    <3>1. relay \in Relay
      BY <2>2 DEF Types, TypeOK
    <3> QED
      BY <1>1, <1>2, <2>3, <2>4, <3>1, RegisterPairEffect
  <2>6. pc' \in PcState /\ GoesOn
    BY <1>1, <1>3, <2>1 DEF PcState, GoesOn
  <2>7. Progress'
    BY <1>1, <2>1 DEF IInv, Progress, PcState
  <2>8. Ownership' /\ ClosedInv'
    BY <1>1, <1>3, <2>1 DEF IInv, Ownership, Stored, StoredIds, ClosedInv, PcState
  <2>9. Relied(relay') => Relied(relay)'
    BY <1>1, <1>3, <2>1, <2>5 DEF Relied, Stored, PcState, InTime
  <2> QED
    BY <1>2, <1>3, <2>2, <2>3, <2>6, <2>7, <2>8, <2>9, AskStep
<1> QED
  BY <1>4, <1>5

LEMMA PublishKeeps ==
    ASSUME IInv, Publish
    PROVE  IInv'
<1>0. PICK req : req = [do |-> "store_result", device |-> pc.device, id |-> pc.id,
                        request |-> pc.request]
  OBVIOUS
<1>1. /\ pc \in PcState /\ pc.stage = "publish" /\ pc.result = "none"
      /\ pc.id \in PairIds /\ pc.device \in DeviceIds /\ pc.request \in Requests
      /\ owner[pc.id] = pc.request /\ pc.id \in StoredIds /\ pc.poll = "request"
      /\ pc.id \in used
  BY DEF Publish, IInv, Types, Progress, PcState, Ownership, Stored, Names
<1>2. /\ req \in Writing /\ Harmless(req) /\ req.do = "store_result"
      /\ req.id = pc.id /\ req.device = pc.device /\ req.request = pc.request
  BY <1>0, <1>1 DEF Writing, Harmless
<1>3. PICK x \in Exchanges(req) :
        /\ Happens(x)
        /\ IF x.code = "ok" THEN End("approved") ELSE Go("revoke")
        /\ UNCHANGED <<left, store, phones, used, closed, owner>>
  BY <1>0 DEF Publish
<1>4. Types /\ req \in Writing \cup Reading
  BY <1>2 DEF IInv
<1>5. CASE x.code # "ok"
  <2>1. pc' = [pc EXCEPT !.stage = "revoke"]
    BY <1>3, <1>5 DEF Go
  <2>2. pc' \in PcState /\ GoesOn /\ pc'.request = pc.request
    BY <1>1, <1>3, <2>1 DEF PcState, GoesOn
  <2>3. Progress'
    BY <1>1, <2>1 DEF IInv, Progress, PcState
  <2>4. Ownership' /\ ClosedInv'
    BY <1>1, <1>3, <2>1 DEF IInv, Ownership, Stored, StoredIds, ClosedInv, PcState
  <2>5. Late(req)'
    BY <1>1, <1>2, <1>3, <2>1 DEF Late, PcState
  <2>6. Relied(relay') => Relied(relay)'
    <3>1. pc'.stage = "revoke" /\ pc'.result # "approved"
      BY <1>1, <2>1 DEF PcState
    <3> QED
      BY <2>2, <3>1, ReliedStays
  <2> QED
    BY <1>2, <1>3, <1>4, <2>2, <2>3, <2>4, <2>5, <2>6, AskStep
<1>6. CASE x.code = "ok"
  <2>1. pc' = [pc EXCEPT !.stage = "idle", !.result = "approved"]
    BY <1>3, <1>6 DEF End
  <2>2. /\ relay' = Answer(relay, left, req).relay /\ Answer(relay, left, req).code = "ok"
        /\ network' = network
    BY <1>3, <1>4, <1>6, Exchanged
  <2>3. Answer(relay, left, req) = StoreResult(relay, left, req)
    BY <1>2 DEF Answer
  <2>4. relay'.pairings[pc.id] # None /\ relay'.pairings[pc.id].result = pc.request
    <3>1. relay \in Relay
      BY <1>4 DEF Types, TypeOK
    <3> QED
      BY <1>1, <1>2, <2>2, <2>3, <3>1, StoreResultEffect
  <2>5. pc' \in PcState
    BY <1>1, <2>1 DEF PcState
  <2>6. Progress' /\ GoesOn
    BY <1>1, <1>3, <2>1 DEF IInv, Progress, PcState, GoesOn
  <2>7. Ownership' /\ ClosedInv'
    BY <1>1, <1>3, <2>1 DEF IInv, Ownership, Stored, StoredIds, ClosedInv, PcState
  <2>8. Relied(relay') => Relied(relay)'
    BY <1>1, <1>3, <2>1, <2>4 DEF Relied, Stored, PcState, InTime
  <2> QED
    BY <1>2, <1>3, <1>4, <2>2, <2>5, <2>6, <2>7, <2>8, AskStep
<1> QED
  BY <1>5, <1>6

-----------------------------------------------------------------------------
(* The steps that take names or touch the credential file.                 *)

LEMMA FreshIsNew ==
    ASSUME NEW names, NEW taken, names \ taken # {}
    PROVE  Fresh(names, taken) \in names \ taken
BY DEF Fresh

LEMMA NamedIsDevice ==
    ASSUME NEW d \in DeviceIds
    PROVE  Named(d) \in Device /\ Named(d).id = d
BY NamesAssumption DEF Named, Device

LEMMA StoreFields ==
    ASSUME NEW s \in Store
    PROVE  /\ s = [devices |-> s.devices, pairs |-> s.pairs]
           /\ s.devices \in SUBSET Device /\ s.pairs \in SUBSET Pair
BY DEF Store

LEMMA ReplacedStore ==
    ASSUME NEW s \in Store, NEW d \in Device, NEW clear \in BOOLEAN
    PROVE  LET t == ReplaceDevice(s, d, clear)
           IN  /\ t \in Store
               /\ \A e \in t.devices : e \in s.devices \/ e = d
               /\ t.pairs \subseteq s.pairs
<1> DEFINE devices == {e \in s.devices : e.origin # d.origin} \cup {d}
           pairs == IF clear THEN {p \in s.pairs : p.origin # d.origin} ELSE s.pairs
<1>1. ReplaceDevice(s, d, clear) = [devices |-> devices, pairs |-> pairs]
  BY DEF ReplaceDevice
<1>2. devices \in SUBSET Device /\ pairs \in SUBSET Pair /\ pairs \subseteq s.pairs
  BY StoreFields
<1>3. \A e \in devices : e \in s.devices \/ e = d
  OBVIOUS
<1> HIDE DEF devices, pairs
<1> QED
  BY <1>1, <1>2, <1>3 DEF Store

LEMMA AddedStore ==
    ASSUME NEW s \in Store, NEW p \in Pair
    PROVE  LET t == AddPair(s, p)
           IN  /\ t \in Store /\ t.devices = s.devices /\ p \in t.pairs
               /\ \A q \in t.pairs : q \in s.pairs \/ q = p
<1> DEFINE pairs == {q \in s.pairs : ~(q.origin = p.origin /\ q.id = p.id)} \cup {p}
<1>1. AddPair(s, p) = [devices |-> s.devices, pairs |-> pairs]
  BY StoreFields DEF AddPair, Store
<1>2. pairs \in SUBSET Pair /\ p \in pairs /\ \A q \in pairs : q \in s.pairs \/ q = p
  BY StoreFields
<1> HIDE DEF pairs
<1> QED
  BY <1>1, <1>2, StoreFields DEF Store

(* The bound of Begin leaves two names for devices. *)
LEMMA TwoNames ==
    ASSUME NEW S, IsFiniteSet(S), Cardinality(S) >= 2
    PROVE  S # {} /\ \E d, e \in S : d # e
<1>1. S # {}
  BY FS_EmptySet
<1>2. PICK d : d \in S
  BY <1>1
<1>3. S # {d}
  BY FS_Singleton
<1> QED
  BY <1>1, <1>2, <1>3

LEMMA NoDevice ==
    ASSUME NEW p, p = [Idle EXCEPT !.stage = "register"]
    PROVE  p = [Idle EXCEPT !.stage = "register", !.device = None]
<1> DEFINE waiting == [stage |-> "register", id |-> None, device |-> None, again |-> FALSE,
                       poll |-> "none", window |-> "none", gone |-> FALSE, stop |-> FALSE,
                       opened |-> FALSE, received |-> FALSE, request |-> None, result |-> "none"]
<1>1. p = waiting
  BY DEF Idle
<1>2. PICK q : q = [Idle EXCEPT !.stage = "register", !.device = None]
  OBVIOUS
<1>3. q = waiting
  BY <1>2 DEF Idle
<1> QED
  BY <1>1, <1>2, <1>3

LEMMA BeginKeeps ==
    ASSUME IInv, Begin
    PROVE  IInv'
<1> USE DEF IInv
<1>1. PICK stage \in {"register", "open"}, device \in DeviceIds \cup {None} :
        /\ pc' = [Idle EXCEPT !.stage = stage, !.device = device]
        /\ stage = "open" => device # None
        /\ device # None => \E d \in store.devices : device = d.id
  <2>1. CASE DeviceFor(store, Home) = {}
    <3>1. pc' = [Idle EXCEPT !.stage = "register"]
      BY <2>1 DEF Begin
    <3>2. pc' = [Idle EXCEPT !.stage = "register", !.device = None]
      BY <3>1, NoDevice
    <3>3. /\ "register" \in {"register", "open"} /\ None \in DeviceIds \cup {None}
          /\ "register" = "open" => None # None
          /\ None # None => \E d \in store.devices : None = d.id
      OBVIOUS
    <3> QED
      BY <3>2, <3>3, Zenon
  <2>2. CASE DeviceFor(store, Home) # {}
    <3>1. PICK d \in DeviceFor(store, Home) :
            pc' = [Idle EXCEPT !.stage = "open", !.device = d.id]
      BY <2>2 DEF Begin
    <3>2. d \in store.devices /\ d \in Device
      BY <3>1, StoreFields DEF DeviceFor, Types, TypeOK
    <3>3. d.id \in DeviceIds /\ d.id # None
      BY <3>2, NamesAssumption DEF Device
    <3> QED
      BY <3>1, <3>2, <3>3
  <2> QED
    BY <2>1, <2>2
<1>2. pc' = [stage |-> stage, id |-> None, device |-> device, again |-> FALSE,
             poll |-> "none", window |-> "none", gone |-> FALSE, stop |-> FALSE,
             opened |-> FALSE, received |-> FALSE, request |-> None, result |-> "none"]
  BY <1>1 DEF Idle
<1>3. pc' \in PcState
  BY <1>2 DEF PcState
<1>4. /\ pc'.stage = stage /\ pc'.id = None /\ pc'.device = device /\ pc'.again = FALSE
      /\ pc'.poll = "none" /\ pc'.window = "none" /\ ~pc'.gone /\ pc'.request = None /\ pc'.result = "none"
  BY <1>2
<1>5. UNCHANGED <<relay, left, store, phones, network, used, closed, owner, faults>>
  BY DEF Begin
<1>6. \A i \in PairIds : i # None
  BY NamesAssumption
<1>7. Types'
  <2>1. /\ relay' \in Relay /\ left' \in [PairIds -> -1..Ttl] /\ store' \in Store
        /\ phones' \in [Phones -> PhoneState]
        /\ \A f \in Phones : phones'[f].at # "idle" => phones'[f].id # None
        /\ network' \subseteq Writing /\ closed' \subseteq PairIds
        /\ owner' \in [PairIds -> Requests \cup {None}]
        /\ faults' \in [phones: SUBSET Phones, tries: 0..MaxTries, restarts: Nat, losses: Nat]
    BY <1>5 DEF Types, TypeOK
  <2> QED
    BY <1>3, <2>1, TypesMade
<1>8. Names'
  BY <1>1, <1>4, <1>5 DEF Names
<1>9. Enough'
  <2>1. IsFiniteSet(DeviceIds \ used)
    BY NamesAssumption, FS_Subset
  <2>2. DeviceIds \ used # {} /\ (\E d, e \in DeviceIds \ used : d # e) /\ PairIds \ used # {}
    BY <2>1, TwoNames DEF Begin
  <2> QED
    BY <1>4, <1>5, <2>2 DEF Enough
<1>10. Progress'
  BY <1>1, <1>4 DEF Progress
<1>11. Ownership'
  BY <1>4, <1>5 DEF Ownership, Stored, StoredIds
<1>12. Routes(relay)' /\ Relied(relay)'
  BY <1>4, <1>5 DEF Routes, Relied, Stored
<1>13. AllLate'
  <2> SUFFICES ASSUME NEW req \in network PROVE Late(req)'
    BY <1>5 DEF AllLate
  <2>1. Late(req) /\ req \in Writing
    BY DEF AllLate, Types
  <2>2. req.do = "create_device" => req.device \in DeviceIds
    BY <2>1 DEF Writing
  <2>3. req.do \in {"create_pairing", "cancel", "register_pair", "revoke", "store_result"} =>
          req.id \in PairIds
    BY <2>1 DEF Writing
  <2> QED
    BY <1>1, <1>4, <1>5, <1>6, <2>1, <2>2, <2>3, NamesAssumption DEF Late
<1>14. ClosedInv'
  BY <1>4, <1>5, <1>6 DEF ClosedInv, Types, TypeOK
<1>15. SavedInv'
  BY <1>5, SavedStays
<1> QED
  BY <1>7, <1>8, <1>9, <1>10, <1>11, <1>12, <1>13, <1>14, <1>15

LEMMA RegisterDeviceKeeps ==
    ASSUME IInv, RegisterDevice
    PROVE  IInv'
<1> USE DEF IInv
<1>1. PICK d : d = Fresh(DeviceIds, used)
  OBVIOUS
<1>2. d \in DeviceIds /\ d \notin used
  <2>1. DeviceIds \ used # {}
    BY DEF RegisterDevice, Enough
  <2> QED
    BY <1>1, <2>1, FreshIsNew
<1>3. PICK req : req = [do |-> "create_device", device |-> d]
  OBVIOUS
<1>4. req \in Writing /\ req.do = "create_device" /\ req.device = d
  BY <1>2, <1>3 DEF Writing
<1>5. PICK x \in Exchanges(req) :
        /\ Happens(x)
        /\ used' = used \cup {d}
        /\ IF x.code = "ok"
           THEN /\ store' = ReplaceDevice(store, Named(d), pc.again)
                /\ pc' = [pc EXCEPT !.stage = "open", !.device = d]
           ELSE End("error") /\ UNCHANGED store
        /\ UNCHANGED <<left, phones, closed, owner>>
  BY <1>1, <1>3 DEF RegisterDevice
<1>6. /\ pc \in PcState /\ pc.stage = "register" /\ pc.id = None /\ pc.request = None
      /\ pc.poll = "none" /\ pc.window = "none" /\ pc.result = "none" /\ pc.device # d
      /\ store \in Store /\ pc.again \in BOOLEAN
  BY <1>2, NamesAssumption DEF RegisterDevice, Types, TypeOK, Progress, Names, PcState
<1>7. PICK stage \in {"open", "idle"}, device \in DeviceIds \cup {None},
           result \in {"none", "error"} :
        /\ pc' = [pc EXCEPT !.stage = stage, !.device = device, !.result = result]
        /\ stage = "open" => device = d /\ result = "none" /\ x.code = "ok"
        /\ stage = "idle" => device = pc.device /\ store' = store
        /\ store' \in Store /\ store'.pairs \subseteq store.pairs
        /\ \A e \in store'.devices : e \in store.devices \/ e.id = d
  <2>1. CASE x.code = "ok"
    <3>1. pc' = [pc EXCEPT !.stage = "open", !.device = d, !.result = "none"]
      BY <1>5, <1>6, <2>1 DEF PcState
    <3>2. /\ store' \in Store /\ store'.pairs \subseteq store.pairs
          /\ \A e \in store'.devices : e \in store.devices \/ e.id = d
      BY <1>2, <1>5, <1>6, <2>1, NamedIsDevice, ReplacedStore
    <3> QED
      BY <1>2, <2>1, <3>1, <3>2
  <2>2. CASE x.code # "ok"
    <3>1. pc' = [pc EXCEPT !.stage = "idle", !.device = pc.device, !.result = "error"]
      BY <1>5, <1>6, <2>2 DEF End, PcState
    <3>2. pc.device \in DeviceIds \cup {None} /\ store' = store
      BY <1>5, <1>6, <2>2 DEF PcState
    <3> QED
      BY <1>6, <3>1, <3>2
  <2> QED
    BY <2>1, <2>2
<1>8. pc' \in PcState
  BY <1>6, <1>7 DEF PcState
<1>9. /\ pc'.stage = stage /\ pc'.id = None /\ pc'.device = device /\ pc'.again = pc.again
      /\ pc'.poll = "none" /\ pc'.window = "none" /\ pc'.request = None /\ pc'.result = result
  BY <1>6, <1>7 DEF PcState
<1>10. Harmless(req)
  BY <1>4, <1>6 DEF Harmless
<1>11. /\ Effect(relay', req) /\ (network' = network \/ network' = network \cup {req})
       /\ faults' \in [phones: SUBSET Phones, tries: 0..MaxTries, restarts: Nat, losses: Nat]
       /\ x.code = "ok" => network' = network
  BY <1>4, <1>5, Exchanged
<1>12. left' = left /\ phones' = phones /\ closed' = closed /\ owner' = owner
       /\ used' = used \cup {d}
  BY <1>5
<1>13. Types'
  <2>1. /\ relay' \in Relay /\ left' \in [PairIds -> -1..Ttl]
        /\ phones' \in [Phones -> PhoneState]
        /\ \A f \in Phones : phones'[f].at # "idle" => phones'[f].id # None
        /\ closed' \subseteq PairIds /\ owner' \in [PairIds -> Requests \cup {None}]
    BY <1>11, <1>12 DEF Types, TypeOK, Effect
  <2>2. network' \subseteq Writing
    BY <1>4, <1>11 DEF Types
  <2> QED
    BY <1>7, <1>8, <1>11, <2>1, <2>2, TypesMade
<1>14. Names'
  <2>1. \A e \in store'.devices : e.id \in used'
    BY <1>7, <1>12 DEF Names
  <2>2. device # None => device \in used'
    BY <1>7, <1>12 DEF Names
  <2> QED
    BY <1>9, <1>12, <2>1, <2>2 DEF Names
<1>15. Enough'
  <2>1. d \notin PairIds
    BY <1>2, NamesAssumption
  <2>2. PairIds \ used' # {}
    BY <1>6, <1>12, <2>1 DEF Enough
  <2>3. ~pc.again => DeviceIds \ used' # {}
    BY <1>6, <1>12 DEF Enough
  <2> QED
    BY <1>7, <1>9, <2>2, <2>3 DEF Enough
<1>16. Progress'
  BY <1>2, <1>7, <1>9, NamesAssumption DEF Progress
<1>17. Ownership'
  BY <1>7, <1>9, <1>12 DEF Ownership, Stored, StoredIds
<1>18. Routes(relay)' /\ Relied(relay)'
  <2>1. Routes(relay')
    BY <1>10, <1>11, RoutesKept
  <2>2. Routes(relay)'
    BY <1>12, <2>1, RoutesStay
  <2>3. Relied(relay)'
    BY <1>9, <1>7 DEF Relied, Stored
  <2> QED
    BY <2>2, <2>3
<1>19. AllLate'
  <2> SUFFICES ASSUME NEW q \in network' PROVE Late(q)'
    BY DEF AllLate
  <2>1. CASE q \in network
    <3>1. Late(q) /\ q \in Writing
      BY <2>1 DEF AllLate, Types
    <3>2. q.do = "create_device" =>
            /\ q.device \in used' /\ q.device # device
            /\ \A e \in store'.devices : e.id # q.device
      BY <1>2, <1>7, <1>12, <3>1 DEF Late
    <3>3. q.do \in {"create_pairing", "cancel", "register_pair", "revoke", "store_result"} =>
            q.id \in PairIds
      BY <3>1 DEF Writing
    <3>4. \A i \in PairIds : i # None
      BY NamesAssumption
    <3> QED
      BY <1>9, <1>12, <3>1, <3>2, <3>3, <3>4 DEF Late
  <2>2. CASE q = req /\ network' # network
    <3>1. stage = "idle" /\ device = pc.device /\ store' = store
      BY <1>7, <1>11, <2>2
    <3>2. \A e \in store'.devices : e.id # d
      BY <1>2, <3>1 DEF Names
    <3> QED
      BY <1>4, <1>6, <1>9, <1>12, <2>2, <3>1, <3>2 DEF Late
  <2> QED
    BY <1>11, <2>1, <2>2
<1>20. ClosedInv'
  <2>1. \A i \in PairIds : i # None
    BY NamesAssumption
  <2> QED
    BY <1>9, <1>12, <2>1 DEF ClosedInv, Types, TypeOK
<1>21. SavedInv'
  BY <1>12, SavedStays
<1> QED
  BY <1>13, <1>14, <1>15, <1>16, <1>17, <1>18, <1>19, <1>20, <1>21

LEMMA OpenPairingKeeps ==
    ASSUME IInv, NEW prune \in BOOLEAN, OpenPairing(prune)
    PROVE  IInv'
<1> USE DEF IInv
<1>1. PICK i : i = Fresh(PairIds, used)
  OBVIOUS
<1>2. i \in PairIds /\ i \notin used /\ i # None
  <2>1. PairIds \ used # {}
    BY DEF OpenPairing, Enough
  <2> QED
    BY <1>1, <2>1, FreshIsNew, NamesAssumption
<1>3. PICK req : req = [do |-> "create_pairing", device |-> pc.device, id |-> i, prune |-> prune]
  OBVIOUS
<1>4. PICK x \in Exchanges(req) :
        /\ Happens(x)
        /\ IF x.code = "unauthorized" THEN UNCHANGED <<used, left>>
           ELSE used' = used \cup {i} /\ left' = [left EXCEPT ![i] = Ttl]
        /\ CASE x.code = "ok" -> pc' = Offered(i)
             [] x.code = "unauthorized" /\ ~pc.again ->
                pc' = [pc EXCEPT !.stage = "register", !.again = TRUE]
             [] OTHER -> End("error")
        /\ UNCHANGED <<store, phones, closed, owner>>
  BY <1>1, <1>3 DEF OpenPairing
<1>5. /\ pc \in PcState /\ pc.stage = "open" /\ pc.id = None /\ pc.request = None
      /\ pc.poll = "none" /\ pc.window = "none" /\ ~pc.gone /\ pc.result = "none"
      /\ pc.device \in DeviceIds /\ pc.device \in used
  BY NamesAssumption DEF OpenPairing, Types, Progress, Names, PcState
<1>6. req \in Writing /\ req.do = "create_pairing" /\ req.device = pc.device /\ req.id = i
  BY <1>2, <1>3, <1>5 DEF Writing
<1>7. owner[i] = None
  BY <1>2 DEF Names
<1>8. Harmless(req)
  BY <1>2, <1>5, <1>6, <1>7 DEF Harmless
<1>9. /\ Effect(relay', req) /\ (network' = network \/ network' = network \cup {req})
      /\ faults' \in [phones: SUBSET Phones, tries: 0..MaxTries, restarts: Nat, losses: Nat]
      /\ x.code \in {"ok", "unauthorized"} => network' = network
  BY <1>4, <1>6, Exchanged
<1>10. PICK stage \in {"wait", "register", "idle"} :
        /\ pc'.stage = stage /\ pc'.device = pc.device /\ pc'.request = None /\ ~pc'.gone
        /\ stage = "wait" => x.code = "ok" /\ pc'.id = i /\ pc'.again = pc.again
                             /\ pc'.poll = "polling" /\ pc'.window = "shown"
        /\ stage # "wait" => pc'.id = None /\ pc'.poll = "none" /\ pc'.window = "none"
        /\ stage = "register" => x.code = "unauthorized" /\ pc'.again /\ ~pc.again
        /\ pc'.result = (IF stage = "idle" THEN "error" ELSE "none")
        /\ pc' \in PcState
  <2>1. CASE x.code = "ok"
    <3>1. pc' = [pc EXCEPT !.stage = "wait", !.id = i, !.poll = "polling", !.window = "shown"]
      BY <1>4, <2>1 DEF Offered
    <3>2. /\ pc' \in PcState /\ pc'.stage = "wait" /\ pc'.device = pc.device
          /\ pc'.request = None /\ ~pc'.gone /\ pc'.id = i /\ pc'.again = pc.again
          /\ pc'.poll = "polling" /\ pc'.window = "shown" /\ pc'.result = "none"
      BY <1>2, <1>5, <3>1 DEF PcState
    <3> QED
      BY <2>1, <3>2
  <2>2. CASE x.code = "unauthorized" /\ ~pc.again
    <3>1. pc' = [pc EXCEPT !.stage = "register", !.again = TRUE]
      BY <1>4, <2>2
    <3>2. /\ pc' \in PcState /\ pc'.stage = "register" /\ pc'.device = pc.device
          /\ pc'.request = None /\ ~pc'.gone /\ pc'.id = None /\ pc'.again
          /\ pc'.poll = "none" /\ pc'.window = "none" /\ pc'.result = "none"
      BY <1>5, <3>1 DEF PcState
    <3> QED
      BY <2>2, <3>2
  <2>3. CASE x.code # "ok" /\ ~(x.code = "unauthorized" /\ ~pc.again)
    <3>1. pc' = [pc EXCEPT !.stage = "idle", !.result = "error"]
      BY <1>4, <2>3 DEF End
    <3>2. /\ pc' \in PcState /\ pc'.stage = "idle" /\ pc'.device = pc.device
          /\ pc'.request = None /\ ~pc'.gone /\ pc'.id = None
          /\ pc'.poll = "none" /\ pc'.window = "none" /\ pc'.result = "error"
      BY <1>5, <3>1 DEF PcState
    <3> QED
      BY <3>2
  <2> QED
    BY <2>1, <2>2, <2>3
<1>11. /\ store' = store /\ phones' = phones /\ closed' = closed /\ owner' = owner
       /\ used' = used \/ used' = used \cup {i}
       /\ x.code = "unauthorized" => used' = used
       /\ x.code # "unauthorized" => i \in used'
  BY <1>4
<1>12. left' \in [PairIds -> -1..Ttl]
  <2>1. left \in [PairIds -> -1..Ttl] /\ Ttl \in -1..Ttl
    BY NamesAssumption DEF Types, TypeOK
  <2> QED
    BY <1>4, <2>1
<1>13. Types'
  <2>1. /\ relay' \in Relay /\ store' \in Store /\ phones' \in [Phones -> PhoneState]
        /\ \A f \in Phones : phones'[f].at # "idle" => phones'[f].id # None
        /\ closed' \subseteq PairIds /\ owner' \in [PairIds -> Requests \cup {None}]
    BY <1>9, <1>11 DEF Types, TypeOK, Effect
  <2>2. network' \subseteq Writing
    BY <1>6, <1>9 DEF Types
  <2> QED
    BY <1>9, <1>10, <1>12, <2>1, <2>2, TypesMade
<1>14. Names'
  <2>1. pc'.id # None => pc'.id \in used'
    BY <1>10, <1>11
  <2> QED
    BY <1>5, <1>10, <1>11, <2>1 DEF Names
<1>15. Enough'
  BY <1>5, <1>10, <1>11 DEF Enough
<1>16. Progress'
  BY <1>2, <1>5, <1>10, NamesAssumption DEF Progress
<1>17. Ownership'
  BY <1>7, <1>10, <1>11 DEF Ownership, Stored, StoredIds
<1>18. Routes(relay)' /\ Relied(relay)'
  <2>1. Routes(relay')
    BY <1>8, <1>9, RoutesKept
  <2>2. Routes(relay)'
    BY <1>11, <2>1, RoutesStay
  <2>3. Relied(relay)'
    BY <1>10 DEF Relied, Stored
  <2> QED
    BY <2>2, <2>3
<1>19. AllLate'
  <2> SUFFICES ASSUME NEW q \in network' PROVE Late(q)'
    BY DEF AllLate
  <2>1. CASE q \in network
    <3>1. Late(q) /\ q \in Writing
      BY <2>1 DEF AllLate, Types
    <3>2. q.do \in {"create_pairing", "cancel", "register_pair", "revoke", "store_result"} =>
            q.id \in used' /\ q.id # pc'.id
      <4>1. q.do \in {"create_pairing", "cancel", "register_pair", "revoke", "store_result"} =>
              q.id \in used /\ q.id \in PairIds
        BY <3>1 DEF Late, Writing
      <4>2. \A j \in PairIds : j # None
        BY NamesAssumption
      <4> QED
        BY <1>2, <1>10, <1>11, <4>1, <4>2
    <3>3. q.do = "create_device" => q.device \in used'
      BY <1>11, <3>1 DEF Late
    <3> QED
      BY <1>10, <1>11, <3>1, <3>2, <3>3 DEF Late
  <2>2. CASE q = req /\ network' # network
    <3>1. x.code \notin {"ok", "unauthorized"}
      BY <1>9, <2>2
    <3> QED
      BY <1>2, <1>6, <1>7, <1>10, <1>11, <2>2, <3>1 DEF Late
  <2> QED
    BY <1>9, <2>1, <2>2
<1>20. ClosedInv'
  <2>1. \A j \in closed : j # i /\ j # None
    BY <1>2, NamesAssumption DEF Names, Types, TypeOK
  <2> QED
    BY <1>10, <1>11, <2>1 DEF ClosedInv
<1>21. SavedInv'
  BY <1>11, SavedStays
<1> QED
  BY <1>13, <1>14, <1>15, <1>16, <1>17, <1>18, <1>19, <1>20, <1>21

LEMMA PersistKeeps ==
    ASSUME IInv, NEW ok \in BOOLEAN, Persist(ok)
    PROVE  IInv'
<1> USE DEF IInv
<1>1. /\ pc \in PcState /\ pc.stage = "persist" /\ pc.id \in PairIds /\ pc.device \in DeviceIds
      /\ pc.result = "none" /\ pc.poll = "request" /\ pc.request \in Requests
      /\ pc.request # None /\ owner[pc.id] = None /\ pc.id \in used /\ store \in Store
  BY DEF Persist, Types, TypeOK, Progress, Ownership, Names, PcState
<1>2. PICK i : i = pc.id
  OBVIOUS
<1>3. PICK stage \in {"publish", "revoke"} :
        /\ pc' = [pc EXCEPT !.stage = stage]
        /\ stage = "publish" => ok
        /\ stage = "revoke" => ~ok /\ store' = store /\ owner' = owner
        /\ ok => store' = AddPair(store, PcPair) /\ owner' = [owner EXCEPT ![i] = pc.request]
  BY <1>2 DEF Persist, Go
<1>4. /\ pc' \in PcState /\ pc'.stage = stage /\ pc'.id = i /\ pc'.device = pc.device
      /\ pc'.again = pc.again /\ pc'.poll = "request" /\ pc'.window = pc.window
      /\ pc'.gone = pc.gone /\ pc'.request = pc.request /\ pc'.result = "none"
  BY <1>1, <1>2, <1>3 DEF PcState
<1>5. UNCHANGED <<relay, left, phones, network, used, closed, faults>>
  BY DEF Persist
<1>6. /\ store' \in Store /\ store'.devices = store.devices
      /\ \A p \in store'.pairs : p \in store.pairs \/ (stage = "publish" /\ p.id = i)
      /\ stage = "publish" => \E p \in store'.pairs : p.id = i
  <2>1. PcPair \in Pair /\ PcPair.id = i
    BY <1>1, <1>2, NamesAssumption DEF PcPair, Pair
  <2> HIDE DEF PcPair
  <2>2. CASE stage = "publish"
    BY <1>1, <1>3, <2>1, <2>2, AddedStore
  <2>3. CASE stage = "revoke"
    BY <1>1, <1>3, <2>3
  <2> QED
    BY <2>2, <2>3
<1>7. /\ owner' \in [PairIds -> Requests \cup {None}]
      /\ \A j \in PairIds : j # i => owner'[j] = owner[j]
      /\ stage = "publish" => owner'[i] = pc.request
      /\ stage = "revoke" => owner' = owner
  <2>1. owner \in [PairIds -> Requests \cup {None}]
    BY DEF Types, TypeOK
  <2>2. CASE stage = "publish"
    BY <1>1, <1>2, <1>3, <2>1, <2>2
  <2>3. CASE stage = "revoke"
    BY <1>3, <2>1, <2>3
  <2> QED
    BY <2>2, <2>3
<1>8. Types'
  <2>1. /\ relay' \in Relay /\ left' \in [PairIds -> -1..Ttl]
        /\ phones' \in [Phones -> PhoneState]
        /\ \A f \in Phones : phones'[f].at # "idle" => phones'[f].id # None
        /\ network' \subseteq Writing /\ closed' \subseteq PairIds
        /\ faults' \in [phones: SUBSET Phones, tries: 0..MaxTries, restarts: Nat, losses: Nat]
    BY <1>5 DEF Types, TypeOK
  <2> QED
    BY <1>4, <1>6, <1>7, <2>1, TypesMade
<1>9. Names'
  BY <1>1, <1>2, <1>4, <1>5, <1>6, <1>7 DEF Names
<1>10. Enough'
  BY <1>4 DEF Enough
<1>11. Progress'
  BY <1>1, <1>2, <1>4, NamesAssumption DEF Progress
<1>12. Ownership'
  <2>1. ASSUME NEW j \in {p.id : p \in store'.pairs} PROVE owner'[j] # None
    <3>1. CASE j = i
      <4>1. CASE stage = "publish"
        BY <1>1, <1>7, <3>1, <4>1
      <4>2. CASE stage = "revoke"
        BY <1>3, <1>6, <2>1, <4>2 DEF Ownership, StoredIds
      <4> QED
        BY <4>1, <4>2
    <3>2. CASE j # i
      <4>1. PICK p \in store'.pairs : p.id = j
        BY <2>1
      <4>2. p \in store.pairs
        BY <1>6, <3>2, <4>1
      <4>3. j \in PairIds
        BY <1>1, <4>1, <4>2, StoreFields DEF Pair
      <4> QED
        BY <1>7, <3>2, <4>1, <4>2, <4>3 DEF Ownership, StoredIds
    <3> QED
      BY <3>1, <3>2
  <2>2. \A j \in StoredIds' : owner'[j] # None
    BY <2>1 DEF StoredIds
  <2>3. Stored' => pc'.id \in StoredIds' /\ owner'[pc'.id] = pc'.request /\ pc'.request # None
    <3>1. Stored' => stage = "publish"
      BY <1>4 DEF Stored
    <3>2. stage = "publish" => pc'.id \in StoredIds'
      BY <1>4, <1>6 DEF StoredIds
    <3> QED
      BY <1>1, <1>4, <1>7, <3>1, <3>2
  <2> QED
    BY <1>4, <2>2, <2>3 DEF Ownership
<1>13. Routes(relay)'
  <2> SUFFICES ASSUME NEW j \in PairIds, relay.pairings[j] # None
               PROVE  /\ relay.pairings[j].cancelled => relay.pairings[j].request = None
                      /\ relay.pairings[j].result # None => owner'[j] = relay.pairings[j].result
                      /\ owner'[j] # None => relay.pairings[j].request = owner'[j]
    BY <1>5 DEF Routes
  <2>1. /\ relay.pairings[j].cancelled => relay.pairings[j].request = None
        /\ relay.pairings[j].result # None => owner[j] = relay.pairings[j].result
        /\ owner[j] # None => relay.pairings[j].request = owner[j]
    BY DEF Routes
  <2>2. CASE j # i \/ stage = "revoke"
    BY <1>7, <2>1, <2>2
  <2>3. CASE j = i /\ stage = "publish"
    <3>1. relay.pairings[j].request = pc.request
      BY <1>1, <1>2, <2>3 DEF Relied
    <3> QED
      BY <1>1, <1>2, <1>7, <2>1, <2>3, <3>1
  <2> QED
    BY <2>2, <2>3
<1>14. Relied(relay)'
  BY <1>1, <1>2, <1>4, <1>5 DEF Relied, Stored
<1>15. AllLate'
  <2> SUFFICES ASSUME NEW q \in network PROVE Late(q)'
    BY <1>5 DEF AllLate
  <2>1. Late(q) /\ q \in Writing
    BY DEF AllLate, Types
  <2>2. q.do \in {"create_pairing", "cancel", "register_pair", "revoke", "store_result"} =>
          q.id \in PairIds /\ q.id # i
    BY <1>1, <1>2, <2>1 DEF Late, Writing
  <2>3. q.do \in {"create_pairing", "store_result"} => owner'[q.id] = owner[q.id]
    BY <1>7, <2>2
  <2> QED
    BY <1>4, <1>5, <1>6, <2>1, <2>2, <2>3 DEF Late
<1>16. ClosedInv'
  <2>1. \A j \in closed : j # i /\ j \in PairIds
    BY <1>1, <1>2 DEF ClosedInv, Types, TypeOK
  <2> QED
    BY <1>4, <1>5, <1>7, <2>1 DEF ClosedInv
<1>17. SavedInv'
  <2> SUFFICES ASSUME NEW f \in Phones, NEW s \in phones[f].saved
               PROVE  owner'[s[1]] = <<f, s[2]>> /\ owner'[s[1]] # None
    BY <1>5 DEF SavedInv
  <2>1. owner[s[1]] = <<f, s[2]>> /\ owner[s[1]] # None
    BY DEF SavedInv
  <2>2. s[1] \in PairIds
    BY DEF Types, PhoneState
  <2>3. s[1] # i
    BY <1>1, <1>2, <2>1
  <2> QED
    BY <1>7, <2>1, <2>2, <2>3
<1> QED
  BY <1>8, <1>9, <1>10, <1>11, <1>12, <1>13, <1>14, <1>15, <1>16, <1>17

-----------------------------------------------------------------------------
(* Steps of the phones, of the network and of the relay. *)

(* The PC has no part in the step. *)
LEMMA ElsewhereStep ==
    ASSUME IInv, UNCHANGED <<left, store, pc, used, closed, owner>>,
           relay' \in Relay, Routes(relay'), Relied(relay'),
           phones' \in [Phones -> PhoneState],
           \A f \in Phones : phones'[f].at # "idle" => phones'[f].id # None,
           network' \subseteq Writing, \A req \in network' : req \in network \/ Late(req)',
           faults' \in [phones: SUBSET Phones, tries: 0..MaxTries, restarts: Nat, losses: Nat],
           SavedInv'
    PROVE  IInv'
<1> USE DEF IInv
<1>1. Types'
  <2>1. /\ left' \in [PairIds -> -1..Ttl] /\ store' \in Store /\ pc' \in PcState
        /\ closed' \subseteq PairIds /\ owner' \in [PairIds -> Requests \cup {None}]
    BY DEF Types, TypeOK
  <2> QED
    BY <2>1, TypesMade
<1>2. GoesOn /\ closed' \subseteq used
  BY DEF GoesOn, Names
<1>3. Names' /\ Enough' /\ Routes(relay)' /\ Relied(relay)' /\ AllLate'
  BY <1>2, NamesStay, RoutesStay, ReliedStays, LateStays
<1>4. Progress'
  BY DEF Progress
<1>5. Ownership'
  BY DEF Ownership, Stored, StoredIds
<1>6. ClosedInv'
  BY DEF ClosedInv
<1> QED
  BY <1>1, <1>3, <1>4, <1>5, <1>6

(* A phone's page moves. *)
LEMMA PhoneTyped ==
    ASSUME Types, NEW f \in Phones, NEW p \in PhoneState, p.at # "idle" => p.id # None,
           phones' = [phones EXCEPT ![f] = p]
    PROVE  /\ phones' \in [Phones -> PhoneState]
           /\ \A g \in Phones : phones'[g].at # "idle" => phones'[g].id # None
BY DEF Types

LEMMA OneSaves ==
    ASSUME Types, SavedInv, owner' = owner, NEW f \in Phones, NEW p,
           phones' = [phones EXCEPT ![f] = p],
           \A s \in p.saved : owner[s[1]] = <<f, s[2]>> /\ owner[s[1]] # None
    PROVE  SavedInv'
<1>1. \A g \in Phones : phones'[g] = IF g = f THEN p ELSE phones[g]
  BY DEF Types
<1> QED
  BY <1>1 DEF SavedInv

LEMMA PageFields ==
    ASSUME Types, NEW f \in Phones
    PROVE  /\ phones[f] \in PhoneState
           /\ phones[f].at # "idle" => phones[f].id \in PairIds
<1>1. phones[f] \in PhoneState /\ (phones[f].at # "idle" => phones[f].id # None)
  BY DEF Types
<1> QED
  BY <1>1 DEF PhoneState

LEMMA PagesKeep ==
    ASSUME IInv, NEW f \in Phones, Scan(f) \/ Leave(f) \/ GiveUp(f)
    PROVE  IInv'
<1> USE DEF IInv
<1>1. /\ phones[f] \in PhoneState /\ phones \in [Phones -> PhoneState]
      /\ phones[f].at # "idle" => phones[f].id \in PairIds
  BY PageFields DEF Types
<1>2. PICK at \in {"idle", "scanned", "error"}, id \in PairIds \cup {None} :
        /\ phones' = [phones EXCEPT ![f] = [phones[f] EXCEPT !.at = at, !.id = id]]
        /\ at # "idle" => id # None
  <2>1. CASE Scan(f)
    <3>1. pc.id \in PairIds /\ pc.id # None
      BY <2>1, NamesAssumption DEF Scan, Types, PcState, Progress
    <3>2. phones' = [phones EXCEPT ![f] = [phones[f] EXCEPT !.at = "scanned", !.id = pc.id]]
      BY <1>1, <2>1 DEF Scan
    <3> QED
      BY <3>1, <3>2
  <2>2. CASE Leave(f)
    <3>1. phones' = [phones EXCEPT ![f] = [phones[f] EXCEPT !.at = "idle", !.id = None]]
      BY <1>1, <2>2 DEF Leave
    <3> QED
      BY <3>1
  <2>3. CASE GiveUp(f)
    <3>1. phones[f].id \in PairIds /\ phones[f].id # None
      BY <1>1, <2>3, NamesAssumption DEF GiveUp
    <3>2. phones' = [phones EXCEPT ![f] = [phones[f] EXCEPT !.at = "error"]]
      BY <1>1, <2>3 DEF GiveUp
    <3>3. [phones[f] EXCEPT !.at = "error"]
            = [phones[f] EXCEPT !.at = "error", !.id = phones[f].id]
      BY <1>1 DEF PhoneState
    <3> QED
      BY <3>1, <3>2, <3>3
  <2> QED
    BY <2>1, <2>2, <2>3
<1> DEFINE p == [phones[f] EXCEPT !.at = at, !.id = id]
<1>3. p \in PhoneState /\ p.saved = phones[f].saved /\ p.at = at /\ p.id = id
  BY <1>1, <1>2 DEF PhoneState
<1>4. phones' = [phones EXCEPT ![f] = p]
  BY <1>2
<1> HIDE DEF p
<1>5. /\ phones' \in [Phones -> PhoneState]
      /\ \A g \in Phones : phones'[g].at # "idle" => phones'[g].id # None
  BY <1>2, <1>3, <1>4, PhoneTyped
<1>6. UNCHANGED <<relay, left, store, pc, used, closed, owner, faults>>
  BY DEF Scan, Leave, GiveUp
<1>7. SavedInv'
  <2>1. \A s \in p.saved : owner[s[1]] = <<f, s[2]>> /\ owner[s[1]] # None
    BY <1>3 DEF SavedInv
  <2> QED
    BY <1>4, <1>6, <2>1, OneSaves
<1>8. network' \subseteq Writing /\ \A req \in network' : req \in network \/ Late(req)'
  <2>1. \A i \in PairIds : /\ [do |-> "opened", id |-> i] \in Writing
                           /\ Late([do |-> "opened", id |-> i])'
                           /\ [do |-> "phone_cancel", id |-> i] \in Writing
                           /\ Late([do |-> "phone_cancel", id |-> i])'
    BY DEF Writing, Late
  <2>2. CASE Scan(f)
    <3>1. pc.id \in PairIds
      BY <2>2 DEF Scan, Types, PcState, Progress
    <3> QED
      BY <2>1, <2>2, <3>1 DEF Scan, Types
  <2>3. CASE Leave(f)
    BY <1>1, <2>1, <2>3 DEF Leave, Types
  <2>4. CASE GiveUp(f)
    BY <2>4 DEF GiveUp, Types
  <2> QED
    BY <2>2, <2>3, <2>4
<1>9. /\ relay' \in Relay /\ Routes(relay') /\ Relied(relay')
      /\ faults' \in [phones: SUBSET Phones, tries: 0..MaxTries, restarts: Nat, losses: Nat]
  BY <1>6 DEF Types, TypeOK
<1> QED
  BY <1>5, <1>6, <1>7, <1>8, <1>9, ElsewhereStep

LEMMA SubmitRequestKeeps ==
    ASSUME IInv, NEW f \in Phones, SubmitRequest(f)
    PROVE  IInv'
<1> USE DEF IInv
<1>1. /\ phones[f] \in PhoneState /\ phones \in [Phones -> PhoneState]
      /\ phones[f].id \in PairIds /\ phones[f].id # None
  BY PageFields, NamesAssumption DEF Types, SubmitRequest
<1>2. phones[f].try + 1 \in 1..MaxTries /\ phones[f].try + 1 \in 0..MaxTries
  BY <1>1, NamesAssumption DEF SubmitRequest, PhoneState, Types
<1>3. PICK req : req = [do |-> "submit", id |-> phones[f].id, request |-> Attempt(f)]
  OBVIOUS
<1>4. req \in Writing /\ req.do = "submit"
  <2>1. Attempt(f) \in Requests
    BY <1>2, RequestAssumption DEF Attempt
  <2> QED
    BY <1>1, <1>3, <2>1 DEF Writing
<1>5. PICK x \in Exchanges(req) :
        /\ Happens(x)
        /\ phones' = [phones EXCEPT ![f].try = @ + 1,
                                    ![f].at = IF x.code = "ok" THEN "polling" ELSE "error"]
        /\ UNCHANGED <<left, store, pc, used, closed, owner>>
  BY <1>3 DEF SubmitRequest
<1>6. PICK at \in {"polling", "error"} : at = IF x.code = "ok" THEN "polling" ELSE "error"
  OBVIOUS
<1> DEFINE p == [phones[f] EXCEPT !.try = phones[f].try + 1, !.at = at]
<1>7. phones' = [phones EXCEPT ![f] = p]
  BY <1>1, <1>5, <1>6
<1>8. p \in PhoneState /\ p.saved = phones[f].saved /\ p.id = phones[f].id
  BY <1>1, <1>2 DEF PhoneState
<1> HIDE DEF p
<1>9. /\ phones' \in [Phones -> PhoneState]
      /\ \A g \in Phones : phones'[g].at # "idle" => phones'[g].id # None
  BY <1>1, <1>7, <1>8, PhoneTyped
<1>10. SavedInv'
  <2>1. \A s \in p.saved : owner[s[1]] = <<f, s[2]>> /\ owner[s[1]] # None
    BY <1>8 DEF SavedInv
  <2> QED
    BY <1>5, <1>7, <2>1, OneSaves
<1>11. /\ Effect(relay', req) /\ (network' = network \/ network' = network \cup {req})
       /\ faults' \in [phones: SUBSET Phones, tries: 0..MaxTries, restarts: Nat, losses: Nat]
  BY <1>4, <1>5, Exchanged
<1>12. Routes(relay') /\ Relied(relay') /\ relay' \in Relay
  <2>1. Harmless(req)
    BY <1>4 DEF Harmless
  <2> QED
    BY <1>11, <2>1, RoutesKept, ReliedKept DEF Effect
<1>13. network' \subseteq Writing /\ \A q \in network' : q \in network \/ Late(q)'
  <2>1. Late(req)'
    BY <1>4 DEF Late
  <2> QED
    BY <1>4, <1>11, <2>1 DEF Types
<1> QED
  BY <1>5, <1>9, <1>10, <1>11, <1>12, <1>13, ElsewhereStep

LEMMA PollResultKeeps ==
    ASSUME IInv, NEW f \in Phones, NEW ok \in BOOLEAN, PollResult(f, ok)
    PROVE  IInv'
<1> USE DEF IInv
<1>1. PICK i : i = phones[f].id
  OBVIOUS
<1>2. /\ phones[f] \in PhoneState /\ phones \in [Phones -> PhoneState]
      /\ i \in PairIds /\ i # None
  BY <1>1, PageFields, NamesAssumption DEF Types, PollResult
<1>3. PICK req : req = [do |-> "read_result", id |-> i]
  OBVIOUS
<1>4. req \in Reading /\ req.id = i /\ req \notin Writing
  BY <1>2, <1>3 DEF Reading, Writing
<1>5. PICK x \in Exchanges(req) :
        /\ Happens(x)
        /\ phones' =
            CASE x.code = "result_available" /\ SameKey(relay.pairings[i].result, f) /\ ok ->
                    [phones EXCEPT ![f].at = "idle", ![f].saved = @ \cup {<<i, phones[f].try>>}]
              [] x.code = "waiting_for_pc" -> phones
              [] OTHER -> [phones EXCEPT ![f].at = "error"]
        /\ UNCHANGED <<left, store, pc, used, closed, owner>>
  BY <1>1, <1>3 DEF PollResult
<1>6. /\ Effect(relay', req) /\ network' = network
      /\ faults' \in [phones: SUBSET Phones, tries: 0..MaxTries, restarts: Nat, losses: Nat]
      /\ x.code = "result_available" =>
           relay.pairings[i] # None /\ relay.pairings[i].result # None
  BY <1>4, <1>5, Exchanged, ReadEffect
<1>7. PICK p \in PhoneState :
        /\ phones' = [phones EXCEPT ![f] = p]
        /\ p.id = i
        /\ \A s \in p.saved : owner[s[1]] = <<f, s[2]>> /\ owner[s[1]] # None
  <2>1. \A s \in phones[f].saved : owner[s[1]] = <<f, s[2]>> /\ owner[s[1]] # None
    BY DEF SavedInv
  <2>2. CASE x.code = "result_available" /\ SameKey(relay.pairings[i].result, f) /\ ok
    <3>0. PICK saved : saved = phones[f].saved \cup {<<i, phones[f].try>>}
      OBVIOUS
    <3> DEFINE p == [phones[f] EXCEPT !.at = "idle", !.saved = saved]
    <3>1. phones' = [phones EXCEPT ![f] = p]
      BY <1>2, <1>5, <2>2, <3>0
    <3>2. saved \in SUBSET (PairIds \X Nat)
      <4>1. phones[f].try \in Nat /\ phones[f].saved \in SUBSET (PairIds \X Nat)
        BY <1>2, NamesAssumption DEF PhoneState
      <4> QED
        BY <1>2, <3>0, <4>1
    <3>3. p \in PhoneState /\ p.id = i /\ p.saved = saved
      BY <1>1, <1>2, <3>2 DEF PhoneState
    <3>4. owner[i] = <<f, phones[f].try>> /\ owner[i] # None
      BY <1>2, <1>6, <2>2 DEF Routes, SameKey
    <3> HIDE DEF p
    <3>5. \A s \in p.saved : owner[s[1]] = <<f, s[2]>> /\ owner[s[1]] # None
      BY <2>1, <3>0, <3>3, <3>4
    <3> QED
      BY <3>1, <3>3, <3>5
  <2>3. CASE x.code = "waiting_for_pc"
    <3>1. phones' = [phones EXCEPT ![f] = phones[f]]
      BY <1>2, <1>5, <2>3
    <3> QED
      BY <1>1, <1>2, <2>1, <3>1
  <2>4. CASE /\ ~(x.code = "result_available" /\ SameKey(relay.pairings[i].result, f) /\ ok)
             /\ x.code # "waiting_for_pc"
    <3> DEFINE p == [phones[f] EXCEPT !.at = "error"]
    <3>1. phones' = [phones EXCEPT ![f] = p]
      BY <1>2, <1>5, <2>4
    <3>2. p \in PhoneState /\ p.id = i /\ p.saved = phones[f].saved
      BY <1>1, <1>2 DEF PhoneState
    <3> HIDE DEF p
    <3> QED
      BY <2>1, <3>1, <3>2
  <2> QED
    BY <2>2, <2>3, <2>4
<1>8. /\ phones' \in [Phones -> PhoneState]
      /\ \A g \in Phones : phones'[g].at # "idle" => phones'[g].id # None
  BY <1>2, <1>7, PhoneTyped
<1>9. SavedInv'
  BY <1>5, <1>7, OneSaves
<1>10. Routes(relay') /\ Relied(relay') /\ relay' \in Relay
  <2>1. Harmless(req)
    BY <1>3 DEF Harmless
  <2> QED
    BY <1>6, <2>1, RoutesKept, ReliedKept DEF Effect
<1>11. network' \subseteq Writing /\ \A q \in network' : q \in network \/ Late(q)'
  BY <1>6 DEF Types
<1> QED
  BY <1>5, <1>6, <1>8, <1>9, <1>10, <1>11, ElsewhereStep

LEMMA ArriveKeeps ==
    ASSUME IInv, NEW req \in network, Arrive(req)
    PROVE  IInv'
<1> USE DEF IInv
<1>1. relay \in Relay /\ req \in Writing \cup Reading /\ Late(req)
  BY DEF Types, TypeOK, AllLate
<1>2. Effect(relay', req)
  <2>1. relay' = relay \/ relay' = Answer(relay, left, req).relay
    BY DEF Arrive
  <2> QED
    BY <1>1, <2>1, SameEffect, AnswerEffect
<1>3. Routes(relay') /\ Relied(relay') /\ relay' \in Relay
  BY <1>1, <1>2, LateIsHarmless, RoutesKept, ReliedKept DEF Effect
<1>4. /\ phones' \in [Phones -> PhoneState]
      /\ \A f \in Phones : phones'[f].at # "idle" => phones'[f].id # None
      /\ network' \subseteq Writing /\ \A q \in network' : q \in network
      /\ faults' \in [phones: SUBSET Phones, tries: 0..MaxTries, restarts: Nat, losses: Nat]
  BY DEF Arrive, Types
<1>5. SavedInv'
  BY SavedStays DEF Arrive
<1> QED
  BY <1>3, <1>4, <1>5, ElsewhereStep DEF Arrive

LEMMA EmptyIsRelay ==
    /\ EmptyRelay \in Relay /\ EmptyRelay.devices = {}
    /\ \A i \in PairIds : EmptyRelay.pairings[i] = None
BY DEF EmptyRelay, Relay

LEMMA RestartRelayKeeps ==
    ASSUME IInv, RestartRelay
    PROVE  IInv'
<1> USE DEF IInv
<1>1. relay' \in Relay /\ relay'.devices = {} /\ \A i \in PairIds : relay'.pairings[i] = None
  BY EmptyIsRelay DEF RestartRelay
<1>2. Routes(relay')
  BY <1>1 DEF Routes
<1>3. Relied(relay')
  <2>1. pc.request # None => pc.id \in PairIds
    BY DEF Progress, Types, PcState
  <2> QED
    BY <1>1, <2>1 DEF Relied
<1>4. /\ phones' \in [Phones -> PhoneState]
      /\ \A f \in Phones : phones'[f].at # "idle" => phones'[f].id # None
      /\ network' \subseteq Writing /\ \A q \in network' : q \in network
  BY DEF RestartRelay, Types
<1>5. faults' \in [phones: SUBSET Phones, tries: 0..MaxTries, restarts: Nat, losses: Nat]
  <2>1. /\ faults \in [phones: SUBSET Phones, tries: 0..MaxTries, restarts: Nat, losses: Nat]
        /\ faults.restarts > 0 /\ faults' = [faults EXCEPT !.restarts = faults.restarts - 1]
    BY DEF RestartRelay, Types
  <2>2. faults.restarts - 1 \in Nat
    BY <2>1
  <2> QED
    BY <2>1, <2>2
<1>6. SavedInv'
  BY SavedStays DEF RestartRelay
<1> QED
  BY <1>1, <1>2, <1>3, <1>4, <1>5, <1>6, ElsewhereStep DEF RestartRelay

LEMMA TickKeeps ==
    ASSUME IInv, Tick
    PROVE  IInv'
<1> USE DEF IInv
<1>1. left \in [PairIds -> -1..Ttl] /\ Ttl \in Nat
  BY NamesAssumption DEF Types, TypeOK
<1>2. /\ left' = [i \in PairIds |-> IF left[i] >= 0 THEN left[i] - 1 ELSE -1]
      /\ UNCHANGED <<relay, store, pc, phones, network, used, closed, owner, faults>>
  BY DEF Tick
<1>3. ASSUME NEW i \in PairIds
      PROVE  left'[i] \in -1..Ttl /\ (left'[i] >= 0 => left[i] >= 0)
  <2>1. left[i] \in -1..Ttl /\ left'[i] = IF left[i] >= 0 THEN left[i] - 1 ELSE -1
    BY <1>1, <1>2
  <2> QED
    BY <1>1, <2>1
<1>4. left' \in [PairIds -> -1..Ttl]
  <2>1. \A i \in PairIds : (IF left[i] >= 0 THEN left[i] - 1 ELSE -1) \in -1..Ttl
    BY <1>2, <1>3
  <2> QED
    BY <1>2, <2>1
<1>5. Types'
  <2>1. /\ relay' \in Relay /\ store' \in Store /\ pc' \in PcState
        /\ phones' \in [Phones -> PhoneState]
        /\ \A f \in Phones : phones'[f].at # "idle" => phones'[f].id # None
        /\ network' \subseteq Writing /\ closed' \subseteq PairIds
        /\ owner' \in [PairIds -> Requests \cup {None}]
        /\ faults' \in [phones: SUBSET Phones, tries: 0..MaxTries, restarts: Nat, losses: Nat]
    BY <1>2 DEF Types, TypeOK
  <2> QED
    BY <1>4, <2>1, TypesMade
<1>6. Names' /\ Enough' /\ Progress'
  BY <1>2 DEF Names, Enough, Progress
<1>7. Ownership' /\ Routes(relay)' /\ ClosedInv' /\ SavedInv'
  BY <1>2 DEF Ownership, Stored, StoredIds, Routes, ClosedInv, SavedInv
<1>8. Relied(relay)'
  <2>1. pc.result = "approved" => pc.id \in PairIds
    BY DEF Ownership, Stored, Progress, Types, PcState
  <2>2. pc.result = "approved" /\ left'[pc.id] >= 0 => left[pc.id] >= 0
    BY <1>3, <2>1
  <2> QED
    BY <1>2, <2>2 DEF Relied, Stored, InTime
<1>9. AllLate'
  BY <1>2 DEF AllLate, Late
<1> QED
  BY <1>5, <1>6, <1>7, <1>8, <1>9

-----------------------------------------------------------------------------
(* The invariant of the pairing, whatever the phones, the network and the  *)
(* relay do.                                                               *)
LEMMA InitHolds == Init => IInv
<1> SUFFICES ASSUME Init PROVE IInv
  OBVIOUS
<1>1. store \in Store /\ store.pairs = {}
  <2>1. EmptyStore \in Store /\ EmptyStore.pairs = {}
    BY DEF EmptyStore, Store
  <2>2. Fresh(DeviceIds, {}) \in DeviceIds
    BY FreshIsNew, NamesAssumption
  <2>3. LET s == ReplaceDevice(EmptyStore, Named(Fresh(DeviceIds, {})), FALSE)
        IN  s \in Store /\ s.pairs \subseteq {}
    BY <2>1, <2>2, NamedIsDevice, ReplacedStore
  <2> QED
    BY <2>1, <2>3 DEF Init
<1>2. pc \in PcState
  BY DEF Init, Idle, PcState
<1>3. \A f \in Phones : phones[f] = [at |-> "idle", id |-> None, try |-> 0, saved |-> {}]
  BY DEF Init
<1>4. phones \in [Phones -> PhoneState]
  <2>1. [at |-> "idle", id |-> None, try |-> 0, saved |-> {}] \in PhoneState
    BY NamesAssumption DEF PhoneState
  <2> QED
    BY <2>1 DEF Init
<1>5. relay \in Relay /\ \A i \in PairIds : relay.pairings[i] = None
  BY EmptyIsRelay DEF Init
<1>6. Types
  <2>1. left \in [PairIds -> -1..Ttl]
    BY NamesAssumption DEF Init
  <2>2. owner \in [PairIds -> Requests \cup {None}] /\ closed \subseteq PairIds
    BY DEF Init
  <2>3. network = {}
    BY DEF Init
  <2>4. faults \in [phones: SUBSET Phones, tries: 0..MaxTries, restarts: Nat, losses: Nat]
    BY RequestAssumption DEF Init
  <2>5. \A f \in Phones : phones[f].at = "idle"
    BY <1>3
  <2>6. TypeOK
    BY <1>1, <1>2, <1>5, <2>1, <2>2, <2>5 DEF TypeOK, PcState
  <2> QED
    BY <1>2, <1>4, <2>3, <2>4, <2>5, <2>6 DEF Types
<1>7. Names
  BY DEF Init, Idle, Names
<1>8. Enough /\ Progress
  BY DEF Init, Idle, Enough, Progress
<1>9. Ownership
  BY <1>1 DEF Init, Idle, Ownership, Stored, StoredIds
<1>10. Routes(relay) /\ Relied(relay)
  BY <1>5 DEF Init, Idle, Routes, Relied, Stored
<1>11. AllLate /\ ClosedInv /\ SavedInv
  BY <1>3 DEF Init, AllLate, ClosedInv, SavedInv
<1> QED
  BY <1>6, <1>7, <1>8, <1>9, <1>10, <1>11 DEF IInv

LEMMA StepKeeps == IInv /\ [Next]_vars => IInv'
<1> SUFFICES ASSUME IInv, [Next]_vars PROVE IInv'
  OBVIOUS
<1>1. CASE UNCHANGED vars
  <2>1. UNCHANGED <<relay, left, store, pc, phones, network, used, closed, owner, faults>>
    BY <1>1 DEF vars
  <2>2. Types'
    BY <2>1 DEF IInv, Types, TypeOK
  <2>3. Names' /\ Enough' /\ Progress' /\ Ownership'
    BY <2>1 DEF IInv, Names, Enough, Progress, Ownership, Stored, StoredIds
  <2>4. Routes(relay)' /\ Relied(relay)'
    BY <2>1 DEF IInv, Routes, Relied, Stored, InTime
  <2>5. AllLate' /\ ClosedInv' /\ SavedInv'
    BY <2>1 DEF IInv, AllLate, Late, ClosedInv, SavedInv
  <2> QED
    BY <2>2, <2>3, <2>4, <2>5 DEF IInv
<1>2. CASE Controller
  BY <1>2, RegisterDeviceKeeps, OpenPairingKeeps, PollRequestKeeps, CancelKeeps,
     RegisterRouteKeeps, PublishKeeps, RevokeKeeps, StopPollingKeeps, StagesKeep,
     PersistKeeps DEF Controller
<1>3. CASE WindowEnds \/ \E outcome \in {"cancelled", "failed"} : CloseWindow(outcome)
  BY <1>3, CloseWindowKeeps, WindowGoneKeeps DEF WindowEnds
<1>4. ASSUME NEW f \in Phones, Phone(f)
      PROVE  IInv'
  BY <1>4, PagesKeep, SubmitRequestKeeps, PollResultKeeps DEF Phone
<1> QED
  BY <1>1, <1>2, <1>3, <1>4, BeginKeeps, ArriveKeeps, RestartRelayKeeps, TickKeeps DEF Next

LEMMA Invariance == Spec => []IInv
BY InitHolds, StepKeeps, PTL DEF Spec

(* A session that ended without the PC's user or without its phone gives   *)
(* no pair: not on the PC, not on a phone, however late a request or an    *)
(* answer arrives (pairing_controller.py, relay/state.py).                 *)
THEOREM EndedUnpaired == Spec => []EndedIsUnpaired
<1>1. IInv => EndedIsUnpaired
  <2> SUFFICES ASSUME IInv PROVE EndedIsUnpaired
    OBVIOUS
  <2>1. ASSUME NEW i \in closed
        PROVE  i \notin StoredIds /\ \A f \in Phones : \A s \in phones[f].saved : s[1] # i
    <3>1. owner[i] = None
      BY DEF IInv, ClosedInv
    <3> QED
      BY <3>1 DEF IInv, Ownership, SavedInv
  <2>2. ASSUME NEW i \in PairIds, relay.pairings[i] # None, relay.pairings[i].cancelled
        PROVE  owner[i] = None
    BY <2>2 DEF IInv, Routes
  <2> QED
    BY <2>1, <2>2 DEF EndedIsUnpaired, ClosedIsUnpaired, CancelledIsUnpaired
<1> QED
  BY <1>1, Invariance, PTL

(* A phone that saved a pair is the one the PC stored it for, with the     *)
(* same key (pairing.py complete_pc_pairing, relay/state.py store_result). *)
THEOREM SavedStored == Spec => []SavedIsStored
<1>1. IInv => SavedIsStored
  BY DEF IInv, Types, SavedInv, SavedIsStored
<1> QED
  BY <1>1, Invariance, PTL

(* A pairing the controller reports as approved is complete at the PC and, *)
(* while it knows the device, at the relay (pairing.py).                   *)
THEOREM ApprovedComplete == Spec => []ApprovedIsComplete
<1>1. IInv => ApprovedIsComplete
  BY DEF IInv, Ownership, Relied, Stored, ApprovedIsComplete
<1> QED
  BY <1>1, Invariance, PTL

-----------------------------------------------------------------------------
(* Pairing keeps the promise of Introduction.  Visible there are the step  *)
(* that stores a pair, the window that is gone unused and the phone that   *)
(* saves its pair.                                                         *)
Visible == <<owner, closed, Saved>>

LEMMA SameSaved ==
    ASSUME \A f \in Phones : phones'[f].saved = phones[f].saved
    PROVE  Saved' = Saved
BY DEF Saved

LEMMA MoreSaved ==
    ASSUME NEW f \in Phones, NEW i, NEW t,
           phones'[f].saved = phones[f].saved \cup {<<i, t>>},
           \A g \in Phones : g # f => phones'[g].saved = phones[g].saved
    PROVE  Saved' = Saved \cup {<<i, <<f, t>>>>}
<1>1. ASSUME NEW x \in Saved'
      PROVE  x \in Saved \cup {<<i, <<f, t>>>>}
  <2>0. PICK g \in Phones : \E s \in phones'[g].saved : x = <<s[1], <<g, s[2]>>>>
    BY <1>1 DEF Saved
  <2>1. PICK s \in phones'[g].saved : x = <<s[1], <<g, s[2]>>>>
    BY <2>0
  <2>2. CASE s \in phones[g].saved
    BY <2>1, <2>2 DEF Saved
  <2>3. CASE s \notin phones[g].saved
    <3>1. g = f /\ s = <<i, t>>
      BY <2>1, <2>3
    <3> QED
      BY <2>1, <3>1
  <2> QED
    BY <2>2, <2>3
<1>2. ASSUME NEW x \in Saved
      PROVE  x \in Saved'
  <2>0. PICK g \in Phones : \E s \in phones[g].saved : x = <<s[1], <<g, s[2]>>>>
    BY <1>2 DEF Saved
  <2>1. PICK s \in phones[g].saved : x = <<s[1], <<g, s[2]>>>>
    BY <2>0
  <2>2. s \in phones'[g].saved
    BY <2>1
  <2> QED
    BY <2>1, <2>2 DEF Saved
<1>3. <<i, <<f, t>>>> \in Saved'
  <2>1. PICK s : s = <<i, t>>
    OBVIOUS
  <2>2. s \in phones'[f].saved
    BY <2>1
  <2>3. <<s[1], <<f, s[2]>>>> \in Saved'
    BY <2>2 DEF Saved
  <2> QED
    BY <2>1, <2>3
<1> QED
  BY <1>1, <1>2, <1>3

LEMMA PersistIsVisible ==
    ASSUME IInv, NEW ok \in BOOLEAN, Persist(ok)
    PROVE  [Promise!Next]_Visible
<1>1. /\ pc.stage = "persist" /\ pc.id \in PairIds /\ owner[pc.id] = None
      /\ pc.request \in Requests
  BY DEF Persist, IInv, Types, TypeOK, Progress, Ownership, PcState
<1>2. pc.id \notin closed
  BY <1>1 DEF IInv, ClosedInv
<1>3. UNCHANGED closed /\ Saved' = Saved
  BY SameSaved DEF Persist
<1>4. CASE ok
  <2>1. owner' = [owner EXCEPT ![pc.id] = pc.request]
    BY <1>4 DEF Persist
  <2>2. Promise!Store(pc.id, pc.request)
    BY <1>1, <1>2, <1>3, <2>1 DEF Promise!Store
  <2> QED
    BY <1>1, <2>2 DEF Promise!Next
<1>5. CASE ~ok
  BY <1>3, <1>5 DEF Persist, Visible
<1> QED
  BY <1>4, <1>5

LEMMA WindowGoneIsVisible ==
    ASSUME IInv, WindowGone
    PROVE  [Promise!Next]_Visible
<1>1. UNCHANGED owner /\ Saved' = Saved
  BY SameSaved DEF WindowGone
<1>2. CASE closed' = closed \cup {pc.id}
  <2>1. pc.id \in PairIds /\ owner[pc.id] = None
    BY DEF WindowGone, IInv, Types, Progress, Ownership, PcState
  <2>2. Promise!Close(pc.id)
    BY <1>1, <1>2, <2>1 DEF Promise!Close
  <2> QED
    BY <2>1, <2>2 DEF Promise!Next
<1>3. CASE closed' = closed
  BY <1>1, <1>3 DEF Visible
<1> QED
  BY <1>2, <1>3 DEF WindowGone

LEMMA PollResultIsVisible ==
    ASSUME IInv, NEW f \in Phones, NEW ok \in BOOLEAN, PollResult(f, ok)
    PROVE  [Promise!Next]_Visible
<1> USE DEF IInv
<1>1. PICK i, t : i = phones[f].id /\ t = phones[f].try
  OBVIOUS
<1>2. phones[f] \in PhoneState /\ phones \in [Phones -> PhoneState] /\ i \in PairIds
  BY <1>1, PageFields DEF Types, PollResult
<1>3. PICK req : req = [do |-> "read_result", id |-> i]
  OBVIOUS
<1>4. req \in Reading /\ req.id = i
  BY <1>2, <1>3 DEF Reading
<1>5. PICK x \in Exchanges(req) :
        /\ Happens(x)
        /\ phones' =
            CASE x.code = "result_available" /\ SameKey(relay.pairings[i].result, f) /\ ok ->
                    [phones EXCEPT ![f].at = "idle", ![f].saved = @ \cup {<<i, phones[f].try>>}]
              [] x.code = "waiting_for_pc" -> phones
              [] OTHER -> [phones EXCEPT ![f].at = "error"]
        /\ UNCHANGED <<left, store, pc, used, closed, owner>>
  BY <1>1, <1>3 DEF PollResult
<1>6. CASE x.code = "result_available" /\ SameKey(relay.pairings[i].result, f) /\ ok
  <2>1. relay.pairings[i] # None /\ relay.pairings[i].result # None
    BY <1>4, <1>5, <1>6, Exchanged, ReadEffect
  <2>2. owner[i] = <<f, t>> /\ owner[i] # None
    BY <1>1, <1>2, <1>6, <2>1 DEF Routes, SameKey
  <2>3. <<f, t>> \in Requests
    BY <1>2, <2>2 DEF Types, TypeOK
  <2>4. PICK saved : saved = phones[f].saved \cup {<<i, t>>}
    OBVIOUS
  <2> DEFINE p == [phones[f] EXCEPT !.at = "idle", !.saved = saved]
  <2>5. phones' = [phones EXCEPT ![f] = p]
    BY <1>1, <1>2, <1>5, <1>6, <2>4
  <2>6. p.saved = saved
    BY <1>2 DEF PhoneState
  <2> HIDE DEF p
  <2>7. phones'[f].saved = saved /\ \A g \in Phones : g # f => phones'[g] = phones[g]
    BY <1>2, <2>5, <2>6
  <2>8. Saved' = Saved \cup {<<i, <<f, t>>>>}
    BY <2>4, <2>7, MoreSaved
  <2>9. Promise!Save(i, <<f, t>>)
    BY <1>5, <2>2, <2>8 DEF Promise!Save
  <2> QED
    BY <1>2, <2>3, <2>9 DEF Promise!Next
<1>7. CASE ~(x.code = "result_available" /\ SameKey(relay.pairings[i].result, f) /\ ok)
  <2>1. phones' = phones \/ phones' = [phones EXCEPT ![f].at = "error"]
    BY <1>5, <1>7
  <2>2. \A g \in Phones : phones'[g].saved = phones[g].saved
    BY <1>2, <2>1 DEF PhoneState
  <2> QED
    BY <1>5, <2>2, SameSaved DEF Visible
<1> QED
  BY <1>6, <1>7

(* The other steps of a page keep what the phone has saved. *)
LEMMA PageIsInvisible ==
    ASSUME IInv, NEW f \in Phones,
           Scan(f) \/ Leave(f) \/ GiveUp(f) \/ SubmitRequest(f)
    PROVE  UNCHANGED Visible
<1>1. phones \in [Phones -> PhoneState]
  BY DEF IInv, Types
<1>2. UNCHANGED <<owner, closed>>
  BY DEF Scan, Leave, GiveUp, SubmitRequest
<1>3. ASSUME NEW p, phones' = [phones EXCEPT ![f] = p], p.saved = phones[f].saved
      PROVE  \A g \in Phones : phones'[g].saved = phones[g].saved
  BY <1>1, <1>3
<1>4. \E p : phones' = [phones EXCEPT ![f] = p] /\ p.saved = phones[f].saved
  <2>1. phones[f] \in PhoneState
    BY <1>1
  <2>2. CASE Scan(f)
    <3> DEFINE p == [phones[f] EXCEPT !.at = "scanned", !.id = pc.id]
    <3>1. phones' = [phones EXCEPT ![f] = p]
      BY <1>1, <2>2 DEF Scan
    <3>2. p.saved = phones[f].saved
      BY <2>1 DEF PhoneState
    <3> QED
      BY <3>1, <3>2
  <2>3. CASE Leave(f)
    <3> DEFINE p == [phones[f] EXCEPT !.at = "idle", !.id = None]
    <3>1. phones' = [phones EXCEPT ![f] = p]
      BY <1>1, <2>3 DEF Leave
    <3>2. p.saved = phones[f].saved
      BY <2>1 DEF PhoneState
    <3> QED
      BY <3>1, <3>2
  <2>4. CASE GiveUp(f)
    <3> DEFINE p == [phones[f] EXCEPT !.at = "error"]
    <3>1. phones' = [phones EXCEPT ![f] = p]
      BY <1>1, <2>4 DEF GiveUp
    <3>2. p.saved = phones[f].saved
      BY <2>1 DEF PhoneState
    <3> QED
      BY <3>1, <3>2
  <2>5. CASE SubmitRequest(f)
    <3>1. PICK at \in {"polling", "error"} :
            phones' = [phones EXCEPT ![f].try = @ + 1, ![f].at = at]
      BY <2>5 DEF SubmitRequest
    <3>2. PICK t : t = phones[f].try + 1
      OBVIOUS
    <3> DEFINE p == [phones[f] EXCEPT !.try = t, !.at = at]
    <3>3. phones' = [phones EXCEPT ![f] = p]
      BY <1>1, <3>1, <3>2
    <3>4. p.saved = phones[f].saved
      BY <2>1 DEF PhoneState
    <3> QED
      BY <3>3, <3>4
  <2> QED
    BY <2>2, <2>3, <2>4, <2>5
<1>5. Saved' = Saved
  BY <1>3, <1>4, SameSaved
<1> QED
  BY <1>2, <1>5 DEF Visible

(* Pairing implements Introduction: one request a session at most, none    *)
(* after its window's task was over unused, and a phone saves what the PC  *)
(* stored for its key (pairing_controller.py, pairing.py, relay/state.py). *)
THEOREM PairingIntroduces == Spec => IntroductionSpec
<1>1. Init => Promise!Init
  <2> SUFFICES ASSUME Init PROVE Promise!Init
    OBVIOUS
  <2>1. \A f \in Phones : phones[f].saved = {}
    BY DEF Init
  <2>2. Saved = {}
    BY <2>1 DEF Saved
  <2> QED
    BY <2>2 DEF Init, Promise!Init
<1>2. ASSUME IInv, [Next]_vars PROVE [Promise!Next]_Visible
  <2>1. ASSUME UNCHANGED <<phones, closed, owner>> PROVE [Promise!Next]_Visible
    BY <2>1, SameSaved DEF Visible
  <2>2. CASE Controller
    <3>1. CASE \E ok \in BOOLEAN : Persist(ok)
      BY <1>2, <3>1, PersistIsVisible
    <3>2. CASE UNCHANGED <<phones, closed, owner>>
      BY <2>1, <3>2
    <3> QED
      BY <2>2, <3>1, <3>2 DEF Controller, RegisterDevice, OpenPairing, PollRequest, Cancel,
         RegisterRoute, Publish, Revoke, StopPolling, Decide, Stopped, Awaited, Closed,
         ApproveTooLate
  <2>3. CASE WindowEnds \/ \E outcome \in {"cancelled", "failed"} : CloseWindow(outcome)
    <3>1. CASE WindowGone
      BY <1>2, <3>1, WindowGoneIsVisible
    <3>2. CASE \E outcome : CloseWindow(outcome)
      BY <2>1, <3>2 DEF CloseWindow
    <3> QED
      BY <2>3, <3>1, <3>2 DEF WindowEnds
  <2>4. ASSUME NEW f \in Phones, Phone(f) PROVE [Promise!Next]_Visible
    BY <1>2, <2>4, PageIsInvisible, PollResultIsVisible DEF Phone
  <2>5. CASE Begin \/ (\E req \in network : Arrive(req)) \/ RestartRelay \/ Tick
    BY <2>1, <2>5 DEF Begin, Arrive, RestartRelay, Tick
  <2>6. CASE UNCHANGED vars
    BY <2>1, <2>6 DEF vars
  <2> QED
    BY <1>2, <2>2, <2>3, <2>4, <2>5, <2>6 DEF Next
<1> QED
  BY <1>1, <1>2, Invariance, PTL DEF Spec, IntroductionSpec, Promise!Spec, Promise!vars, Visible
=============================================================================
