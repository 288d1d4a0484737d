----------------------------- MODULE PairingRelay -----------------------------
(***************************************************************************)
(* The pairing half of the local relay (relay/state.py and its handlers in *)
(* relay/app.py) as a function from its tables and a request to an answer  *)
(* and new tables: each handler reads its body first and then runs         *)
(* RelayState's method under its lock without awaiting, so that it is one  *)
(* step.  A token is its owner's; `left` is the time a session has left,   *)
(* -1 once the relay's clock is past expires_at.                           *)
(***************************************************************************)
EXTENDS PairStore, Integers

(* DeviceIds are the ones of PairStore; one of PairIds names a pairing     *)
(* session and the pair that comes of it.                                  *)
CONSTANTS
    Requests,     \* requests of phones, each with its own public key
    None

Route == [device: DeviceIds, request: Requests \cup {None},
          result: Requests \cup {None}, opened: BOOLEAN, cancelled: BOOLEAN]

Relay == [devices: SUBSET DeviceIds,
          pairings: [PairIds -> Route \cup {None}],
          pairs: SUBSET [id: PairIds, device: DeviceIds, revoked: BOOLEAN]]

EmptyRelay == [devices |-> {}, pairings |-> [i \in PairIds |-> None], pairs |-> {}]

(* _receiver_pairing and _require_active_pairing, for a device's request.  *)
ReceiverError(r, left, req) ==
    IF req.device \notin r.devices THEN "unauthorized"
    ELSE IF r.pairings[req.id] = None THEN "pairing_not_found"
    ELSE IF r.pairings[req.id].device # req.device THEN "pairing_not_found"
    ELSE IF left[req.id] < 0 THEN "pairing_expired"
    ELSE "ok"

(* _authenticated_pairing and _require_active_pairing, for a QR's holder.  *)
PhoneError(r, left, req) ==
    IF r.pairings[req.id] = None THEN "unauthorized"
    ELSE IF left[req.id] < 0 THEN "pairing_expired"
    ELSE "ok"

Refused(r, code) == [relay |-> r, code |-> code]

Done(r) == [relay |-> r, code |-> "ok"]

-----------------------------------------------------------------------------
CreateDevice(r, req) == Done([r EXCEPT !.devices = @ \cup {req.device}])

(* Routes that expired five minutes ago are pruned: `req.prune` of them.   *)
CreatePairing(r, left, req) ==
    IF req.device \notin r.devices THEN Refused(r, "unauthorized")
    ELSE Done([r EXCEPT !.pairings =
            [i \in PairIds |->
                IF i = req.id
                THEN [device |-> req.device, request |-> None, result |-> None,
                      opened |-> FALSE, cancelled |-> FALSE]
                ELSE IF req.prune /\ left[i] < 0 THEN None ELSE @[i]]])

MarkOpened(r, left, req) ==
    LET route == r.pairings[req.id] IN
    CASE PhoneError(r, left, req) # "ok" -> Refused(r, PhoneError(r, left, req))
      [] OTHER -> Done([r EXCEPT !.pairings[req.id] =
                           [route EXCEPT !.opened = @ \/ ~route.cancelled]])

(* Mutant: a phone may cancel what it has already used. *)
PhoneCancelAnytime(r, left, req) ==
    CASE PhoneError(r, left, req) # "ok" -> Refused(r, PhoneError(r, left, req))
      [] OTHER -> Done([r EXCEPT !.pairings[req.id] =
                           [@ EXCEPT !.opened = TRUE, !.cancelled = TRUE]])

PhoneCancel(r, left, req) ==
    IF PhoneError(r, left, req) # "ok" THEN Refused(r, PhoneError(r, left, req))
    ELSE IF r.pairings[req.id].request # None THEN Refused(r, "pairing_already_used")
    ELSE Done([r EXCEPT !.pairings[req.id] =
                  [@ EXCEPT !.opened = TRUE, !.cancelled = TRUE]])

Submit(r, left, req) ==
    LET route == r.pairings[req.id] IN
    IF PhoneError(r, left, req) # "ok" THEN Refused(r, PhoneError(r, left, req))
    ELSE IF route.cancelled THEN Refused(r, "pairing_cancelled")
    ELSE IF route.request # None THEN Refused(r, "pairing_already_used")
    ELSE Done([r EXCEPT !.pairings[req.id] = [route EXCEPT !.request = req.request]])

(* The PC's poll: the request, or what the browser has done so far.        *)
ReadRequest(r, left, req) ==
    LET route == r.pairings[req.id] IN
    IF ReceiverError(r, left, req) # "ok" THEN Refused(r, ReceiverError(r, left, req))
    ELSE IF route.request # None THEN Refused(r, "request_received")
    ELSE IF route.cancelled THEN Refused(r, "phone_cancelled")
    ELSE IF route.opened THEN Refused(r, "phone_opened")
    ELSE Refused(r, "waiting_for_phone")

CancelPairing(r, req) ==
    IF req.device \notin r.devices THEN Refused(r, "unauthorized")
    ELSE IF r.pairings[req.id] = None THEN Refused(r, "pairing_not_found")
    ELSE IF r.pairings[req.id].device # req.device THEN Refused(r, "pairing_not_found")
    ELSE Done([r EXCEPT !.pairings[req.id] = None])

(* The result must be for the phone whose request is stored.               *)
StoreResult(r, left, req) ==
    LET route == r.pairings[req.id] IN
    IF ReceiverError(r, left, req) # "ok" THEN Refused(r, ReceiverError(r, left, req))
    ELSE IF route.request = None THEN Refused(r, "pairing_request_missing")
    ELSE IF route.result # None THEN Refused(r, "pairing_already_used")
    ELSE IF route.request # req.request THEN Refused(r, "invalid_request")
    ELSE Done([r EXCEPT !.pairings[req.id] = [route EXCEPT !.result = req.request]])

ReadResult(r, left, req) ==
    IF PhoneError(r, left, req) # "ok" THEN Refused(r, PhoneError(r, left, req))
    ELSE IF r.pairings[req.id].result = None THEN Refused(r, "waiting_for_pc")
    ELSE Refused(r, "result_available")

(* A route of that name, even a revoked one, is replaced.                  *)
RegisterPair(r, req) ==
    IF req.device \notin r.devices THEN Refused(r, "unauthorized")
    ELSE Done([r EXCEPT !.pairs = {p \in @ : p.id # req.id}
                  \cup {[id |-> req.id, device |-> req.device, revoked |-> FALSE]}])

RevokePair(r, req) ==
    IF req.device \notin r.devices THEN Refused(r, "unauthorized")
    ELSE IF ~\E p \in r.pairs : p.id = req.id /\ p.device = req.device
    THEN Refused(r, "pair_not_found")
    ELSE Done([r EXCEPT !.pairs =
            {IF p.id = req.id THEN [p EXCEPT !.revoked = TRUE] ELSE p : p \in @}])

(* Which handler a request goes to. *)
Answer(r, left, req) ==
    CASE req.do = "create_device" -> CreateDevice(r, req)
      [] req.do = "create_pairing" -> CreatePairing(r, left, req)
      [] req.do = "opened" -> MarkOpened(r, left, req)
      [] req.do = "phone_cancel" -> PhoneCancel(r, left, req)
      [] req.do = "submit" -> Submit(r, left, req)
      [] req.do = "read_request" -> ReadRequest(r, left, req)
      [] req.do = "cancel" -> CancelPairing(r, req)
      [] req.do = "store_result" -> StoreResult(r, left, req)
      [] req.do = "read_result" -> ReadResult(r, left, req)
      [] req.do = "register_pair" -> RegisterPair(r, req)
      [] req.do = "revoke" -> RevokePair(r, req)
=============================================================================
