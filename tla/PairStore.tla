------------------------------ MODULE PairStore ------------------------------
(***************************************************************************)
(* What the protected credential file of the PC holds (secure_storage.py): *)
(* the relay devices, at most one for each relay origin, and the paired    *)
(* phones of each device; and what each transaction of PairingStore makes  *)
(* of it.  A token, a key or a label is its owner's identity; the order in *)
(* which the file lists its entries is left out.                           *)
(***************************************************************************)
CONSTANTS
    Origins,    \* relay origins, normalized
    DeviceIds,  \* device identities the relays gave out
    PairIds,    \* pair identities
    Sessions,   \* Realtime sessions: all four fields present and valid
    NoSession   \* all four fields absent

Device == [origin: Origins, id: DeviceIds, session: Sessions \cup {NoSession}]

Pair == [origin: Origins, device: DeviceIds, id: PairIds]

Store == [devices: SUBSET Device, pairs: SUBSET Pair]

EmptyStore == [devices |-> {}, pairs |-> {}]

DeviceFor(store, o) == {d \in store.devices : d.origin = o}

PairsFor(store, o) == {p \in store.pairs : p.origin = o}

KnownDevice(store, p) ==
    \E d \in store.devices : d.origin = p.origin /\ d.id = p.device

(* What load accepts of a file whose entries are valid. *)
WellFormed(store) ==
    /\ \A d, e \in store.devices : d.origin = e.origin => d = e
    /\ \A p, q \in store.pairs : p.origin = q.origin /\ p.id = q.id => p = q
    /\ \A p \in store.pairs : KnownDevice(store, p)

-----------------------------------------------------------------------------
(* A transaction is allowed or raises SecureStorageError before it saves. *)

MayReplaceDevice(store, d, clear) ==
    \/ clear
    \/ PairsFor(store, d.origin) = {}
    \/ \A e \in DeviceFor(store, d.origin) : e.id = d.id

ReplaceDevice(store, d, clear) ==
    [devices |-> {e \in store.devices : e.origin # d.origin} \cup {d},
     pairs |-> IF clear THEN {p \in store.pairs : p.origin # d.origin} ELSE store.pairs]

AddPair(store, pair) ==
    [store EXCEPT !.pairs =
        {p \in @ : ~(p.origin = pair.origin /\ p.id = pair.id)} \cup {pair}]

RemovePair(store, o, id) ==
    [store EXCEPT !.pairs = {p \in @ : ~(p.origin = o /\ p.id = id)}]

(* The session goes to the device that has the origin now. *)
UpdateSession(store, o, session) ==
    [store EXCEPT !.devices =
        {IF d.origin = o THEN [d EXCEPT !.session = session] ELSE d : d \in @}]

-----------------------------------------------------------------------------
Transactions ==
    [do: {"load"}]
    \cup [do: {"replace_device"}, device: Device, clear: BOOLEAN]
    \cup [do: {"add_pair"}, pair: Pair]
    \cup [do: {"remove_pair"}, origin: Origins, id: PairIds]
    \cup [do: {"update_session"}, origin: Origins, session: Sessions]

(* Mutant: a new device keeps the pairs of the old one. *)
AllowedCareless(tx, store) ==
    /\ tx.do = "add_pair" => KnownDevice(store, tx.pair)
    /\ tx.do = "update_session" => DeviceFor(store, tx.origin) # {}

Allowed(tx, store) ==
    /\ tx.do = "replace_device" => MayReplaceDevice(store, tx.device, tx.clear)
    /\ tx.do = "add_pair" => KnownDevice(store, tx.pair)
    /\ tx.do = "update_session" => DeviceFor(store, tx.origin) # {}

Outcome(tx, store) ==
    CASE tx.do = "load" -> store
      [] tx.do = "replace_device" -> ReplaceDevice(store, tx.device, tx.clear)
      [] tx.do = "add_pair" -> AddPair(store, tx.pair)
      [] tx.do = "remove_pair" -> RemovePair(store, tx.origin, tx.id)
      [] tx.do = "update_session" -> UpdateSession(store, tx.origin, tx.session)
=============================================================================
