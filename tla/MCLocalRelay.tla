---------------------------- MODULE MCLocalRelay ----------------------------
(* A message sent twice and one altered on the way, over three sockets; two *)
(* devices; a clock that is off in either direction.                        *)
EXTENDS LocalRelay

CONSTANTS d1, d2, m1, m2, m3

MCDevice(m) == IF m = m3 THEN d2 ELSE d1

MCPost(id, m, intact) == [id |-> id, message |-> m, intact |-> intact]

MCRequests == {MCPost(1, m1, TRUE), MCPost(2, m1, TRUE), MCPost(3, m2, TRUE),
               MCPost(4, m2, FALSE), MCPost(5, m3, TRUE)}

MCScenario(ids, bound, skew, time, revocable) ==
    [requests |-> {r \in MCRequests : r.id \in ids}, sockets |-> bound,
     skew |-> skew, time |-> time, revocable |-> revocable]

MCScenarios ==
    {MCScenario({1, 2}, 2, 0, 0, FALSE), MCScenario({1, 3}, 3, 0, 0, FALSE),
     MCScenario({3, 4}, 1, 0, 0, TRUE), MCScenario({1, 5}, 2, 0, 0, FALSE),
     MCScenario({1, 2}, 2, 1, 2, FALSE), MCScenario({1, 2}, 1, -1, 1, FALSE), MCScenario({1, 2, 3}, 1, 0, 1, FALSE)}
=============================================================================
