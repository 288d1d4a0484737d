------------------------------ MODULE MCPairing ------------------------------
(* One phone that tries again, two phones with one code, one restart of the *)
(* relay; exchanges get lost in the first.                                  *)
EXTENDS Pairing

CONSTANTS a, b

MCRequests == Phones \X (1..MaxTries)

MCBudgets ==
    {[phones |-> {a}, tries |-> 2, restarts |-> 0, losses |-> 1],
     [phones |-> {a, b}, tries |-> 1, restarts |-> 0, losses |-> 0],
     [phones |-> {a}, tries |-> 1, restarts |-> 1, losses |-> 0]}
=============================================================================
