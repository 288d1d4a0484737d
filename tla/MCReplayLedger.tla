--------------------------- MODULE MCReplayLedger ---------------------------
(***************************************************************************)
(* Two receiver processes, three messages of which one expires early, and  *)
(* room for two records.                                                   *)
(***************************************************************************)
EXTENDS ReplayLedger, TLC

CONSTANTS p1, p2, m1, m2, m3

MCProcess == {p1, p2}
MCMessage == {m1, m2, m3}
MCExpiry == (m1 :> 1) @@ (m2 :> 3) @@ (m3 :> 2)
=============================================================================
