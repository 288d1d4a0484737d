---------------------------- MODULE MCCameraScan ----------------------------
(* An easy code beside a hard one and two easy ones, kept open; a text and *)
(* a link with exit after the first report.                                *)
EXTENDS CameraScan

CONSTANTS c1, c2, c3

MCPass(c) == IF c = c3 THEN 3 ELSE 1

MCScenes ==
    {[codes |-> {c1, c3}, texts |-> {}, exit |-> FALSE, changes |-> 1, failures |-> 0],
     [codes |-> {c1, c2}, texts |-> {c2}, exit |-> FALSE, changes |-> 1, failures |-> 0],
     [codes |-> {c1}, texts |-> {}, exit |-> FALSE, changes |-> 2, failures |-> 1],
     [codes |-> {c2, c3}, texts |-> {c2}, exit |-> TRUE, changes |-> 0, failures |-> 1]}
=============================================================================
