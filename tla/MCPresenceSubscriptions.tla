---------------------- MODULE MCPresenceSubscriptions ----------------------
(***************************************************************************)
(* Instances of PresenceSubscriptions for TLC: ann watches bob (and, as a   *)
(* client may ask, herself).  Bob comes and goes, his server dies; or Ann's *)
(* does; or both come and go, and nobody dies.                              *)
(***************************************************************************)
EXTENDS PresenceSubscriptions, TLC

CONSTANTS ann, bob, a1, b1

MCUserOf == [s \in Sockets |-> IF s = a1 THEN ann ELSE bob]
MCWants == [s \in Sockets |-> IF s = a1 THEN {ann, bob} ELSE {}]
MCScenarios == {[leave |-> {b1}, return |-> {b1}, die |-> {b1}],
                [leave |-> {a1}, return |-> {a1}, die |-> {a1}],
                [leave |-> {a1, b1}, return |-> {b1}, die |-> {}]}

=============================================================================
