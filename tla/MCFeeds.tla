------------------------------ MODULE MCFeeds -------------------------------
(***************************************************************************)
(* The instance of Feeds for TLC.                                          *)
(***************************************************************************)
EXTENDS Feeds, TLC

Body(S, C) == [set |-> S, clear |-> C]

MCBodies ==
    [contacts |-> {Body({"isMuted"}, {}), Body({}, {"isMuted"})},
     blocks |-> {Body({"isBlocked"}, {}), Body({}, {"isBlocked"}), Body({"isMuted"}, {})}]

MCClock == [p \in Parts |-> IF p = "contacts" THEN 2 ELSE 3]

MCSymmetry == Permutations(Peers) \cup Permutations(Requests)

=============================================================================
