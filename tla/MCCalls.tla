------------------------------ MODULE MCCalls ------------------------------
(***************************************************************************)
(* Instances of Calls for TLC: the sets are model values, and users, rooms *)
(* and the slots of one kind are interchangeable in the safety runs (the   *)
(* liveness runs use no symmetry).                                         *)
(***************************************************************************)
EXTENDS CallsRefinement, TLC

Symmetry ==
    Permutations(Users) \cup Permutations(Rooms) \cup Permutations(Requests)

=============================================================================
