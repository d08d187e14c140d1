----------------------------- MODULE MCPresence -----------------------------
(***************************************************************************)
(* Instances of Presence for TLC: every socket belongs to the one user.    *)
(* Users share no key but the set of those online, of which each task      *)
(* touches its own user only.                                              *)
(***************************************************************************)
EXTENDS Presence, TLC

CONSTANTS u1, s1, s2

MCUserOf == [s \in Sockets |-> u1]

=============================================================================
