----------------------------- MODULE MCAccounts -----------------------------
(***************************************************************************)
(* Instances of Accounts for TLC.                                           *)
(***************************************************************************)
EXTENDS Accounts, TLC

MCScenarios == {{"register", "updateProfile"},
                {"register", "signIn", "changePassword", "deleteAccount", "logout"},
                {"register", "signIn", "deleteAccount", "saveToken", "deleteToken", "insertDocument"}}

MCSymmetry == Permutations(Ids) \cup Permutations(Sids) \cup Permutations(Names)
                \cup Permutations(Passwords) \cup Permutations(Requests)

=============================================================================
