----------------------------- MODULE MCAccounts -----------------------------
(* Small instances of Accounts for TLC. *)
EXTENDS Accounts, TLC

MCSymmetry == Permutations(Ids) \cup Permutations(Emails)
                 \cup Permutations(Browsers) \cup Permutations(Calls)
=============================================================================
