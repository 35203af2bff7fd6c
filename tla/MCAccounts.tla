----------------------------- MODULE MCAccounts -----------------------------
(* TLC instances of Accounts                                                 *)
EXTENDS Accounts, TLC

Symmetric == Permutations(Proc) \cup Permutations(Obj)

=============================================================================
