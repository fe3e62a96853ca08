------------------------------ MODULE MCAccounts ------------------------------
EXTENDS Accounts, TLC
Symmetric == Permutations(Worker) \cup Permutations(Name)
=============================================================================
