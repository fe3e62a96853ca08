----------------------------- MODULE MCDescriptors ----------------------------
EXTENDS Descriptors, TLC
Symmetric == Permutations(Client) \cup Permutations(Worker)
=============================================================================
