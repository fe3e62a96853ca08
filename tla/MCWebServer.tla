------------------------------ MODULE MCWebServer -----------------------------
EXTENDS WebServer, TLC
Symmetric == Permutations(Conn) \cup Permutations(Fd) \cup Permutations(Worker)
=============================================================================
