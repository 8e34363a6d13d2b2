--------------------------- MODULE MCSessionLease ---------------------------
(* Two sessions of one repository and two processes; symmetric.            *)
EXTENDS SessionLease, TLC

Symmetric == Permutations(Sessions) \cup Permutations(Callers)
=============================================================================
