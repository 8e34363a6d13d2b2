--------------------------- MODULE MCRemoteSession --------------------------
(* A remote session with two messages and a cancel, and one with a single   *)
(* message beside the observer, which no lock keeps from the commands.      *)
(* Together they meet every lifecycle state: the first session neither      *)
(* blocks nor finishes with a live writer, the second is not suspended and  *)
(* does not lose its writer at the end.                                     *)
EXTENDS RemoteObserver, TLC

VARIABLE scope

Symmetric == Permutations(Messages) \cup Permutations(Inputs)

Named(c) == IF "request" \in DOMAIN c THEN {c.request} ELSE {}
Stored(r) == IF r = NoRecord THEN {} ELSE Recorded(r)
SingleMessage == LET used == Named(cmd') \cup Stored(record') IN
                 used \subseteq Messages /\ Cardinality(used) <= 1

Sleeps == remote'.raw \notin {"blocked", "finished"}
Stays == remote'.raw \notin {"suspended", "exited"}

MCInit == ObserverInit /\ scope \in {"commands", "observed"}
MCNext == /\ UNCHANGED scope
          /\ \/ scope = "commands" /\ RunCommand /\ Sleeps
             \/ scope = "observed" /\ ObserverNext /\ SingleMessage /\ Stays
MCSpec == MCInit /\ [][MCNext]_<<vars, obs, retained, scope>>
=============================================================================
