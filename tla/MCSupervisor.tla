---------------------------- MODULE MCSupervisor ----------------------------
(***************************************************************************)
(* What runs unattended on a host: the supervisor of a session             *)
(* (Supervisor), the managed service of a Board (BoardService) and an      *)
(* audit of a pull request (AuditReview).  A behaviour is of one of them   *)
(* and "scope" says which.                                                 *)
(***************************************************************************)
EXTENDS Supervisor, BoardService, AuditReview, TLC

ASSUME ServiceAssumption /\ ReviewAssumption

VARIABLE scope

HostInit ==
    /\ scope \in {"supervisor", "service", "review"}
    /\ scope = "service" \/ (plist = None /\ job = None /\ other = FALSE)
    /\ scope = "review" \/ base = 0
    /\ Init /\ ServiceInit /\ ReviewInit
HostNext ==
    \/ scope = "supervisor" /\ Next /\ UNCHANGED <<scope, serviceVars, reviewVars>>
    \/ scope = "service" /\ ServiceNext /\ UNCHANGED <<scope, vars, reviewVars>>
    \/ scope = "review" /\ ReviewNext /\ UNCHANGED <<scope, vars, serviceVars>>
HostSpec == HostInit /\ [][HostNext]_<<scope, vars, serviceVars, reviewVars>>

Symmetry == Permutations(Heads) \cup Permutations(Keys)
=============================================================================
