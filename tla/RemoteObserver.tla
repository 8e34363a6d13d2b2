--------------------------- MODULE RemoteObserver ---------------------------
(***************************************************************************)
(* RemoteSessions.observe beside the commands of RemoteSession: it takes   *)
(* no lock, so commands run between any two of its reads, and it may fall  *)
(* back to an observation its caller retained.                             *)
(***************************************************************************)
EXTENDS RemoteSession

VARIABLES obs,         \* the observation in progress
          retained     \* the last provider snapshot returned

GenerationOfBinding(r) == <<r.bound, [k \in Requests |-> "absent"]>>

\* What the observer compares when it reads the record again.
Generation(r) == <<r.bound, r.ops>>
Generations == BOOLEAN \X [Requests -> {"absent", "pending", "done"}]
NoSnapshot == [round |-> -1]
Snapshot == [generation : Generations, round : Nat]

ObserverInit == Init /\ obs = NoSnapshot /\ retained = NoSnapshot

-----------------------------------------------------------------------------
(* RemoteSessions.observe: read the record, read the provider, read the     *)
(* record again. Without a binding, or with a request unresolved, the       *)
(* provider is not read and nothing it says is returned.                    *)

ObserveRead == /\ obs = NoSnapshot /\ record # NoRecord
               /\ record.bound /\ NonePending(record)
               /\ obs' = [generation |-> Generation(record)]
               /\ UNCHANGED <<vars, retained>>

Reading == obs # NoSnapshot /\ DOMAIN obs = {"generation"}

\* A retained observation is used only for the generation it was made of.
Fallback(g) == retained # NoSnapshot /\ retained.generation = g

\* The provider answers, or fails and a retained snapshot of this generation
\* stands in for it.
ObserveGet == /\ Reading
              /\ \/ obs' = [generation |-> obs.generation, round |-> remote.round]
                 \/ (Fallback(obs.generation) /\ obs' = retained)
              /\ UNCHANGED <<vars, retained>>

ObserveFails == /\ obs # NoSnapshot
                /\ obs' = NoSnapshot
                /\ UNCHANGED <<vars, retained>>

ObserveReturn == /\ obs \in Snapshot
                 /\ Generation(record) = obs.generation
                 /\ retained' = obs
                 /\ obs' = NoSnapshot
                 /\ UNCHANGED vars
-----------------------------------------------------------------------------
RunCommand == Next /\ UNCHANGED <<obs, retained>>

ObserverNext == \/ RunCommand
                \/ ObserveRead \/ ObserveGet \/ ObserveFails \/ ObserveReturn

ObserverSpec == ObserverInit /\ [][ObserverNext]_<<vars, obs, retained>>
-----------------------------------------------------------------------------
\* The lock-free observer returns only what the provider says of its current
\* round, fresh or retained: commands that ran meanwhile are noticed.
ObservedRoundIsCurrent == [][ObserveReturn => retained'.round = remote.round]_<<vars, obs, retained>>
=============================================================================
