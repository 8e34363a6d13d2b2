--------------------------- MODULE ExclusiveLease ---------------------------
(***************************************************************************)
(* What the orchestrator lease of one Git working copy promises, with no   *)
(* file, no lock and no caller: tenures follow one another in time, and a  *)
(* tenure that was promised until some instant is followed by another one  *)
(* before that instant only if it was ended on purpose.                    *)
(***************************************************************************)
EXTENDS Integers

CONSTANTS Sessions,   \* session ids
          Owners,     \* repository slug and orchestrator of a lease
          NoLease     \* no usable lease record

Lease == [session : Sessions, owner : Owners, acquired : Nat, expires : Nat]

\* A tenure is identified by who holds it and since when.
Id(l) == <<l.session, l.acquired>>

VARIABLES now,        \* wall-clock time
          tenure,     \* the current tenure
          promised,   \* the latest record handed out for every tenure so far
          ended       \* tenures released, taken over on purpose, or lost

vars == <<now, tenure, promised, ended>>

Init == /\ now = 0
        /\ tenure = NoLease
        /\ promised = {}
        /\ ended = {}

Pass == now' > now /\ UNCHANGED <<tenure, promised, ended>>

\* The record l is handed out: it replaces the promise of the same tenure.
Promise(l) == promised' = {p \in promised : Id(p) # Id(l)} \cup {l}

\* A session starts a tenure that is younger than every tenure before it. Only
\* a tenure that ran out may be replaced without being ended.
Begin == /\ tenure' \in Lease
         /\ \A p \in promised : p.acquired < tenure'.acquired
         /\ Promise(tenure')
         /\ \/ (UNCHANGED ended /\ (tenure # NoLease => tenure.expires <= now))
            \/ (tenure # NoLease /\ ended' = ended \cup {Id(tenure)})
         /\ UNCHANGED now

Extend == /\ tenure # NoLease
          /\ tenure' \in Lease
          /\ Id(tenure') = Id(tenure)
          /\ Promise(tenure')
          /\ UNCHANGED <<now, ended>>

Finish == /\ tenure # NoLease
          /\ tenure' = NoLease
          /\ \/ (tenure.expires <= now /\ UNCHANGED ended)
             \/ ended' = ended \cup {Id(tenure)}
          /\ UNCHANGED <<now, promised>>

Next == Pass \/ Begin \/ Extend \/ Finish

Spec == Init /\ [][Next]_vars
=============================================================================
