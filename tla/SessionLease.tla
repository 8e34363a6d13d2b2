---------------------------- MODULE SessionLease ----------------------------
(***************************************************************************)
(* The mutating orchestrator lease of one Git working copy: the commands   *)
(* of session_lease.py, the startup of session.py that takes the lease and *)
(* saves the brief, and `session show --current` of session_current.py.    *)
(* A command is a process (a caller) that takes the lock file, samples the *)
(* clock, reads the lease file, decides, and publishes with os.replace or  *)
(* removes the file; it may be killed between any two of these steps.      *)
(*                                                                         *)
(* A lease file that is missing, malformed or of a foreign schema is       *)
(* NoLease: read_lease treats them alike.                                  *)
(***************************************************************************)
EXTENDS Integers

CONSTANTS Sessions,   \* session ids
          Owners,     \* repository slug and orchestrator of a lease
          Callers,    \* processes that run lease commands
          NoLease,    \* no usable lease record
          NoCaller,   \* nobody holds the lock file
          TTLs,       \* lease durations a caller may ask for
          MaxTime,    \* bound on the clock
          MaxFaults   \* bound on corruptions and unreadable files

Lease == [session : Sessions, owner : Owners, acquired : Nat, expires : Nat]

ASSUME LeaseAssumption == /\ NoLease \notin Lease
                          /\ NoCaller \notin Callers
                          /\ TTLs # {} /\ TTLs \subseteq Nat \ {0}

VARIABLES clock,      \* the wall clock; every sample under the lock differs
          file,       \* .code-mower/orchestrator-lease.json
          lock,       \* holder of the flock on the lock file beside it
          call,       \* the command each caller is running
          briefs,     \* saved briefs: session and the owner it was started for
          reply,      \* the lease `session show --current` reported as current
          faults,     \* environment faults so far
          promised,   \* history: latest record written for every tenure
          ended,      \* history: tenures released, forced out or lost
          interim     \* history: tenures in the file since a first lock-free read

leaseVars == <<clock, file, lock, call, briefs, reply, faults, promised, ended, interim>>
history == <<promised, ended>>

\* A tenure of the lease: `_same_lease` and the history call leases with the
\* same session and acquired_at one tenure.
Id(l) == <<l.session, l.acquired>>
IdIn(f) == IF f = NoLease THEN {} ELSE {Id(f)}

Ops == {"start", "acquire", "renew", "release", "current"}
LeaseSteps == {"waiting", "locked", "read", "saving", "first"}
Idle == [step |-> "idle"]
Call == [op : Ops, step : LeaseSteps, session : Sessions, owner : Owners, ttl : TTLs,
         force : BOOLEAN, moment : Nat, seen : Lease \cup {NoLease}, blind : BOOLEAN]

LeaseTypeOK == /\ clock \in Nat
               /\ file \in Lease \cup {NoLease}
               /\ lock \in Callers \cup {NoCaller}
               /\ call \in [Callers -> Call \cup {Idle}]
               /\ briefs \in SUBSET (Sessions \X Owners)
               /\ reply \in [Callers -> Lease \cup {NoLease}]
               /\ faults \in Nat
               /\ promised \in SUBSET Lease
               /\ ended \in SUBSET (Sessions \X Nat)
               /\ interim \in [Callers -> SUBSET (Sessions \X Nat)]

LeaseInit == /\ clock = 0
             /\ file = NoLease
             /\ lock = NoCaller
             /\ call = [c \in Callers |-> Idle]
             /\ briefs = {}
             /\ reply = [c \in Callers |-> NoLease]
             /\ faults = 0
             /\ promised = {}
             /\ ended = {}
             /\ interim = [c \in Callers |-> {}]
-----------------------------------------------------------------------------
(* Reading and classifying a lease.                                        *)

\* lease_state(record, now) = STATE_HELD.
HeldAt(l, t) == l # NoLease /\ l.expires > t

\* held_by_us of acquire_lease.
HeldByUs(k) == HeldAt(k.seen, k.moment) /\ k.seen.session = k.session

\* Mutant: the expiry boundary is off by one and a lease runs out a tick early.
RefusedEarlyExpiry(k) == HeldAt(k.seen, k.moment + 1) /\ k.seen.session # k.session /\ ~k.force

\* A live lease of another session stands in the way of acquire and release.
Refused(k) == HeldAt(k.seen, k.moment) /\ k.seen.session # k.session /\ ~k.force

\* Mutant: the tenure is forgotten, any lease of the session will do.
SameLeaseBySession(a, b) == a.session = b.session /\ a.owner = b.owner

\* The owner renewing in place is still the same lease; anything else is not.
SameLease(a, b) == Id(a) = Id(b) /\ a.owner = b.owner

\* A session id is a fresh uuid when `session start` runs.
FreshSession(s) == /\ \A p \in promised : p.session # s
                   /\ \A c \in Callers : call[c] # Idle => call[c].session # s
-----------------------------------------------------------------------------
(* Taking the lock and reading under it.                                   *)

\* Mutant: no lock is taken around read, decide and write.
LockAlwaysFree == TRUE

\* The lock file is free for this caller: flock grants LOCK_EX to one holder.
LockFree == lock = NoCaller

\* A caller starts a command and opens the lock file.
Invoke(c, op, s, o, d, f) ==
    /\ call[c] = Idle
    /\ op # "current"
    /\ op = "start" => FreshSession(s)
    /\ op = "renew" => ~f
    /\ call' = [call EXCEPT ![c] = [op |-> op, step |-> "waiting", session |-> s,
                                    owner |-> o, ttl |-> d, force |-> f,
                                    moment |-> 0, seen |-> NoLease, blind |-> FALSE]]
    /\ reply' = [reply EXCEPT ![c] = NoLease]
    /\ interim' = [interim EXCEPT ![c] = {}]
    /\ UNCHANGED <<clock, file, lock, briefs, faults, history>>

\* The flock is granted and the clock is sampled; two samples taken under the
\* lock are never equal.
TakeLock(c) ==
    /\ call[c] # Idle
    /\ call[c].step = "waiting"
    /\ LockFree
    /\ clock < MaxTime
    /\ clock' = clock + 1
    /\ lock' = c
    /\ call' = [call EXCEPT ![c].step = "locked", ![c].moment = clock']
    /\ UNCHANGED <<file, briefs, reply, faults, history, interim>>

\* The bounded wait for the lock ends in SessionLeaseError. The cleanup of a
\* failed start swallows it.
LockTimeout(c) ==
    /\ call[c] # Idle
    /\ call[c].step = "waiting"
    /\ lock # NoCaller
    /\ call' = [call EXCEPT ![c] = Idle]
    /\ UNCHANGED <<clock, file, lock, briefs, reply, faults, history, interim>>

ReadLease(c) ==
    /\ call[c] # Idle
    /\ call[c].step = "locked"
    /\ call' = [call EXCEPT ![c].step = "read", ![c].seen = file]
    /\ UNCHANGED <<clock, file, lock, briefs, reply, faults, history, interim>>

\* An unreadable file (OSError) reads as absent, whatever it holds.
ReadUnreadable(c) ==
    /\ call[c] # Idle
    /\ call[c].step = "locked"
    /\ file # NoLease
    /\ faults < MaxFaults
    /\ faults' = faults + 1
    /\ call' = [call EXCEPT ![c].step = "read", ![c].blind = TRUE]
    /\ UNCHANGED <<clock, file, lock, briefs, reply, history, interim>>

\* Where a command goes once it drops the lock: a starting session saves its
\* brief, every other command has returned.
SavingCall(k) == [k EXCEPT !.step = "saving", !.force = FALSE, !.moment = 0,
                           !.seen = NoLease, !.blind = FALSE]
AfterLock(k) == IF k.op = "start" THEN SavingCall(k) ELSE Idle

LeaveLock(c, k) == lock' = NoCaller /\ call' = [call EXCEPT ![c] = k]
-----------------------------------------------------------------------------
(* Deciding, publishing and dropping the lock. Nobody else can tell the    *)
(* os.replace from the unlock that follows it, so they are one step.       *)

\* The current tenure ends on purpose: its own session or an owner's force put
\* something else in its place, or the caller could not see it.
EndsTenure(c, n) ==
    LET k == call[c]
        deliberate == k.force \/ k.blind \/ (file # NoLease /\ file.session = k.session)
    IN  ended' = IF IdIn(file) # IdIn(n) /\ deliberate THEN ended \cup IdIn(file) ELSE ended

Watch(n) == interim' = [c \in Callers |->
                          IF call[c] # Idle /\ call[c].step = "first"
                          THEN interim[c] \cup IdIn(n) ELSE interim[c]]

\* os.replace of the lease file by the record l.
Publish(c, l) ==
    /\ file' = l
    /\ promised' = {p \in promised : Id(p) # Id(l)} \cup {l}
    /\ EndsTenure(c, l)
    /\ Watch(l)

\* Mutant: the lifetime is taken off the moment of acquisition.
ExpiryBackwards(k) == k.moment - k.ttl

\* moment + timedelta(minutes=ttl_minutes)
Expiry(k) == k.moment + k.ttl

AcquiredAt(k) == IF HeldByUs(k) THEN k.seen.acquired ELSE k.moment

Acquire(c) ==
    LET k == call[c] IN
    /\ k # Idle
    /\ k.step = "read" /\ k.op \in {"start", "acquire"}
    /\ ~Refused(k)
    /\ Publish(c, [session |-> k.session, owner |-> k.owner, acquired |-> AcquiredAt(k),
                   expires |-> Expiry(k)])
    /\ LeaveLock(c, AfterLock(k))
    /\ UNCHANGED <<clock, briefs, reply, faults>>


\* An expired lease is never renewed, nor one of another session.
MayRenew(k) == HeldByUs(k)

Renew(c) ==
    LET k == call[c] IN
    /\ k # Idle
    /\ k.step = "read" /\ k.op = "renew"
    /\ MayRenew(k)
    /\ Publish(c, [k.seen EXCEPT !.expires = Expiry(k)])
    /\ LeaveLock(c, AfterLock(k))
    /\ UNCHANGED <<clock, briefs, reply, faults>>

Release(c) ==
    LET k == call[c] IN
    /\ k # Idle
    /\ k.step = "read" /\ k.op = "release"
    /\ ~Refused(k)
    /\ file' = NoLease
    /\ EndsTenure(c, NoLease)
    /\ Watch(NoLease)
    /\ LeaveLock(c, AfterLock(k))
    /\ UNCHANGED <<clock, briefs, reply, faults, promised>>

\* The command raises SessionLeaseError and leaves the lease file alone.
Refuse(c) ==
    LET k == call[c] IN
    /\ k # Idle
    /\ k.step = "read"
    /\ IF k.op = "renew" THEN ~MayRenew(k) ELSE Refused(k)
    /\ LeaveLock(c, Idle)
    /\ UNCHANGED <<clock, file, briefs, reply, faults, history, interim>>
-----------------------------------------------------------------------------
(* Startup: the brief is saved after the lease was taken.                  *)

SaveBrief(c) ==
    LET k == call[c] IN
    /\ k # Idle
    /\ k.step = "saving"
    /\ briefs' = briefs \cup {<<k.session, k.owner>>}
    /\ call' = [call EXCEPT ![c] = Idle]
    /\ UNCHANGED <<clock, file, lock, reply, faults, history, interim>>

\* The brief could not be written: the lease this start took is released
\* without force, so a session that took it over meanwhile keeps it.
CleanupCall(k) == [k EXCEPT !.op = "release", !.step = "waiting", !.force = FALSE,
                            !.seen = NoLease, !.blind = FALSE]

SaveFails(c) ==
    /\ call[c] # Idle
    /\ call[c].step = "saving"
    /\ faults < MaxFaults
    /\ faults' = faults + 1
    /\ call' = [call EXCEPT ![c] = CleanupCall(call[c])]
    /\ UNCHANGED <<clock, file, lock, briefs, reply, history, interim>>
-----------------------------------------------------------------------------
(* session show --current: two lock-free reads around the brief.           *)

FirstRead(c) ==
    /\ call[c] = Idle
    /\ HeldAt(file, clock)
    /\ call' = [call EXCEPT ![c] = [op |-> "current", step |-> "first", session |-> file.session,
                                    owner |-> file.owner, ttl |-> CHOOSE d \in TTLs : TRUE,
                                    force |-> FALSE, moment |-> clock, seen |-> file,
                                    blind |-> FALSE]]
    /\ interim' = [interim EXCEPT ![c] = IdIn(file)]
    /\ reply' = [reply EXCEPT ![c] = NoLease]
    /\ UNCHANGED <<clock, file, lock, briefs, faults, history>>

\* Current only if the brief matches the lease of the first read, and the
\* second read finds the same lease still live.
SecondRead(c) ==
    LET k == call[c] IN
    /\ k # Idle
    /\ k.step = "first"
    /\ reply' = [reply EXCEPT ![c] =
                   IF /\ <<k.session, k.owner>> \in briefs
                      /\ HeldAt(file, clock)
                      /\ SameLease(k.seen, file)
                   THEN file ELSE NoLease]
    /\ call' = [call EXCEPT ![c] = Idle]
    /\ interim' = [interim EXCEPT ![c] = IF reply'[c] = NoLease THEN {} ELSE @]
    /\ UNCHANGED <<clock, file, lock, briefs, faults, history>>
-----------------------------------------------------------------------------
(* The environment.                                                        *)

Tick == /\ clock < MaxTime
        /\ clock' = clock + 1
        /\ UNCHANGED <<file, lock, call, briefs, reply, faults, history, interim>>

\* The process is killed: the kernel drops its flock, the lease file keeps
\* whatever the last os.replace or unlink left.
CallerDies(c) ==
    /\ call[c] # Idle
    /\ call' = [call EXCEPT ![c] = Idle]
    /\ lock' = IF lock = c THEN NoCaller ELSE lock
    /\ interim' = [interim EXCEPT ![c] = {}]
    /\ UNCHANGED <<clock, file, briefs, reply, faults, history>>

\* The lease file is damaged or removed by something else than this code.
\* Damage while a caller holds the lock amounts to damage before its read or
\* after its write, or is repaired by its os.replace.
Corrupt == /\ file # NoLease
           /\ lock = NoCaller
           /\ faults < MaxFaults
           /\ faults' = faults + 1
           /\ file' = NoLease
           /\ ended' = ended \cup IdIn(file)
           /\ UNCHANGED <<clock, lock, call, briefs, reply, promised, interim>>
-----------------------------------------------------------------------------
LeaseCommand(c) == \/ TakeLock(c) \/ LockTimeout(c) \/ ReadLease(c) \/ ReadUnreadable(c)
                   \/ Acquire(c) \/ Renew(c) \/ Release(c) \/ Refuse(c)
                   \/ SaveBrief(c) \/ SaveFails(c) \/ FirstRead(c) \/ SecondRead(c)

LeaseNext == \/ \E c \in Callers : LeaseCommand(c) \/ CallerDies(c)
             \/ \E c \in Callers, op \in Ops, s \in Sessions, o \in Owners, d \in TTLs,
                   f \in BOOLEAN : Invoke(c, op, s, o, d, f)
             \/ Tick \/ Corrupt

LeaseSpec == LeaseInit /\ [][LeaseNext]_leaseVars
-----------------------------------------------------------------------------
(* Properties.                                                             *)

\* Of two leases handed out for different tenures that have not run out, at
\* least one was released, taken over with force, or lost: under concurrent
\* starts, renewals, crashes and expiry exactly one caller wins.
OneLiveTenure ==
    \A p, q \in promised :
        p.expires > clock /\ q.expires > clock /\ Id(p) # Id(q)
            => Id(p) \in ended \/ Id(q) \in ended

\* The lease `session show --current` joins to its brief is one tenure: no
\* other session held the lease at any time between the two lock-free reads.
CurrentIsOneTenure ==
    \A c \in Callers : reply[c] # NoLease => interim[c] \subseteq {Id(reply[c])}

\* The commands implement the abstract lease: tenures follow one another in
\* time, and a live one is cut short only on purpose.
Abstract == INSTANCE ExclusiveLease WITH now <- clock, tenure <- file
ImplementsExclusiveLease == Abstract!Spec
=============================================================================
