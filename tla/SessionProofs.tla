---------------------------- MODULE SessionProofs ----------------------------
(***************************************************************************)
(* The sessions: the orchestrator lease of a working copy (SessionLease),  *)
(* and the durable remote session with its observer (RemoteSession,        *)
(* RemoteObserver).                                                        *)
(*                                                                         *)
(* The lease promises for every set of sessions, callers and durations.    *)
(* The inductive invariant IInv says that only the lock holder is between  *)
(* its read and its write, that what it read is still in the file, that a  *)
(* clock sample under the lock is younger than every tenure so far, and    *)
(* that a lease that has neither run out nor been ended is the file. What  *)
(* `session show --current` reports needs CurrentInv besides: a tenure     *)
(* that has left the file never comes back to it.                          *)
(*                                                                         *)
(* The remote session promises for every set of requests, every dispatch   *)
(* input and every request limit. Its inductive invariant Inv adds to the  *)
(* types what a command knows while it holds the lock: how its copy        *)
(* differs from the stored record, which requests the provider may have    *)
(* seen, and what the private result was collected for.                    *)
(***************************************************************************)
EXTENDS SessionLease, RemoteObserver, FiniteSetTheorems, TLAPS

(***************************************************************************)
(* The orchestrator lease                                                  *)
(***************************************************************************)
InCriticalSection(k) == k # Idle /\ k.step \in {"locked", "read"}

\* Only the holder of the flock is past TakeLock.
LockInv == \A c \in Callers : InCriticalSection(call[c]) => lock = c

\* What the holder sampled and read is still so when it decides.
SeenInv == \A c \in Callers :
    InCriticalSection(call[c]) =>
        /\ call[c].moment <= clock
        /\ \A p \in promised : p.acquired < call[c].moment
        /\ call[c].step = "read" => call[c].seen = IF call[c].blind THEN NoLease ELSE file

\* Nothing has been read before the lock is held.
Unread(k) == k # Idle /\ k.step \in {"waiting", "locked"} => k.seen = NoLease /\ ~k.blind
UnreadInv == \A c \in Callers : Unread(call[c])

\* The file holds the latest record of a tenure.
PromiseInv == /\ file # NoLease => file \in promised
              /\ \A p \in promised : p.acquired <= clock
              /\ \A p, q \in promised : Id(p) = Id(q) => p = q

\* A lease that has neither run out nor been ended is the one in the file.
LiveInv == \A p \in promised :
    p.expires > clock /\ Id(p) \notin ended => p = file

IInv == LeaseTypeOK /\ LockInv /\ UnreadInv /\ SeenInv /\ PromiseInv /\ LiveInv
-----------------------------------------------------------------------------
\* Every update the steps make to a command in progress leaves it one.
LEMMA CallUpdates ==
    ASSUME NEW k \in Call, NEW s \in LeaseSteps, NEW m \in Nat, NEW l \in Lease \cup {NoLease},
           NEW b \in BOOLEAN
    PROVE  /\ [k EXCEPT !.step = s] \in Call
           /\ [k EXCEPT !.step = s, !.moment = m] \in Call
           /\ [k EXCEPT !.step = s, !.seen = l] \in Call
           /\ [k EXCEPT !.step = s, !.blind = b] \in Call
           /\ CleanupCall(k) \in Call
           /\ AfterLock(k) \in Call \cup {Idle}
<1>1. CleanupCall(k) \in Call
  BY DEF Call, CleanupCall, Ops, LeaseSteps
<1>2. SavingCall(k) \in Call
  BY DEF Call, SavingCall, LeaseSteps
<1> QED
  BY <1>1, <1>2 DEF Call, AfterLock

\* A command that is not idle is a Call; replacing one caller's command by a
\* Call, or by Idle, keeps the type of call.
LEMMA CallTyped ==
    ASSUME LeaseTypeOK, NEW c \in Callers
    PROVE  /\ call[c] # Idle => call[c] \in Call
           /\ \A k \in Call \cup {Idle} :
                 [call EXCEPT ![c] = k] \in [Callers -> Call \cup {Idle}]
BY DEF LeaseTypeOK

LEMMA LeaseFields ==
    ASSUME NEW l \in Lease
    PROVE  /\ l.session \in Sessions /\ l.owner \in Owners
           /\ l.acquired \in Nat /\ l.expires \in Nat
           /\ Id(l) \in Sessions \X Nat
BY DEF Lease, Id

LEMMA CallFields ==
    ASSUME NEW k \in Call
    PROVE  /\ k.session \in Sessions /\ k.owner \in Owners /\ k.ttl \in TTLs
           /\ k.force \in BOOLEAN /\ k.blind \in BOOLEAN /\ k.moment \in Nat
           /\ k.seen \in Lease \cup {NoLease} /\ k.op \in Ops /\ k.step \in LeaseSteps
BY DEF Call

\* Publishing a lease, or removing the file, keeps the types of what it writes.
LEMMA HistoryTyped ==
    ASSUME LeaseTypeOK, NEW c \in Callers, NEW n \in Lease \cup {NoLease},
           EndsTenure(c, n), Watch(n)
    PROVE  /\ ended' \in SUBSET (Sessions \X Nat)
           /\ interim' \in [Callers -> SUBSET (Sessions \X Nat)]
<1>1. IdIn(file) \subseteq Sessions \X Nat /\ IdIn(n) \subseteq Sessions \X Nat
  BY LeaseFields DEF IdIn, LeaseTypeOK
<1> QED
  BY <1>1 DEF EndsTenure, Watch, LeaseTypeOK

\* Every reachable state has the declared types.
THEOREM LeaseTypeCorrect == LeaseSpec => []LeaseTypeOK
<1>1. LeaseInit => LeaseTypeOK
  BY DEF LeaseInit, LeaseTypeOK
<1>2. LeaseTypeOK /\ [LeaseNext]_leaseVars => LeaseTypeOK'
  <2> SUFFICES ASSUME LeaseTypeOK, [LeaseNext]_leaseVars PROVE LeaseTypeOK'
    OBVIOUS
  <2>1. ASSUME NEW c \in Callers, NEW op \in Ops, NEW s \in Sessions, NEW o \in Owners,
               NEW d \in TTLs, NEW f \in BOOLEAN, Invoke(c, op, s, o, d, f)
        PROVE LeaseTypeOK'
    <3>1. call'[c] \in Call /\ call' = [call EXCEPT ![c] = call'[c]]
      BY <2>1 DEF Invoke, LeaseTypeOK, Call, LeaseSteps
    <3>2. call' \in [Callers -> Call \cup {Idle}]
      BY <3>1, CallTyped
    <3> QED
      BY <2>1, <3>2 DEF Invoke, LeaseTypeOK, history
  <2>2. ASSUME NEW c \in Callers, TakeLock(c) PROVE LeaseTypeOK'
    <3>1. call[c] \in Call
      BY <2>2, CallTyped DEF TakeLock
    <3>2. [call[c] EXCEPT !.step = "locked", !.moment = clock'] \in Call
      <4>1. clock' \in Nat /\ "locked" \in LeaseSteps
        BY <2>2 DEF LeaseTypeOK, TakeLock, LeaseSteps
      <4> QED
        BY <3>1, <4>1, CallUpdates
    <3>3. call' \in [Callers -> Call \cup {Idle}]
      BY <2>2, <3>2, CallTyped DEF TakeLock
    <3> QED
      BY <2>2, <3>3 DEF LeaseTypeOK, TakeLock, history
  <2>3. ASSUME NEW c \in Callers, LockTimeout(c) PROVE LeaseTypeOK'
    BY <2>3, CallTyped DEF LeaseTypeOK, LockTimeout, history
  <2>4. ASSUME NEW c \in Callers, ReadLease(c) PROVE LeaseTypeOK'
    <3>1. call[c] \in Call
      BY <2>4, CallTyped DEF ReadLease
    <3>2. [call[c] EXCEPT !.step = "read", !.seen = file] \in Call
      BY <2>4, <3>1, CallUpdates DEF LeaseSteps, LeaseTypeOK, ReadLease
    <3>3. call' \in [Callers -> Call \cup {Idle}]
      BY <2>4, <3>2, CallTyped DEF ReadLease
    <3> QED
      BY <2>4, <3>3 DEF LeaseTypeOK, ReadLease, history
  <2>5. ASSUME NEW c \in Callers, ReadUnreadable(c) PROVE LeaseTypeOK'
    <3>1. call[c] \in Call
      BY <2>5, CallTyped DEF ReadUnreadable
    <3>2. [call[c] EXCEPT !.step = "read", !.blind = TRUE] \in Call
      BY <2>5, <3>1, CallUpdates DEF LeaseSteps, LeaseTypeOK, ReadUnreadable
    <3>3. call' \in [Callers -> Call \cup {Idle}]
      BY <2>5, <3>2, CallTyped DEF ReadUnreadable
    <3> QED
      BY <2>5, <3>3 DEF LeaseTypeOK, ReadUnreadable, history
  <2>6. ASSUME NEW c \in Callers, Acquire(c) PROVE LeaseTypeOK'
    <3>1. call[c] \in Call
      BY <2>6, CallTyped DEF Acquire
    <3>2. [session |-> call[c].session, owner |-> call[c].owner,
            acquired |-> AcquiredAt(call[c]), expires |-> Expiry(call[c])] \in Lease
      <4>1. AcquiredAt(call[c]) \in Nat
        BY <3>1, CallFields, LeaseFields DEF AcquiredAt, HeldByUs, HeldAt
      <4>2. Expiry(call[c]) \in Nat
        <5>1. call[c].ttl \in TTLs /\ call[c].moment \in Nat
          BY <3>1, CallFields
        <5>2. call[c].ttl \in Nat
          BY <5>1, LeaseAssumption
        <5> QED
          BY <5>1, <5>2 DEF Expiry
      <4> QED
        BY <3>1, <4>1, <4>2, CallFields DEF Lease
    <3>3. AfterLock(call[c]) \in Call \cup {Idle}
      BY <2>6, <3>1, CallUpdates DEF LeaseSteps
    <3>4. call' \in [Callers -> Call \cup {Idle}]
      BY <2>6, <3>3, CallTyped DEF Acquire, LeaveLock
    <3> QED
      BY <2>6, <3>2, <3>4, HistoryTyped DEF LeaseTypeOK, Acquire, Publish, LeaveLock
  <2>7. ASSUME NEW c \in Callers, Renew(c) PROVE LeaseTypeOK'
    <3>1. call[c] \in Call
      BY <2>7, CallTyped DEF Renew
    <3>2. [call[c].seen EXCEPT !.expires = Expiry(call[c])] \in Lease
      <4>1. call[c].seen \in Lease
        BY <2>7, <3>1, CallFields DEF Renew, MayRenew, HeldByUs, HeldAt
      <4>2. Expiry(call[c]) \in Nat
        <5>1. call[c].ttl \in TTLs /\ call[c].moment \in Nat
          BY <3>1, CallFields
        <5>2. call[c].ttl \in Nat
          BY <5>1, LeaseAssumption
        <5> QED
          BY <5>1, <5>2 DEF Expiry
      <4> QED
        BY <4>1, <4>2 DEF Lease
    <3>3. AfterLock(call[c]) \in Call \cup {Idle}
      BY <2>7, <3>1, CallUpdates DEF LeaseSteps
    <3>4. call' \in [Callers -> Call \cup {Idle}]
      BY <2>7, <3>3, CallTyped DEF Renew, LeaveLock
    <3> QED
      BY <2>7, <3>2, <3>4, HistoryTyped DEF LeaseTypeOK, Renew, Publish, LeaveLock
  <2>8. ASSUME NEW c \in Callers, Release(c) PROVE LeaseTypeOK'
    <3>1. call[c] \in Call
      BY <2>8, CallTyped DEF Release
    <3>2. AfterLock(call[c]) \in Call \cup {Idle}
      BY <2>8, <3>1, CallUpdates DEF LeaseSteps
    <3>3. call' \in [Callers -> Call \cup {Idle}]
      BY <2>8, <3>2, CallTyped DEF Release, LeaveLock
    <3> QED
      BY <2>8, <3>3, HistoryTyped DEF LeaseTypeOK, Release, LeaveLock
  <2>9. ASSUME NEW c \in Callers, Refuse(c) PROVE LeaseTypeOK'
    BY <2>9, CallTyped DEF LeaseTypeOK, Refuse, history, LeaveLock
  <2>11. ASSUME NEW c \in Callers, SaveBrief(c) PROVE LeaseTypeOK'
    <3>1. call[c] \in Call
      BY <2>11, CallTyped DEF SaveBrief
    <3> QED
      BY <2>11, <3>1, CallTyped, CallFields DEF LeaseTypeOK, SaveBrief, history
  <2>12. ASSUME NEW c \in Callers, SaveFails(c) PROVE LeaseTypeOK'
    <3>1. call[c] \in Call
      BY <2>12, CallTyped DEF SaveFails
    <3>2. CleanupCall(call[c]) \in Call
      BY <2>12, <3>1, CallUpdates DEF LeaseSteps, LeaseTypeOK, SaveFails
    <3>3. call' \in [Callers -> Call \cup {Idle}]
      BY <2>12, <3>2, CallTyped DEF SaveFails
    <3> QED
      BY <2>12, <3>3 DEF LeaseTypeOK, SaveFails, history
  <2>13. ASSUME NEW c \in Callers, FirstRead(c) PROVE LeaseTypeOK'
    <3>1. file \in Lease
      BY <2>13 DEF FirstRead, HeldAt, LeaseTypeOK
    <3>2. call'[c] \in Call /\ call' = [call EXCEPT ![c] = call'[c]]
      BY <2>13, <3>1, LeaseFields, LeaseAssumption DEF FirstRead, LeaseTypeOK, Call, Ops, LeaseSteps
    <3>3. call' \in [Callers -> Call \cup {Idle}]
      BY <2>13, <3>2, CallTyped
    <3>4. IdIn(file) \subseteq Sessions \X Nat
      BY <2>13, <3>1, LeaseFields DEF IdIn
    <3> QED
      BY <2>13, <3>3, <3>4 DEF LeaseTypeOK, FirstRead, history
  <2>14. ASSUME NEW c \in Callers, SecondRead(c) PROVE LeaseTypeOK'
    BY <2>14, CallTyped DEF LeaseTypeOK, SecondRead, history, HeldAt
  <2>15. ASSUME NEW c \in Callers, CallerDies(c) PROVE LeaseTypeOK'
    BY <2>15, CallTyped DEF LeaseTypeOK, CallerDies, history
  <2>16. CASE Tick
    BY <2>16 DEF LeaseTypeOK, Tick, history
  <2>17. CASE Corrupt
    BY <2>17, LeaseFields DEF LeaseTypeOK, Corrupt, IdIn
  <2>18. CASE UNCHANGED leaseVars
    BY <2>18 DEF LeaseTypeOK, leaseVars, history
  <2> QED
    BY <2>1, <2>2, <2>3, <2>4, <2>5, <2>6, <2>7, <2>8, <2>9, <2>11, <2>12, <2>13, <2>14, <2>15,
       <2>16, <2>17, <2>18 DEF LeaseNext, LeaseCommand
<1>3. QED
  BY <1>1, <1>2, PTL DEF LeaseSpec

\* IInv is inductive.
LEMMA InvInit == LeaseInit => IInv
BY DEF LeaseInit, IInv, LeaseTypeOK, LockInv, UnreadInv, Unread, SeenInv, PromiseInv, LiveInv,
   InCriticalSection

\* A step that leaves the lease file and the history alone, and every caller in
\* its critical section where it was, unless it left it.
Outside == /\ UNCHANGED <<file, promised, ended>>
           /\ clock' >= clock
           /\ \A d \in Callers : \/ (~InCriticalSection(call'[d]) /\ Unread(call'[d]))
                                \/ (call'[d] = call[d] /\ (lock = d => lock' = d))

LEMMA OutsideSteps == IInv /\ LeaseTypeOK' /\ Outside => IInv'
<1> SUFFICES ASSUME IInv, LeaseTypeOK', Outside PROVE IInv'
  OBVIOUS
<1> USE DEF Outside
<1>1. LockInv'
  BY DEF IInv, LockInv, InCriticalSection
<1>2. UnreadInv'
  BY DEF IInv, UnreadInv, Unread
<1>3. SeenInv'
  <2> SUFFICES ASSUME NEW d \in Callers, InCriticalSection(call'[d])
               PROVE  /\ call'[d].moment <= clock'
                      /\ \A p \in promised : p.acquired < call'[d].moment
                      /\ call'[d].step = "read" =>
                            call'[d].seen = IF call'[d].blind THEN NoLease ELSE file
    BY DEF SeenInv
  <2>1. call'[d] = call[d] /\ InCriticalSection(call[d])
    BY DEF InCriticalSection
  <2>2. call[d].moment \in Nat
    BY <2>1, CallTyped, CallFields DEF InCriticalSection, IInv
  <2> QED
    BY <2>1, <2>2 DEF IInv, SeenInv, LeaseTypeOK
<1>4. PromiseInv' /\ LiveInv'
  <2>1. \A p \in promised : p.acquired \in Nat /\ p.expires \in Nat
    BY LeaseFields DEF IInv, LeaseTypeOK
  <2> QED
    BY <2>1 DEF IInv, PromiseInv, LiveInv, LeaseTypeOK
<1> QED
  BY <1>1, <1>2, <1>3, <1>4 DEF IInv

LEMMA TakeLockStep ==
    ASSUME IInv, LeaseTypeOK', NEW c \in Callers, TakeLock(c)
    PROVE  IInv'
<1>1. \A d \in Callers : ~InCriticalSection(call[d])
  BY LeaseAssumption DEF TakeLock, LockFree, IInv, LockInv
<1>2. \A d \in Callers : d # c => call'[d] = call[d] /\ ~InCriticalSection(call'[d])
  BY <1>1 DEF TakeLock, InCriticalSection, IInv, LeaseTypeOK
<1>3. call[c] \in Call
  BY CallTyped DEF TakeLock, IInv
<1>4. call'[c] = [call[c] EXCEPT !.step = "locked", !.moment = clock']
  BY DEF TakeLock, IInv, LeaseTypeOK
<1>5. /\ call'[c].moment = clock' /\ call'[c].step = "locked"
      /\ call'[c].seen = call[c].seen /\ call'[c].blind = call[c].blind
  BY <1>3, <1>4 DEF Call
<1>6. LockInv'
  BY <1>2 DEF LockInv, TakeLock
<1>7. UnreadInv'
  BY <1>2, <1>5 DEF UnreadInv, Unread, TakeLock, IInv
<1>8. \A p \in promised : p.acquired \in Nat /\ p.expires \in Nat
  BY LeaseFields DEF IInv, LeaseTypeOK
<1>9. SeenInv'
  BY <1>2, <1>5, <1>8 DEF SeenInv, TakeLock, IInv, PromiseInv, LeaseTypeOK, history
<1>10. PromiseInv' /\ LiveInv'
  BY <1>8 DEF TakeLock, IInv, PromiseInv, LiveInv, LeaseTypeOK, history
<1> QED
  BY <1>6, <1>7, <1>9, <1>10 DEF IInv

\* The caller leaves its critical section; nobody else was inside.
LEMMA AfterWrite ==
    ASSUME IInv, NEW c \in Callers, InCriticalSection(call[c]),
           LeaveLock(c, AfterLock(call[c])), UNCHANGED clock
    PROVE  LockInv' /\ UnreadInv' /\ SeenInv'
<1>1. call[c] \in Call /\ lock = c
  BY CallTyped DEF IInv, LockInv, InCriticalSection
<1>2. call'[c] = AfterLock(call[c])
  BY DEF LeaveLock, IInv, LeaseTypeOK
<1>3. ~InCriticalSection(call'[c]) /\ Unread(call'[c])
  BY <1>1, <1>2 DEF AfterLock, SavingCall, InCriticalSection, Unread, Call
<1>4. \A d \in Callers : d # c => call'[d] = call[d] /\ ~InCriticalSection(call'[d])
  BY <1>1 DEF LeaveLock, IInv, LeaseTypeOK, LockInv
<1> QED
  BY <1>3, <1>4 DEF IInv, LockInv, UnreadInv, SeenInv

\* What the deciding caller knows: its sample is younger than every tenure,
\* and unless it could not read the file, the file is what it read.
LEMMA Decision ==
    ASSUME IInv, NEW c \in Callers, call[c] # Idle, call[c].step = "read"
    PROVE  /\ InCriticalSection(call[c])
           /\ call[c] \in Call
           /\ call[c].moment \in Nat /\ call[c].moment <= clock
           /\ \A p \in promised : p.acquired < call[c].moment
           /\ call[c].seen = IF call[c].blind THEN NoLease ELSE file
BY CallTyped, CallFields DEF IInv, SeenInv, InCriticalSection

\* Publishing preserves the promises if the new record extends the tenure in
\* the file, or is younger than every tenure and ends no live one silently.
LEMMA PublishStep ==
    ASSUME IInv, LeaseTypeOK', NEW c \in Callers, NEW l \in Lease,
           Publish(c, l), UNCHANGED clock, l.acquired <= clock,
           \/ file # NoLease /\ Id(l) = Id(file)
           \/ /\ \A p \in promised : p.acquired < l.acquired
              /\ file # NoLease => file.expires <= clock \/ Id(file) \in ended'
    PROVE  PromiseInv' /\ LiveInv'
<1> DEFINE others == {p \in promised : Id(p) # Id(l)}
<1>1. file' = l /\ promised' = others \cup {l} /\ l # NoLease
  BY LeaseAssumption DEF Publish
<1>2. \A p \in promised : p \in Lease
  BY DEF IInv, LeaseTypeOK
<1>3. \A p, q \in promised' : Id(p) = Id(q) => p = q
  BY <1>1 DEF IInv, PromiseInv
<1>4. \A p \in promised' : p.acquired <= clock
  BY <1>1 DEF IInv, PromiseInv
<1>5. PromiseInv'
  BY <1>1, <1>3, <1>4 DEF PromiseInv, Id
<1>6. ended \subseteq ended'
  BY DEF Publish, EndsTenure
<1>7. ASSUME NEW p \in others, p.expires > clock, Id(p) \notin ended'
      PROVE  FALSE
  <2>1. p = file
    BY <1>6, <1>7 DEF IInv, LiveInv
  <2>2. file # NoLease
    BY <1>2, <2>1, LeaseAssumption
  <2>3. file.expires <= clock \/ Id(file) \in ended'
    BY <1>7, <2>1, <2>2
  <2>4. file.expires \in Nat /\ clock \in Nat
    BY <1>2, <2>1, LeaseFields DEF IInv, LeaseTypeOK
  <2> QED
    BY <1>7, <2>1, <2>3, <2>4
<1>8. LiveInv'
  BY <1>1, <1>7 DEF LiveInv, Id
<1> QED
  BY <1>5, <1>8

LEMMA AcquireStep ==
    ASSUME IInv, LeaseTypeOK', NEW c \in Callers, Acquire(c)
    PROVE  IInv'
<1> DEFINE k == call[c]
           l == [session |-> k.session, owner |-> k.owner, acquired |-> AcquiredAt(k),
                 expires |-> Expiry(k)]
<1>1. Publish(c, l) /\ k # Idle /\ k.step = "read" /\ ~Refused(k)
      /\ LeaveLock(c, AfterLock(k)) /\ UNCHANGED clock
  BY DEF Acquire
<1>2. /\ InCriticalSection(call[c]) /\ k \in Call /\ k.moment \in Nat /\ k.moment <= clock
      /\ \A p \in promised : p.acquired < k.moment
      /\ k.seen = IF k.blind THEN NoLease ELSE file
  BY <1>1, Decision
<1>3. l \in Lease /\ l.session = k.session /\ l.acquired = AcquiredAt(k)
  <2>1. AcquiredAt(k) \in Nat
    BY <1>2, CallFields, LeaseFields DEF AcquiredAt, HeldByUs, HeldAt
  <2>2. k.session \in Sessions /\ k.owner \in Owners /\ k.ttl \in TTLs
    BY <1>2, CallFields
  <2>3. k.moment \in Nat /\ k.ttl \in Nat
    BY <1>2, <2>2, LeaseAssumption
  <2>4. Expiry(k) \in Nat
    BY <2>3 DEF Expiry
  <2> QED
    BY <2>1, <2>2, <2>4 DEF Lease
<1> HIDE DEF k, l
<1>4. ASSUME HeldByUs(k) PROVE PromiseInv' /\ LiveInv'
  <2>1. file # NoLease /\ k.seen = file /\ file.session = k.session
    BY <1>2, <1>4 DEF HeldByUs, HeldAt
  <2>2. l.acquired = file.acquired /\ l.session = file.session
    BY <1>3, <1>4, <2>1 DEF AcquiredAt
  <2>3. Id(l) = Id(file) /\ file.acquired <= clock
    BY <2>1, <2>2 DEF Id, IInv, PromiseInv
  <2> QED
    BY <1>1, <1>3, <2>1, <2>2, <2>3, PublishStep
<1>5. ASSUME ~HeldByUs(k) PROVE PromiseInv' /\ LiveInv'
  <2>1. l.acquired = k.moment
    BY <1>3, <1>5 DEF AcquiredAt
  <2>2. ASSUME file # NoLease, file.expires > clock PROVE Id(file) \in ended'
    <3>1. file \in promised /\ file \in Lease
      BY <2>2 DEF IInv, PromiseInv, LeaseTypeOK
    <3>2. Id(l) # Id(file)
      BY <1>2, <2>1, <3>1, LeaseFields DEF Id
    <3>3. k.force \/ k.blind \/ file.session = k.session
      BY <1>1, <1>2, <2>2, <3>1, LeaseFields DEF Refused, HeldAt, IInv, LeaseTypeOK
    <3>4. IdIn(file) = {Id(file)} /\ IdIn(l) = {Id(l)}
      BY <1>3, <2>2, LeaseAssumption DEF IdIn
    <3> QED
      BY <1>1, <2>2, <3>2, <3>3, <3>4 DEF Publish, EndsTenure, k
  <2>3. file # NoLease => file.expires <= clock \/ Id(file) \in ended'
    BY <2>2, LeaseFields DEF IInv, LeaseTypeOK
  <2> QED
    BY <1>1, <1>2, <1>3, <2>1, <2>3, PublishStep
<1>6. LockInv' /\ UnreadInv' /\ SeenInv'
  BY <1>1, <1>2, AfterWrite DEF k
<1> QED
  BY <1>4, <1>5, <1>6 DEF IInv

LEMMA RenewStep ==
    ASSUME IInv, LeaseTypeOK', NEW c \in Callers, Renew(c)
    PROVE  IInv'
<1> DEFINE k == call[c]
           l == [k.seen EXCEPT !.expires = Expiry(k)]
<1>1. Publish(c, l) /\ k # Idle /\ k.step = "read" /\ HeldByUs(k)
      /\ LeaveLock(c, AfterLock(k)) /\ UNCHANGED clock
  BY DEF Renew, MayRenew
<1>2. /\ InCriticalSection(call[c]) /\ k \in Call /\ k.moment \in Nat
      /\ k.seen = IF k.blind THEN NoLease ELSE file
  BY <1>1, Decision
<1>3. file # NoLease /\ k.seen = file /\ file \in Lease
  BY <1>1, <1>2 DEF HeldByUs, HeldAt, IInv, LeaseTypeOK
<1>4. l \in Lease /\ Id(l) = Id(file) /\ l.acquired = file.acquired
  <2>1. k.ttl \in TTLs
    BY <1>2, CallFields
  <2>2. k.moment \in Nat /\ k.ttl \in Nat
    BY <1>2, <2>1, LeaseAssumption
  <2>3. Expiry(k) \in Nat
    BY <2>2 DEF Expiry
  <2> QED
    BY <1>3, <2>3 DEF Lease, Id
<1> HIDE DEF k, l
<1>5. file.acquired <= clock
  BY <1>3 DEF IInv, PromiseInv
<1>6. PromiseInv' /\ LiveInv'
  BY <1>1, <1>3, <1>4, <1>5, PublishStep
<1>7. LockInv' /\ UnreadInv' /\ SeenInv'
  BY <1>1, <1>2, AfterWrite DEF k
<1> QED
  BY <1>6, <1>7 DEF IInv

LEMMA ReleaseStep ==
    ASSUME IInv, LeaseTypeOK', NEW c \in Callers, Release(c)
    PROVE  IInv'
<1> DEFINE k == call[c]
<1>1. /\ k # Idle /\ k.step = "read" /\ ~Refused(k) /\ file' = NoLease
      /\ EndsTenure(c, NoLease) /\ promised' = promised
      /\ LeaveLock(c, AfterLock(k)) /\ UNCHANGED clock
  BY DEF Release
<1>2. /\ InCriticalSection(call[c]) /\ k.moment \in Nat /\ k.moment <= clock
      /\ k.seen = IF k.blind THEN NoLease ELSE file
  BY <1>1, Decision
<1>3. PromiseInv'
  BY <1>1 DEF IInv, PromiseInv, Id
<1>4. ASSUME NEW p \in promised, p.expires > clock, Id(p) \notin ended'
      PROVE  FALSE
  <2>1. p = file /\ p \in Lease
    BY <1>1, <1>4 DEF IInv, LiveInv, EndsTenure, LeaseTypeOK
  <2>2. file # NoLease /\ file.expires \in Nat /\ clock \in Nat
    BY <2>1, LeaseAssumption, LeaseFields DEF IInv, LeaseTypeOK
  <2>3. k.force \/ k.blind \/ file.session = k.session
    BY <1>1, <1>2, <1>4, <2>1, <2>2 DEF Refused, HeldAt
  <2> QED
    BY <1>1, <1>4, <2>1, <2>2, <2>3 DEF EndsTenure, IdIn
<1>5. LiveInv'
  BY <1>1, <1>4 DEF LiveInv, Id
<1>6. LockInv' /\ UnreadInv' /\ SeenInv'
  BY <1>1, <1>2, AfterWrite
<1> QED
  BY <1>3, <1>5, <1>6 DEF IInv

LEMMA CorruptStep ==
    ASSUME IInv, LeaseTypeOK', Corrupt
    PROVE  IInv'
<1>1. \A c \in Callers : ~InCriticalSection(call[c])
  BY LeaseAssumption DEF Corrupt, IInv, LockInv
<1>2. LockInv' /\ UnreadInv' /\ SeenInv'
  BY <1>1 DEF Corrupt, IInv, LockInv, UnreadInv, Unread, SeenInv, InCriticalSection
<1>3. PromiseInv' /\ LiveInv'
  BY DEF Corrupt, IInv, PromiseInv, LiveInv, Id, IdIn
<1> QED
  BY <1>2, <1>3 DEF IInv

\* A caller moving on outside its critical section, or out of it, while every
\* other caller stands still.
LEMMA MoveStep ==
    ASSUME IInv, LeaseTypeOK', UNCHANGED <<file, promised, ended, clock>>, NEW c \in Callers,
           NEW STATE k, call' = [call EXCEPT ![c] = k],
           k = Idle \/ k.step \notin {"locked", "read"},
           k # Idle /\ k.step = "waiting" => k.seen = NoLease /\ ~k.blind,
           lock' = lock \/ (lock = c /\ lock' = NoCaller)
    PROVE  IInv'
<1>1. call'[c] = k /\ \A d \in Callers : d # c => call'[d] = call[d]
  BY DEF IInv, LeaseTypeOK
<1>2. ~InCriticalSection(call'[c]) /\ Unread(call'[c])
  BY <1>1 DEF InCriticalSection, Unread
<1>3. \A d \in Callers : d # c => (lock = d => lock' = d)
  OBVIOUS
<1>4. clock' >= clock
  BY DEF IInv, LeaseTypeOK
<1>5. Outside
  BY <1>1, <1>2, <1>3, <1>4 DEF Outside
<1> QED
  BY <1>5, OutsideSteps

LEMMA ReadStep ==
    ASSUME IInv, LeaseTypeOK', NEW c \in Callers, ReadLease(c) \/ ReadUnreadable(c)
    PROVE  IInv'
<1>1. call[c] \in Call /\ InCriticalSection(call[c]) /\ Unread(call[c])
  BY CallTyped DEF ReadLease, ReadUnreadable, InCriticalSection, IInv, UnreadInv
<1>2. /\ call'[c].step = "read" /\ call'[c].moment = call[c].moment
      /\ call'[c].seen = IF call'[c].blind THEN NoLease ELSE file
  BY <1>1 DEF ReadLease, ReadUnreadable, Unread, IInv, LeaseTypeOK, Call
<1>3. \A d \in Callers : d # c => call'[d] = call[d]
  BY DEF ReadLease, ReadUnreadable, IInv, LeaseTypeOK
<1>4. UNCHANGED <<clock, file, lock, promised, ended>>
  BY DEF ReadLease, ReadUnreadable, history
<1>5. LockInv' /\ UnreadInv'
  BY <1>1, <1>2, <1>3, <1>4 DEF IInv, LockInv, UnreadInv, Unread, InCriticalSection
<1>6. SeenInv'
  BY <1>1, <1>2, <1>3, <1>4 DEF IInv, SeenInv, InCriticalSection, ReadLease, ReadUnreadable
<1>7. PromiseInv' /\ LiveInv'
  BY <1>4 DEF IInv, PromiseInv, LiveInv, Id
<1> QED
  BY <1>5, <1>6, <1>7 DEF IInv

LEMMA InvNext == IInv /\ LeaseTypeOK' /\ [LeaseNext]_leaseVars => IInv'
<1> SUFFICES ASSUME IInv, LeaseTypeOK', [LeaseNext]_leaseVars PROVE IInv'
  OBVIOUS
<1>1. ASSUME NEW c \in Callers, NEW op \in Ops, NEW s \in Sessions, NEW o \in Owners,
             NEW d \in TTLs, NEW f \in BOOLEAN, Invoke(c, op, s, o, d, f)
      PROVE IInv'
  <2> DEFINE k == [op |-> op, step |-> "waiting", session |-> s, owner |-> o, ttl |-> d,
                   force |-> f, moment |-> 0, seen |-> NoLease, blind |-> FALSE]
  <2>1. k.step = "waiting" /\ k.seen = NoLease /\ ~k.blind
    OBVIOUS
  <2>2. call' = [call EXCEPT ![c] = k] /\ UNCHANGED <<file, promised, ended, clock, lock>>
    BY <1>1 DEF Invoke, history
  <2> HIDE DEF k
  <2> QED
    BY <2>1, <2>2, MoveStep
<1>2. ASSUME NEW c \in Callers, TakeLock(c) PROVE IInv'
  BY <1>2, TakeLockStep
<1>3. ASSUME NEW c \in Callers, LockTimeout(c) \/ SaveBrief(c) \/ SecondRead(c) PROVE IInv'
  <2>1. call' = [call EXCEPT ![c] = Idle] /\ UNCHANGED <<file, promised, ended, clock, lock>>
    BY <1>3 DEF LockTimeout, SaveBrief, SecondRead, history
  <2> QED
    BY <2>1, MoveStep
<1>4. ASSUME NEW c \in Callers, ReadLease(c) \/ ReadUnreadable(c) PROVE IInv'
  BY <1>4, ReadStep
<1>5. ASSUME NEW c \in Callers, Acquire(c) PROVE IInv'
  BY <1>5, AcquireStep
<1>6. ASSUME NEW c \in Callers, Renew(c) PROVE IInv'
  BY <1>6, RenewStep
<1>7. ASSUME NEW c \in Callers, Release(c) PROVE IInv'
  BY <1>7, ReleaseStep
<1>8. ASSUME NEW c \in Callers, Refuse(c) \/ CallerDies(c) PROVE IInv'
  <2>1. call' = [call EXCEPT ![c] = Idle] /\ UNCHANGED <<file, promised, ended, clock>>
    BY <1>8 DEF Refuse, CallerDies, LeaveLock, history
  <2>2. Refuse(c) => lock = c
    BY DEF Refuse, IInv, LockInv, InCriticalSection
  <2>3. lock' = lock \/ (lock = c /\ lock' = NoCaller)
    BY <1>8, <2>2 DEF Refuse, CallerDies, LeaveLock
  <2> QED
    BY <2>1, <2>3, MoveStep
<1>10. ASSUME NEW c \in Callers, SaveFails(c) PROVE IInv'
  <2> DEFINE k == CleanupCall(call[c])
  <2>1. call[c] \in Call
    BY <1>10, CallTyped DEF SaveFails, IInv
  <2>2. k.step = "waiting" /\ k.seen = NoLease /\ ~k.blind
    BY <2>1 DEF CleanupCall, Call
  <2>3. call' = [call EXCEPT ![c] = k] /\ UNCHANGED <<file, promised, ended, clock, lock>>
    BY <1>10 DEF SaveFails, history
  <2> HIDE DEF k
  <2> QED
    BY <2>2, <2>3, MoveStep
<1>11. ASSUME NEW c \in Callers, FirstRead(c) PROVE IInv'
  <2> DEFINE k == [op |-> "current", step |-> "first", session |-> file.session,
                   owner |-> file.owner, ttl |-> CHOOSE d \in TTLs : TRUE,
                   force |-> FALSE, moment |-> clock, seen |-> file, blind |-> FALSE]
  <2>1. k.step = "first"
    OBVIOUS
  <2>2. call' = [call EXCEPT ![c] = k] /\ UNCHANGED <<file, promised, ended, clock, lock>>
    BY <1>11 DEF FirstRead, history
  <2> HIDE DEF k
  <2> QED
    BY <2>1, <2>2, MoveStep
<1>12. CASE Tick
  BY <1>12, OutsideSteps DEF Outside, Tick, history, IInv, LeaseTypeOK
<1>13. CASE Corrupt
  BY <1>13, CorruptStep
<1>14. CASE UNCHANGED leaseVars
  BY <1>14, OutsideSteps DEF Outside, leaseVars, history, IInv, LeaseTypeOK
<1> QED
  BY <1>1, <1>2, <1>3, <1>4, <1>5, <1>6, <1>7, <1>8, <1>10, <1>11, <1>12, <1>13, <1>14
     DEF LeaseNext, LeaseCommand

\* The inductive invariant holds in every reachable state.
LEMMA InductiveInvariant == LeaseSpec => []IInv
<1>1. IInv => LeaseTypeOK
  BY DEF IInv
<1> QED
  BY InvInit, InvNext, LeaseTypeCorrect, <1>1, PTL DEF LeaseSpec

\* Whatever the numbers of sessions, processes and durations: of two leases
\* that have not run out, one was ended on purpose or lost.
THEOREM LeaseIsExclusive == LeaseSpec => []OneLiveTenure
<1>1. IInv => OneLiveTenure
  BY DEF IInv, LiveInv, OneLiveTenure
<1> QED
  BY <1>1, InductiveInvariant, PTL
-----------------------------------------------------------------------------
(* What `session show --current` reports.                                  *)

\* Between its two lock-free reads a caller has reported nothing yet, and the
\* lease it read is a tenure promised for good: as long as that tenure is in
\* the file, no other one has been there since the first read. A tenure does
\* not come back once it has left the file, for a new one is younger than
\* every promise.
ReadingLease(c) == call[c] # Idle /\ call[c].step = "first"
ReadingInv == \A c \in Callers : ReadingLease(c) =>
    /\ reply[c] = NoLease
    /\ call[c].seen # NoLease
    /\ \E p \in promised : Id(p) = Id(call[c].seen)
    /\ IdIn(file) = {Id(call[c].seen)} => interim[c] \subseteq {Id(call[c].seen)}

CurrentInv == ReadingInv /\ CurrentIsOneTenure

LEMMA IdSingleton ==
    ASSUME NEW f
    PROVE  /\ f # NoLease => IdIn(f) = {Id(f)}
           /\ IdIn(NoLease) = {}
BY DEF IdIn

\* A step that publishes nothing: a caller between its reads stays as it was,
\* and what another caller reported stands, or is taken back.
Unpublished == /\ file' \in {file, NoLease} /\ promised' = promised
               /\ \A d \in Callers :
                     /\ ReadingLease(d)' => /\ call'[d] = call[d] /\ reply'[d] = reply[d]
                                       /\ interim'[d] = interim[d]
                     /\ \/ reply'[d] = NoLease \/ interim'[d] = {}
                        \/ reply'[d] = reply[d] /\ interim'[d] = interim[d]

LEMMA UnpublishedSteps == CurrentInv /\ Unpublished => CurrentInv'
<1> SUFFICES ASSUME CurrentInv, Unpublished PROVE CurrentInv'
  OBVIOUS
<1>1. CurrentIsOneTenure'
  BY DEF CurrentInv, CurrentIsOneTenure, Unpublished, Id
<1>2. ReadingInv'
  <2> SUFFICES ASSUME NEW d \in Callers, ReadingLease(d)'
               PROVE  /\ reply'[d] = NoLease
                      /\ call'[d].seen # NoLease
                      /\ \E p \in promised' : Id(p) = Id(call'[d].seen)
                      /\ IdIn(file') = {Id(call'[d].seen)} =>
                            interim'[d] \subseteq {Id(call'[d].seen)}
    BY DEF ReadingInv, Id, IdIn
  <2>1. call'[d] = call[d] /\ reply'[d] = reply[d] /\ interim'[d] = interim[d]
    BY DEF Unpublished
  <2>2. ReadingLease(d)
    BY <2>1 DEF ReadingLease
  <2>3. file' = file \/ IdIn(file') = {}
    BY IdSingleton DEF Unpublished
  <2> QED
    BY <2>1, <2>2, <2>3 DEF CurrentInv, ReadingInv, Unpublished
<1> QED
  BY <1>1, <1>2 DEF CurrentInv

\* A published record either extends the tenure in the file or starts one that
\* nobody has read before.
LEMMA PublishKeepsReaders ==
    ASSUME IInv, CurrentInv, NEW c \in Callers, NEW l \in Lease,
           Publish(c, l), LeaveLock(c, AfterLock(call[c])), UNCHANGED reply,
           call[c] # Idle, call[c].step = "read",
           \/ file # NoLease /\ Id(l) = Id(file)
           \/ \A p \in promised : p.acquired < l.acquired
    PROVE  CurrentInv'
<1>1. /\ file' = l /\ l # NoLease /\ IdIn(l) = {Id(l)}
      /\ promised' = {p \in promised : Id(p) # Id(l)} \cup {l}
  BY LeaseAssumption DEF Publish, IdIn
<1>2. ~ReadingLease(c) /\ ~ReadingLease(c)'
  <2>1. call'[c] = AfterLock(call[c]) /\ call[c] \in Call
    BY Decision DEF LeaveLock, IInv, LeaseTypeOK
  <2> QED
    BY <2>1 DEF ReadingLease, AfterLock, SavingCall, Call
<1>3. \A d \in Callers : d # c => call'[d] = call[d]
  BY DEF LeaveLock, IInv, LeaseTypeOK
<1>4. \A d \in Callers : interim'[d] = IF ReadingLease(d) THEN interim[d] \cup {Id(l)} ELSE interim[d]
  BY <1>1 DEF Publish, Watch, ReadingLease
<1>5. CurrentIsOneTenure'
  BY <1>4 DEF CurrentInv, CurrentIsOneTenure, ReadingInv, Id
<1>6. ReadingInv'
  <2> SUFFICES ASSUME NEW d \in Callers, ReadingLease(d)'
               PROVE  /\ reply'[d] = NoLease
                      /\ call'[d].seen # NoLease
                      /\ \E p \in promised' : Id(p) = Id(call'[d].seen)
                      /\ IdIn(file') = {Id(call'[d].seen)} =>
                            interim'[d] \subseteq {Id(call'[d].seen)}
    BY DEF ReadingInv, Id, IdIn
  <2>1. d # c /\ call'[d] = call[d] /\ ReadingLease(d)
    BY <1>2, <1>3 DEF ReadingLease
  <2>2. /\ reply[d] = NoLease /\ call[d].seen # NoLease
        /\ IdIn(file) = {Id(call[d].seen)} => interim[d] \subseteq {Id(call[d].seen)}
    BY <2>1 DEF CurrentInv, ReadingInv
  <2>3. PICK p \in promised : Id(p) = Id(call[d].seen)
    BY <2>1 DEF CurrentInv, ReadingInv
  <2>4. \E q \in promised' : Id(q) = Id(call[d].seen)
    BY <1>1, <2>3
  <2>5. ASSUME Id(l) = Id(call[d].seen)
        PROVE  interim'[d] \subseteq {Id(call[d].seen)}
    <3>1. ~(p.acquired < l.acquired)
      <4>1. p.acquired = l.acquired /\ l.acquired \in Nat
        BY <2>3, <2>5, LeaseFields DEF Id
      <4> QED
        BY <4>1
    <3>2. file # NoLease /\ Id(l) = Id(file)
      BY <2>3, <3>1
    <3>3. IdIn(file) = {Id(call[d].seen)}
      BY <2>5, <3>2, IdSingleton
    <3> QED
      BY <1>4, <2>1, <2>2, <2>5, <3>3
  <2> QED
    BY <1>1, <2>1, <2>2, <2>4, <2>5
<1> QED
  BY <1>5, <1>6 DEF CurrentInv

LEMMA AcquireKeepsReaders ==
    ASSUME IInv, CurrentInv, NEW c \in Callers, Acquire(c)
    PROVE  CurrentInv'
<1> DEFINE k == call[c]
           l == [session |-> k.session, owner |-> k.owner, acquired |-> AcquiredAt(k),
                 expires |-> Expiry(k)]
<1>1. /\ Publish(c, l) /\ LeaveLock(c, AfterLock(k)) /\ UNCHANGED reply
      /\ k # Idle /\ k.step = "read"
  BY DEF Acquire
<1>2. /\ k \in Call /\ k.moment \in Nat
      /\ \A p \in promised : p.acquired < k.moment
      /\ k.seen = IF k.blind THEN NoLease ELSE file
  BY <1>1, Decision
<1>3. l \in Lease /\ l.session = k.session /\ l.acquired = AcquiredAt(k)
  <2>1. AcquiredAt(k) \in Nat
    BY <1>2, CallFields, LeaseFields DEF AcquiredAt, HeldByUs, HeldAt
  <2>2. k.session \in Sessions /\ k.owner \in Owners /\ k.ttl \in TTLs
    BY <1>2, CallFields
  <2>3. k.moment \in Nat /\ k.ttl \in Nat
    BY <1>2, <2>2, LeaseAssumption
  <2>4. Expiry(k) \in Nat
    BY <2>3 DEF Expiry
  <2> QED
    BY <2>1, <2>2, <2>4 DEF Lease
<1>4. \/ file # NoLease /\ Id(l) = Id(file)
      \/ \A p \in promised : p.acquired < l.acquired
  <2>1. CASE HeldByUs(k)
    <3>1. file # NoLease /\ k.seen = file /\ file.session = k.session
      BY <1>2, <2>1 DEF HeldByUs, HeldAt
    <3> QED
      BY <1>3, <2>1, <3>1 DEF AcquiredAt, Id
  <2>2. CASE ~HeldByUs(k)
    BY <1>2, <1>3, <2>2 DEF AcquiredAt
  <2> QED
    BY <2>1, <2>2
<1> HIDE DEF l
<1> QED
  BY <1>1, <1>3, <1>4, PublishKeepsReaders

LEMMA RenewKeepsReaders ==
    ASSUME IInv, CurrentInv, NEW c \in Callers, Renew(c)
    PROVE  CurrentInv'
<1> DEFINE k == call[c]
           l == [k.seen EXCEPT !.expires = Expiry(k)]
<1>1. /\ Publish(c, l) /\ LeaveLock(c, AfterLock(k)) /\ UNCHANGED reply
      /\ k # Idle /\ k.step = "read" /\ HeldByUs(k)
  BY DEF Renew, MayRenew
<1>2. k \in Call /\ k.moment \in Nat /\ k.seen = IF k.blind THEN NoLease ELSE file
  BY <1>1, Decision
<1>3. file # NoLease /\ k.seen = file /\ file \in Lease
  BY <1>1, <1>2 DEF HeldByUs, HeldAt, IInv, LeaseTypeOK
<1>4. l \in Lease /\ Id(l) = Id(file)
  <2>1. k.ttl \in TTLs
    BY <1>2, CallFields
  <2>2. k.moment \in Nat /\ k.ttl \in Nat
    BY <1>2, <2>1, LeaseAssumption
  <2>3. Expiry(k) \in Nat
    BY <2>2 DEF Expiry
  <2> QED
    BY <1>3, <2>3 DEF Lease, Id
<1> HIDE DEF l
<1> QED
  BY <1>1, <1>3, <1>4, PublishKeepsReaders

LEMMA ReleaseKeepsReaders ==
    ASSUME IInv, CurrentInv, NEW c \in Callers, Release(c)
    PROVE  CurrentInv'
<1>1. /\ file' = NoLease /\ UNCHANGED <<promised, reply>>
      /\ Watch(NoLease) /\ LeaveLock(c, AfterLock(call[c]))
      /\ call[c] # Idle /\ call[c].step = "read"
  BY DEF Release
<1>2. \A d \in Callers : interim'[d] = interim[d]
  BY <1>1, IdSingleton DEF Watch
<1>3. ~ReadingLease(c)'
  <2>1. call'[c] = AfterLock(call[c]) /\ call[c] \in Call
    BY <1>1, Decision DEF LeaveLock, IInv, LeaseTypeOK
  <2> QED
    BY <2>1 DEF ReadingLease, AfterLock, SavingCall, Call
<1>4. \A d \in Callers : d # c => call'[d] = call[d]
  BY <1>1 DEF LeaveLock, IInv, LeaseTypeOK
<1> QED
  BY <1>1, <1>2, <1>3, <1>4, UnpublishedSteps DEF Unpublished

LEMMA FirstReadKeepsReaders ==
    ASSUME IInv, CurrentInv, NEW c \in Callers, FirstRead(c)
    PROVE  CurrentInv'
<1>1. /\ file # NoLease /\ IdIn(file) = {Id(file)} /\ file \in promised
      /\ UNCHANGED <<file, promised>>
  BY IdSingleton DEF FirstRead, HeldAt, IInv, PromiseInv, history
<1>2. call'[c].seen = file /\ interim'[c] = {Id(file)} /\ reply'[c] = NoLease
  BY <1>1 DEF FirstRead, IInv, LeaseTypeOK
<1>3. \A d \in Callers : d # c => /\ call'[d] = call[d] /\ reply'[d] = reply[d]
                                  /\ interim'[d] = interim[d]
  BY DEF FirstRead, IInv, LeaseTypeOK
<1>4. ReadingInv'
  BY <1>1, <1>2, <1>3 DEF CurrentInv, ReadingInv, ReadingLease, Id, IdIn
<1>5. CurrentIsOneTenure'
  BY <1>2, <1>3 DEF CurrentInv, CurrentIsOneTenure, Id
<1> QED
  BY <1>4, <1>5 DEF CurrentInv

LEMMA SecondReadKeepsReaders ==
    ASSUME IInv, CurrentInv, NEW c \in Callers, SecondRead(c)
    PROVE  CurrentInv'
<1>1. /\ call[c] # Idle /\ call[c].step = "first" /\ call' = [call EXCEPT ![c] = Idle]
      /\ UNCHANGED <<file, promised>>
  BY DEF SecondRead, history
<1>2. call'[c] = Idle /\ \A d \in Callers : d # c => /\ call'[d] = call[d]
                                                     /\ reply'[d] = reply[d]
                                                     /\ interim'[d] = interim[d]
  BY DEF SecondRead, IInv, LeaseTypeOK
<1>3. ReadingInv'
  BY <1>1, <1>2 DEF CurrentInv, ReadingInv, ReadingLease, Id, IdIn
<1>4. CurrentIsOneTenure'
  <2>1. reply'[c] # NoLease => /\ reply'[c] = file /\ file # NoLease
                               /\ Id(call[c].seen) = Id(file) /\ interim'[c] = interim[c]
    BY DEF SecondRead, IInv, LeaseTypeOK, HeldAt, SameLease
  <2>2. IdIn(file) = {Id(call[c].seen)} => interim[c] \subseteq {Id(call[c].seen)}
    BY <1>1 DEF CurrentInv, ReadingInv, ReadingLease
  <2>3. reply'[c] # NoLease => interim'[c] \subseteq {Id(reply'[c])}
    BY <2>1, <2>2, IdSingleton
  <2> QED
    BY <1>2, <2>3 DEF CurrentInv, CurrentIsOneTenure, Id
<1> QED
  BY <1>3, <1>4 DEF CurrentInv

LEMMA CurrentNext == IInv /\ CurrentInv /\ [LeaseNext]_leaseVars => CurrentInv'
<1> SUFFICES ASSUME IInv, CurrentInv, [LeaseNext]_leaseVars PROVE CurrentInv'
  OBVIOUS
<1>1. ASSUME NEW c \in Callers, NEW op \in Ops, NEW s \in Sessions, NEW o \in Owners,
             NEW d \in TTLs, NEW f \in BOOLEAN, Invoke(c, op, s, o, d, f)
      PROVE CurrentInv'
  <2>1. /\ call'[c].step = "waiting" /\ reply'[c] = NoLease
        /\ \A e \in Callers : e # c => /\ call'[e] = call[e] /\ reply'[e] = reply[e]
                                       /\ interim'[e] = interim[e]
        /\ UNCHANGED <<file, promised>>
    BY <1>1 DEF Invoke, IInv, LeaseTypeOK, history
  <2>2. ~ReadingLease(c)'
    BY <2>1 DEF ReadingLease
  <2> QED
    BY <2>1, <2>2, UnpublishedSteps DEF Unpublished
<1>2. ASSUME NEW c \in Callers,
             \/ TakeLock(c) \/ LockTimeout(c) \/ ReadLease(c) \/ ReadUnreadable(c)
             \/ Refuse(c) \/ SaveBrief(c) \/ SaveFails(c)
      PROVE CurrentInv'
  <2>1. /\ UNCHANGED <<file, promised, reply, interim>>
        /\ \A d \in Callers : d # c => call'[d] = call[d]
    BY <1>2 DEF TakeLock, LockTimeout, ReadLease, ReadUnreadable, Refuse, SaveBrief,
                SaveFails, LeaveLock, history, IInv, LeaseTypeOK
  <2>2. ~ReadingLease(c)'
    <3>1. CASE LockTimeout(c) \/ Refuse(c) \/ SaveBrief(c)
      BY <3>1 DEF LockTimeout, Refuse, SaveBrief, LeaveLock, ReadingLease, IInv, LeaseTypeOK
    <3>2. CASE TakeLock(c) \/ ReadLease(c) \/ ReadUnreadable(c) \/ SaveFails(c)
      <4>1. call[c] \in Call
        BY <3>2, CallTyped DEF TakeLock, ReadLease, ReadUnreadable, SaveFails, IInv
      <4>2. CASE SaveFails(c)
        <5>1. call'[c] = CleanupCall(call[c])
          BY <4>2 DEF SaveFails, IInv, LeaseTypeOK
        <5> QED
          BY <4>1, <5>1 DEF CleanupCall, ReadingLease, Call
      <4>3. CASE TakeLock(c) \/ ReadLease(c) \/ ReadUnreadable(c)
        <5>1. call'[c].step \in {"locked", "read"}
          BY <4>1, <4>3 DEF TakeLock, ReadLease, ReadUnreadable, IInv, LeaseTypeOK, Call
        <5> QED
          BY <5>1 DEF ReadingLease
      <4> QED
        BY <3>2, <4>2, <4>3
    <3> QED
      BY <1>2, <3>1, <3>2
  <2> QED
    BY <2>1, <2>2, UnpublishedSteps DEF Unpublished
<1>3. ASSUME NEW c \in Callers, Acquire(c) PROVE CurrentInv'
  BY <1>3, AcquireKeepsReaders
<1>4. ASSUME NEW c \in Callers, Renew(c) PROVE CurrentInv'
  BY <1>4, RenewKeepsReaders
<1>5. ASSUME NEW c \in Callers, Release(c) PROVE CurrentInv'
  BY <1>5, ReleaseKeepsReaders
<1>6. ASSUME NEW c \in Callers, FirstRead(c) PROVE CurrentInv'
  BY <1>6, FirstReadKeepsReaders
<1>7. ASSUME NEW c \in Callers, SecondRead(c) PROVE CurrentInv'
  BY <1>7, SecondReadKeepsReaders
<1>8. ASSUME NEW c \in Callers, CallerDies(c) PROVE CurrentInv'
  <2>1. /\ UNCHANGED <<file, promised, reply>> /\ interim'[c] = {} /\ call'[c] = Idle
        /\ \A d \in Callers : d # c => call'[d] = call[d] /\ interim'[d] = interim[d]
    BY <1>8 DEF CallerDies, history, IInv, LeaseTypeOK
  <2> QED
    BY <2>1, UnpublishedSteps DEF Unpublished, ReadingLease
<1>9. CASE Tick \/ Corrupt \/ UNCHANGED leaseVars
  BY <1>9, UnpublishedSteps DEF Unpublished, ReadingLease, Tick, Corrupt, leaseVars, history
<1> QED
  BY <1>1, <1>2, <1>3, <1>4, <1>5, <1>6, <1>7, <1>8, <1>9 DEF LeaseNext, LeaseCommand

\* Whatever the numbers of sessions, callers and durations: a lease reported as
\* current was the only one in the file between the two reads that vouch for it.
THEOREM CurrentIsGenuine == LeaseSpec => []CurrentIsOneTenure
<1>1. LeaseInit => CurrentInv
  BY DEF LeaseInit, CurrentInv, ReadingInv, ReadingLease, CurrentIsOneTenure
<1>2. CurrentInv => CurrentIsOneTenure
  BY DEF CurrentInv
<1> QED
  BY <1>1, <1>2, CurrentNext, InductiveInvariant, PTL DEF LeaseSpec
-----------------------------------------------------------------------------
(* The commands implement the abstract lease.                              *)

LEMMA SameLeases == Abstract!Lease = Lease /\ \A l : Abstract!Id(l) = Id(l)
BY DEF Abstract!Lease, Lease, Abstract!Id, Id

LEMMA AcquireRefines ==
    ASSUME IInv, NEW c \in Callers, Acquire(c)
    PROVE  Abstract!Begin \/ Abstract!Extend
<1> DEFINE k == call[c]
           l == [session |-> k.session, owner |-> k.owner, acquired |-> AcquiredAt(k),
                 expires |-> Expiry(k)]
<1>1. Publish(c, l) /\ k # Idle /\ k.step = "read" /\ ~Refused(k) /\ UNCHANGED clock
  BY DEF Acquire
<1>2. /\ k \in Call /\ k.moment \in Nat /\ k.moment <= clock
      /\ \A p \in promised : p.acquired < k.moment
      /\ k.seen = IF k.blind THEN NoLease ELSE file
  BY <1>1, Decision
<1>3. l \in Lease /\ l.session = k.session /\ l.acquired = AcquiredAt(k)
  <2>1. AcquiredAt(k) \in Nat
    BY <1>2, CallFields, LeaseFields DEF AcquiredAt, HeldByUs, HeldAt
  <2>2. k.session \in Sessions /\ k.owner \in Owners /\ k.ttl \in TTLs
    BY <1>2, CallFields
  <2>3. k.moment \in Nat /\ k.ttl \in Nat
    BY <1>2, <2>2, LeaseAssumption
  <2>4. Expiry(k) \in Nat
    BY <2>3 DEF Expiry
  <2> QED
    BY <2>1, <2>2, <2>4 DEF Lease
<1> HIDE DEF k, l
<1>4. /\ file' = l
      /\ promised' = {p \in promised : Id(p) # Id(file')} \cup {file'}
      /\ EndsTenure(c, l)
  BY <1>1 DEF Publish
<1>5. Abstract!Promise(file')
  BY <1>4, SameLeases DEF Abstract!Promise
<1>6. CASE HeldByUs(k)
  <2>1. file # NoLease /\ k.seen = file /\ file.session = k.session
    BY <1>2, <1>6 DEF HeldByUs, HeldAt
  <2>2. Id(l) = Id(file)
    BY <1>3, <1>6, <2>1 DEF AcquiredAt, Id
  <2>3. IdIn(file) = IdIn(l)
    BY <1>3, <2>1, <2>2, LeaseAssumption DEF IdIn
  <2>4. UNCHANGED ended
    BY <1>4, <2>3 DEF EndsTenure
  <2> QED
    BY <1>1, <1>3, <1>4, <1>5, <2>1, <2>2, <2>4, SameLeases DEF Abstract!Extend
<1>7. CASE ~HeldByUs(k)
  <2>1. l.acquired = k.moment
    BY <1>3, <1>7 DEF AcquiredAt
  <2>2. \/ ended' = ended
        \/ (file # NoLease /\ ended' = ended \cup {Id(file)})
    BY <1>4 DEF EndsTenure, IdIn
  <2>3. ASSUME file # NoLease, ended' = ended, ~(file.expires <= clock)
        PROVE  Id(file) \in ended
    <3>1. file \in promised /\ file \in Lease
      BY <2>3 DEF IInv, PromiseInv, LeaseTypeOK
    <3>2. Id(l) # Id(file)
      BY <1>2, <2>1, <3>1, LeaseFields DEF Id
    <3>3. k.force \/ k.blind \/ file.session = k.session
      BY <1>1, <1>2, <2>3, <3>1, LeaseFields DEF Refused, HeldAt, IInv, LeaseTypeOK
    <3>4. IdIn(file) = {Id(file)} /\ IdIn(l) = {Id(l)}
      BY <1>3, <2>3, LeaseAssumption DEF IdIn
    <3> QED
      BY <1>4, <2>3, <3>2, <3>3, <3>4 DEF EndsTenure, k
  <2>4. \/ (ended' = ended /\ (file # NoLease => file.expires <= clock))
        \/ (file # NoLease /\ ended' = ended \cup {Id(file)})
    BY <2>2, <2>3
  <2> QED
    BY <1>1, <1>2, <1>3, <1>4, <1>5, <2>1, <2>4, SameLeases DEF Abstract!Begin
<1> QED
  BY <1>6, <1>7

LEMMA RenewRefines ==
    ASSUME IInv, NEW c \in Callers, Renew(c)
    PROVE  Abstract!Extend
<1> DEFINE k == call[c]
           l == [k.seen EXCEPT !.expires = Expiry(k)]
<1>1. Publish(c, l) /\ k # Idle /\ k.step = "read" /\ HeldByUs(k) /\ UNCHANGED clock
  BY DEF Renew, MayRenew
<1>2. k \in Call /\ k.moment \in Nat /\ k.seen = IF k.blind THEN NoLease ELSE file
  BY <1>1, Decision
<1>3. file # NoLease /\ k.seen = file /\ file \in Lease
  BY <1>1, <1>2 DEF HeldByUs, HeldAt, IInv, LeaseTypeOK
<1>4. l \in Lease /\ Id(l) = Id(file)
  <2>1. k.ttl \in TTLs
    BY <1>2, CallFields
  <2>2. k.moment \in Nat /\ k.ttl \in Nat
    BY <1>2, <2>1, LeaseAssumption
  <2>3. Expiry(k) \in Nat
    BY <2>2 DEF Expiry
  <2> QED
    BY <1>3, <2>3 DEF Lease, Id
<1> HIDE DEF k, l
<1>5. /\ file' = l
      /\ promised' = {p \in promised : Id(p) # Id(file')} \cup {file'}
      /\ EndsTenure(c, l)
  BY <1>1 DEF Publish
<1>6. IdIn(file) = IdIn(l)
  BY <1>3, <1>4, LeaseAssumption DEF IdIn
<1>7. UNCHANGED ended
  BY <1>5, <1>6 DEF EndsTenure
<1> QED
  BY <1>1, <1>3, <1>4, <1>5, <1>7, SameLeases DEF Abstract!Extend, Abstract!Promise

LEMMA ReleaseRefines ==
    ASSUME IInv, NEW c \in Callers, Release(c)
    PROVE  Abstract!Finish \/ UNCHANGED Abstract!vars
<1> DEFINE k == call[c]
<1>1. /\ k # Idle /\ k.step = "read" /\ ~Refused(k) /\ file' = NoLease
      /\ EndsTenure(c, NoLease) /\ UNCHANGED <<clock, promised>>
  BY DEF Release
<1>2. k.moment \in Nat /\ k.moment <= clock /\ k.seen = IF k.blind THEN NoLease ELSE file
  BY <1>1, Decision
<1>3. CASE file = NoLease
  BY <1>1, <1>3 DEF EndsTenure, IdIn, Abstract!vars
<1>4. CASE file # NoLease
  <2>1. file.expires \in Nat /\ clock \in Nat
    BY <1>4, LeaseFields DEF IInv, LeaseTypeOK
  <2>2. IdIn(file) = {Id(file)} /\ IdIn(NoLease) = {}
    BY <1>4 DEF IdIn
  <2>3. CASE k.force \/ k.blind \/ file.session = k.session
    <3>1. ended' = ended \cup {Id(file)}
      BY <1>1, <1>4, <2>2, <2>3 DEF EndsTenure
    <3> QED
      BY <1>1, <1>4, <3>1, SameLeases DEF Abstract!Finish
  <2>4. CASE ~(k.force \/ k.blind \/ file.session = k.session)
    <3>1. file.expires <= clock
      BY <1>1, <1>2, <1>4, <2>1, <2>4 DEF Refused, HeldAt
    <3>2. ended' = ended
      BY <1>1, <1>4, <2>4 DEF EndsTenure
    <3> QED
      BY <1>1, <1>4, <3>1, <3>2 DEF Abstract!Finish
  <2> QED
    BY <2>3, <2>4
<1> QED
  BY <1>3, <1>4

\* Every step of a command is a step of the abstract lease or leaves it alone:
\* tenures follow one another, and a live one is cut short only on purpose.
THEOREM LeaseRefinement == LeaseSpec => ImplementsExclusiveLease
<1>1. LeaseInit => Abstract!Init
  BY DEF LeaseInit, Abstract!Init
<1>2. IInv /\ [LeaseNext]_leaseVars => [Abstract!Next]_(Abstract!vars)
  <2> SUFFICES ASSUME IInv, [LeaseNext]_leaseVars
               PROVE  Abstract!Next \/ UNCHANGED Abstract!vars
    OBVIOUS
  <2>1. ASSUME NEW c \in Callers, Acquire(c) PROVE Abstract!Next
    BY <2>1, AcquireRefines DEF Abstract!Next
  <2>2. ASSUME NEW c \in Callers, Renew(c) PROVE Abstract!Next
    BY <2>2, RenewRefines DEF Abstract!Next
  <2>3. ASSUME NEW c \in Callers, Release(c) PROVE Abstract!Next \/ UNCHANGED Abstract!vars
    BY <2>3, ReleaseRefines DEF Abstract!Next
  <2>4. ASSUME Tick \/ \E c \in Callers : TakeLock(c) PROVE Abstract!Next
    <3>1. clock' = clock + 1 /\ UNCHANGED <<file, promised, ended>>
      BY <2>4 DEF Tick, TakeLock, history
    <3>2. clock' > clock
      BY <3>1 DEF IInv, LeaseTypeOK
    <3> QED
      BY <3>1, <3>2 DEF Abstract!Next, Abstract!Pass
  <2>5. ASSUME Corrupt PROVE Abstract!Next
    <3>1. file # NoLease /\ IdIn(file) = {Id(file)}
      BY <2>5 DEF Corrupt, IdIn
    <3>2. ended' = ended \cup {Id(file)}
      BY <2>5, <3>1 DEF Corrupt
    <3> QED
      BY <2>5, <3>1, <3>2, SameLeases DEF Corrupt, Abstract!Next, Abstract!Finish
  <2>6. ASSUME NEW c \in Callers,
               \/ LockTimeout(c) \/ ReadLease(c) \/ ReadUnreadable(c) \/ Refuse(c)
               \/ SaveBrief(c) \/ SaveFails(c) \/ FirstRead(c)
               \/ SecondRead(c) \/ CallerDies(c)
        PROVE  UNCHANGED Abstract!vars
    BY <2>6 DEF LockTimeout, ReadLease, ReadUnreadable, Refuse, SaveBrief, SaveFails,
                FirstRead, SecondRead, CallerDies, history, Abstract!vars
  <2>7. ASSUME NEW c \in Callers, NEW op \in Ops, NEW s \in Sessions, NEW o \in Owners,
               NEW d \in TTLs, NEW f \in BOOLEAN, Invoke(c, op, s, o, d, f)
        PROVE  UNCHANGED Abstract!vars
    BY <2>7 DEF Invoke, history, Abstract!vars
  <2>8. CASE UNCHANGED leaseVars
    BY <2>8 DEF leaseVars, history, Abstract!vars
  <2> QED
    BY <2>1, <2>2, <2>3, <2>4, <2>5, <2>6, <2>7, <2>8 DEF LeaseNext, LeaseCommand
<1> QED
  BY <1>1, <1>2, InductiveInvariant, PTL DEF LeaseSpec, Abstract!Spec, ImplementsExclusiveLease

(***************************************************************************)
(* The remote session                                                      *)
(***************************************************************************)
Locals == {record, mem} \ {NoRecord}

\* A process in a command has a copy; one in a request step has a request.
CommandInv == /\ pc # "idle" => mem \in Record /\ record \in Record
              /\ pc \in {"op", "intent", "send"} => cmd.name \in {"message", "cancel"}
              /\ pc \notin {"idle", "save", "discard"} => cmd # NoCommand
              /\ pc = "idle" => cmd = NoCommand
              /\ retire # "no" => record \in Record

\* Nothing is created before the reservation and the checkpoint, and only one
\* process ever comes to the create request.
CreateInv == /\ posts = 0 => flight = {} /\ ~remote.exists
             /\ record = NoRecord => posts = 0
             /\ pc \in {"create", "post"} => posts = 0
             /\ posts <= 1

\* The copy holds the same requests as the store, but for an intent that is
\* not written yet, and only recorded requests were sent.
RequestInv == /\ record = NoRecord => \A k \in Requests : sent[k] = 0
              /\ record # NoRecord =>
                   \A k \in Requests : /\ sent[k] <= 1
                                       /\ sent[k] = 1 => record.ops[k] # "absent"
              /\ pc \in Steps \ {"idle", "intent"} => mem.ops = record.ops
              /\ pc = "intent" =>
                   /\ NonePending(record)
                   /\ record.ops[cmd.request] = "absent"
                   /\ mem.ops = [record.ops EXCEPT ![cmd.request] = "pending"]
              /\ pc = "send" =>
                   /\ sent[cmd.request] = 0
                   /\ mem.ops[cmd.request] = "pending"
                   /\ \A j \in Requests \ {cmd.request} : mem.ops[j] # "pending"

\* A write that may still take effect belongs to an unbound session or to a
\* request that is recorded as pending.
FlightInv == /\ "create" \in flight => record # NoRecord /\ ~record.bound /\ ~remote.exists
             /\ record # NoRecord /\ record.bound => remote.exists
             /\ pc \in {"op", "intent", "send"} => record.bound
             /\ \A k \in Requests : k \in flight =>
                  record # NoRecord /\ record.ops[k] = "pending" /\ sent[k] = 1
             /\ pc \in {"op", "intent", "send", "get", "save", "discard"} =>
                  mem.bound = record.bound
             /\ pc \in {"bind", "op"} /\ cmd.name \in {"message", "cancel"} =>
                  Settled(cmd)
             /\ pc \in {"create", "post", "bind"} => ~record.bound /\ ~mem.bound

\* A retired writer has no message underway.
RetireInv == /\ \A r \in Locals : r.retired => \A k \in Messages : r.ops[k] # "pending"
             /\ pc # "idle" => (record.retired => mem.retired)
             /\ pc \notin {"idle", "save"} => mem.retired = record.retired
             /\ pc \in {"bind", "op", "intent", "send"} /\ cmd.name = "message" =>
                  ~mem.retired

\* The provider shows nothing, the result of its round, or what it went on
\* showing when the round began.
ShownInv == remote.result \in {remote.round, remote.kept, NoResult}

\* A private result that counts as collected was collected for the requests
\* recorded now, and there is none while the fate of a request is open.
ResultInv == /\ \A r \in Locals :
                  r.collect = 1 /\ artifact # NoResult =>
                    /\ collectedAt = Recorded(r)
                    /\ artifact \in {remote.round, remote.kept}
                    /\ \A k \in Requests : record.ops[k] # "pending"
             /\ pc \in {"intent", "send"} => artifact = NoResult /\ mem.collect = 0

Inv == TypeOK /\ CommandInv /\ CreateInv /\ RequestInv /\ FlightInv /\ RetireInv
         /\ ShownInv /\ ResultInv
-----------------------------------------------------------------------------
LEMMA RequestTyped ==
    ASSUME NEW c \in Command, c.name \in {"message", "cancel"}
    PROVE  /\ c.request \in Requests
           /\ c.name = "message" <=> c.request \in Messages
           /\ c.acknowledge \in BOOLEAN
  BY RemoteAssumption DEF Command, Requests

\* An update that leaves the requests and their counters alone.
Kept(s, r) == s \in Record /\ s.ops = r.ops /\ s.message = r.message /\ s.cancel = r.cancel

OpsOf == [Requests -> {"absent", "pending", "done"}]

WithMessages(s, r, o, n) == s = [r EXCEPT !.ops = o, !.message = n]
WithCancels(s, r, o, n) == s = [r EXCEPT !.ops = o, !.cancel = n]

LEMMA Recounted ==
    ASSUME NEW r \in Record, NEW o \in OpsOf, NEW n \in Nat, NEW s,
           WithMessages(s, r, o, n) \/ WithCancels(s, r, o, n)
    PROVE  /\ s \in Record
           /\ s.ops = o /\ s.bound = r.bound /\ s.retired = r.retired
           /\ s.collect = r.collect
  <1>1. CASE WithMessages(s, r, o, n)
    BY <1>1 DEF WithMessages, Record, OpsOf
  <1>2. CASE WithCancels(s, r, o, n)
    BY <1>2 DEF WithCancels, Record, OpsOf
  <1> QED
    BY <1>1, <1>2

\* Counting a request makes it done and changes nothing else but a counter.
LEMMA Counting ==
    ASSUME NEW r \in Record, NEW k \in Requests
    PROVE  /\ Counted(r, k) \in Record
           /\ Counted(r, k).ops = [r.ops EXCEPT ![k] = "done"]
           /\ Counted(r, k).bound = r.bound /\ Counted(r, k).retired = r.retired
           /\ Counted(r, k).collect = r.collect
  <1> DEFINE done == [r.ops EXCEPT ![k] = "done"]
  <1>1. done \in OpsOf /\ r.message + 1 \in Nat /\ r.cancel + 1 \in Nat
    BY DEF Record, OpsOf
  <1>2. \/ WithMessages(Counted(r, k), r, done, r.message + 1)
        \/ WithCancels(Counted(r, k), r, done, r.cancel + 1)
    BY DEF Counted, WithMessages, WithCancels, Record
  <1> HIDE DEF done
  <1>3. /\ Counted(r, k) \in Record /\ Counted(r, k).ops = done
        /\ Counted(r, k).bound = r.bound /\ Counted(r, k).retired = r.retired
        /\ Counted(r, k).collect = r.collect
    BY <1>1, <1>2, Recounted
  <1> QED
    BY <1>3 DEF done

LEMMA Acknowledging ==
    ASSUME NEW r \in Record, NEW k \in Requests, r.ops[k] # "absent"
    PROVE  LET s == AcknowledgedOnce(r, k) IN
           /\ s \in Record /\ s.ops = [r.ops EXCEPT ![k] = "done"]
           /\ s.bound = r.bound /\ s.retired = r.retired /\ s.collect = r.collect
  <1>1. CASE r.ops[k] = "pending"
    BY <1>1, Counting DEF AcknowledgedOnce
  <1>2. CASE r.ops[k] # "pending"
    <2>1. AcknowledgedOnce(r, k) = r
      BY <1>2 DEF AcknowledgedOnce
    <2>2. r.ops \in OpsOf /\ r.ops[k] = "done"
      BY <1>2 DEF Record, OpsOf
    <2>3. r.ops = [r.ops EXCEPT ![k] = "done"]
      BY <2>2 DEF OpsOf
    <2> QED
      BY <2>1, <2>3
  <1> QED
    BY <1>1, <1>2

LEMMA Intending ==
    ASSUME NEW r \in Record, NEW k \in Requests, NEW a
    PROVE  /\ Intent(r, a, k).record \in Record
           /\ Intent(r, a, k).artifact = NoResult
           /\ Intent(r, a, k).record.ops = [r.ops EXCEPT ![k] = "pending"]
           /\ Intent(r, a, k).record.bound = r.bound
           /\ Intent(r, a, k).record.retired = r.retired
           /\ Intent(r, a, k).record.collect = 0
           /\ Intent(r, a, k).record.message = r.message
           /\ Intent(r, a, k).record.cancel = r.cancel
  BY DEF Intent, Record

\* The record the final read of a command leaves to be saved.
LEMMA SeenTyped ==
    ASSUME mem \in Record, NEW c \in BOOLEAN
    PROVE  /\ Seen(c) \in Record
           /\ Seen(c).ops = mem.ops /\ Seen(c).bound = mem.bound
           /\ Seen(c).retired = mem.retired
           /\ Seen(c).message = mem.message /\ Seen(c).cancel = mem.cancel
           /\ Seen(c).collect = 1 =>
                c /\ (mem.collect = 1 \/ (cmd.name = "collect" /\ remote.result # NoResult
                                         /\ ~Pending(mem)))
  <1>1. CASE ~c
    <2>1. Seen(c) = [mem EXCEPT !.state = "open", !.reason = "other", !.collect = 0]
      BY <1>1 DEF Seen, Record
    <2>2. Seen(c) \in Record
      BY <2>1 DEF Record
    <2> QED
      BY <2>1, <2>2, <1>1 DEF Record
  <1>2. CASE c
    <2> DEFINE r == [mem EXCEPT !.state = "complete", !.reason = "none", !.collect = @]
    <2>1. r \in Record
      BY DEF Record
    <2>2. [r EXCEPT !.reason = "other"] \in Record /\ [r EXCEPT !.collect = 1] \in Record
      BY DEF Record
    <2>3. Seen(c) = IF cmd.name = "collect"
                    THEN IF remote.result = NoResult THEN [r EXCEPT !.reason = "other"]
                         ELSE IF Pending(mem) THEN r ELSE [r EXCEPT !.collect = 1]
                    ELSE r
      BY <1>2 DEF Seen
    <2>4. CASE Seen(c) = [r EXCEPT !.reason = "other"]
      BY <2>2, <2>4, <1>2 DEF Record
    <2>5. CASE Seen(c) = r
      BY <2>1, <2>5, <1>2 DEF Record
    <2>6. CASE /\ Seen(c) = [r EXCEPT !.collect = 1]
               /\ cmd.name = "collect" /\ remote.result # NoResult /\ ~Pending(mem)
      BY <2>2, <2>6, <1>2 DEF Record
    <2> HIDE DEF r
    <2> QED
      BY <2>3, <2>4, <2>5, <2>6
  <1> QED
    BY <1>1, <1>2

LEMMA Overridden ==
    ASSUME NEW r \in Record,
           NEW s \in {r, [r EXCEPT !.state = "uncertain", !.reason = "other"]}
    PROVE  /\ s \in Record /\ s.ops = r.ops /\ s.bound = r.bound /\ s.retired = r.retired
           /\ s.message = r.message /\ s.cancel = r.cancel /\ s.collect = r.collect
  <1>1. CASE s = r
    BY <1>1
  <1>2. CASE s = [r EXCEPT !.state = "uncertain", !.reason = "other"]
    BY <1>2 DEF Record
  <1> QED
    BY <1>1, <1>2

\* What the final read leaves: the copy keeps its requests, and what counts as
\* collected was already collected or is collected now.
LEMMA GetTyped ==
    ASSUME mem \in Record, Get
    PROVE  /\ mem' \in Record /\ mem'.ops = mem.ops /\ mem'.bound = mem.bound
           /\ mem'.retired = mem.retired
           /\ mem'.message = mem.message /\ mem'.cancel = mem.cancel
           /\ mem'.collect = 1 /\ ~Collects => Completes /\ mem.collect = 1
  <1> DEFINE s == Seen(Completes)
  <1>1. Completes \in BOOLEAN
    BY DEF Completes
  <1>2. mem' \in {s, [s EXCEPT !.state = "uncertain", !.reason = "other"]}
    BY DEF Get
  <1>3. /\ s \in Record
        /\ s.ops = mem.ops /\ s.bound = mem.bound
        /\ s.retired = mem.retired
        /\ s.message = mem.message /\ s.cancel = mem.cancel
        /\ s.collect = 1 =>
             Completes /\ (mem.collect = 1 \/ (cmd.name = "collect" /\ remote.result # NoResult
                                              /\ ~Pending(mem)))
    BY <1>1, SeenTyped
  <1> HIDE DEF s
  <1>4. /\ mem' \in Record /\ mem'.ops = s.ops /\ mem'.bound = s.bound
        /\ mem'.retired = s.retired /\ mem'.message = s.message /\ mem'.cancel = s.cancel
        /\ mem'.collect = s.collect
    BY <1>2, <1>3, Overridden
  <1>5. mem.collect \in {0, 1}
    BY DEF Record
  <1> QED
    BY <1>3, <1>4, <1>5 DEF Collects

LEMMA Updates ==
    ASSUME NEW r \in Record
    PROVE  /\ LET s == [r EXCEPT !.retired = TRUE] IN
                Kept(s, r) /\ s.bound = r.bound /\ s.retired /\ s.collect = r.collect
           /\ LET s == [r EXCEPT !.collect = 0] IN
                Kept(s, r) /\ s.bound = r.bound /\ s.retired = r.retired /\ s.collect = 0
           /\ LET s == [r EXCEPT !.checkpoint = TRUE] IN
                Kept(s, r) /\ s.bound = r.bound /\ s.retired = r.retired /\ s.collect = r.collect
           /\ LET s == [r EXCEPT !.bound = TRUE, !.dispatched = 1] IN
                Kept(s, r) /\ s.bound /\ s.retired = r.retired /\ s.collect = r.collect
           /\ LET s == [r EXCEPT !.bound = TRUE, !.dispatched = 1,
                                 !.state = "pending", !.reason = "none"] IN
                Kept(s, r) /\ s.bound /\ s.retired = r.retired /\ s.collect = r.collect
           /\ LET s == [r EXCEPT !.state = "uncertain", !.reason = "provider_unavailable",
                                 !.collect = 0] IN
                Kept(s, r) /\ s.bound = r.bound /\ s.retired = r.retired /\ s.collect = 0
  <1> USE DEF Record, Kept
  <1>1. ASSUME NEW s, s = [r EXCEPT !.retired = TRUE]
        PROVE  Kept(s, r) /\ s.bound = r.bound /\ s.retired /\ s.collect = r.collect
    BY <1>1
  <1>2. ASSUME NEW s, s = [r EXCEPT !.collect = 0]
        PROVE  Kept(s, r) /\ s.bound = r.bound /\ s.retired = r.retired /\ s.collect = 0
    BY <1>2
  <1>3. ASSUME NEW s, s = [r EXCEPT !.checkpoint = TRUE]
        PROVE  Kept(s, r) /\ s.bound = r.bound /\ s.retired = r.retired
                 /\ s.collect = r.collect
    BY <1>3
  <1>4. ASSUME NEW s, s = [r EXCEPT !.bound = TRUE, !.dispatched = 1]
        PROVE  Kept(s, r) /\ s.bound /\ s.retired = r.retired /\ s.collect = r.collect
    BY <1>4
  <1>5. ASSUME NEW s, s = [r EXCEPT !.bound = TRUE, !.dispatched = 1,
                                    !.state = "pending", !.reason = "none"]
        PROVE  Kept(s, r) /\ s.bound /\ s.retired = r.retired /\ s.collect = r.collect
    BY <1>5
  <1>6. ASSUME NEW s, s = [r EXCEPT !.state = "uncertain", !.reason = "provider_unavailable",
                                    !.collect = 0]
        PROVE  Kept(s, r) /\ s.bound = r.bound /\ s.retired = r.retired /\ s.collect = 0
    BY <1>6
  <1> HIDE DEF Record, Kept
  <1> QED
    BY <1>1, <1>2, <1>3, <1>4, <1>5, <1>6

LEMMA FreshTyped ==
    ASSUME NEW i \in Inputs
    PROVE  /\ Fresh(i) \in Record
           /\ Fresh(i).ops = [k \in Requests |-> "absent"]
           /\ ~Fresh(i).bound /\ ~Fresh(i).retired /\ Fresh(i).collect = 0
           /\ Fresh(i).message = 0 /\ Fresh(i).cancel = 0
  BY DEF Fresh, Record

LEMMA InitInv == Init => Inv
  <1> SUFFICES ASSUME Init PROVE Inv
    OBVIOUS
  <1> USE DEF Init
  <1>1. TypeOK
    BY DEF TypeOK, Steps, Results, Raw
  <1>2. CommandInv /\ CreateInv /\ RequestInv /\ FlightInv /\ RetireInv /\ ShownInv /\ ResultInv
    BY DEF CommandInv, CreateInv, RequestInv, FlightInv, RetireInv, ShownInv, ResultInv, Locals,
           Requests, NoCommand
  <1> QED
    BY <1>1, <1>2 DEF Inv

\* The provider's session.
Session == [exists : BOOLEAN, raw : Raw, result : Results, round : Nat, kept : Results]

LEMMA EffectTyped ==
    ASSUME NEW k \in Requests, remote \in Session, Effect(k)
    PROVE  remote' \in Session /\ remote'.exists = remote.exists
  <1>1. ASSUME NEW res \in Results,
               remote' = [remote EXCEPT !.raw = "running", !.round = @ + 1, !.result = res,
                                        !.kept = res]
        PROVE  remote' \in Session /\ remote'.exists = remote.exists
    <2>1. remote.round + 1 \in Nat /\ "running" \in Raw
      BY DEF Session, Raw
    <2> QED
      BY <1>1, <2>1 DEF Session
  <1>2. CASE remote' = [remote EXCEPT !.raw = "terminated"]
    BY <1>2 DEF Session, Raw
  <1>3. \A res \in {remote.result, NoResult} : res \in Results
    BY DEF Session, Results
  <1> QED
    BY <1>1, <1>2, <1>3 DEF Effect

\* A request changes what a provider shows only by starting a round.
LEMMA EffectShows ==
    ASSUME NEW k \in Requests, remote \in Session, Effect(k)
    PROVE  \/ remote'.kept = remote'.result
           \/ /\ remote'.round = remote.round /\ remote'.kept = remote.kept
              /\ remote'.result = remote.result
  BY DEF Effect, Session

LEMMA CheckpointEffect ==
    ASSUME TypeOK, CommandInv, Checkpoint
    PROVE  /\ pc = "create" /\ pc' = "post" /\ record' = mem'
           /\ mem' \in Record /\ mem'.ops = mem.ops /\ mem'.message = mem.message
           /\ mem'.cancel = mem.cancel /\ mem'.retired = mem.retired
           /\ mem'.bound = mem.bound /\ mem'.collect = mem.collect
           /\ UNCHANGED <<artifact, collectedAt, cmd, retire, remote, flight, posts, sent>>
  <1>0. mem \in Record
    BY DEF Checkpoint, CommandInv, TypeOK
  <1> QED
    BY <1>0, Updates DEF Checkpoint, Kept, provider

LEMMA PostAnsweredEffect ==
    ASSUME TypeOK, CommandInv, PostAnswered
    PROVE  /\ pc = "post" /\ pc' = "get" /\ record' = mem'
           /\ mem' \in Record /\ mem'.ops = mem.ops /\ mem'.message = mem.message
           /\ mem'.cancel = mem.cancel /\ mem'.retired = mem.retired
           /\ mem'.bound /\ mem'.collect = mem.collect
           /\ remote' \in Session /\ remote'.exists /\ posts' = posts + 1
           /\ remote'.round = remote.round /\ remote'.kept = remote.kept
           /\ remote'.result = remote.result
           /\ UNCHANGED <<artifact, collectedAt, cmd, retire, flight, sent>>
  <1>0. /\ mem \in Record
        /\ remote \in Session
        /\ posts \in Nat
    BY DEF PostAnswered, CommandInv, TypeOK, Session
  <1> QED
    BY <1>0, Updates DEF PostAnswered, Kept, Session

LEMMA ReconcileEffect ==
    ASSUME TypeOK, CommandInv, Reconcile
    PROVE  /\ pc = "bind" /\ record' = mem' /\ remote.exists
           /\ pc' = IF cmd.name \in {"message", "cancel"} THEN "op" ELSE "get"
           /\ mem' \in Record /\ mem'.ops = mem.ops /\ mem'.message = mem.message
           /\ mem'.cancel = mem.cancel /\ mem'.retired = mem.retired
           /\ mem'.bound /\ mem'.collect = mem.collect
           /\ UNCHANGED <<artifact, collectedAt, cmd, retire, remote, flight, posts, sent>>
  <1>0. mem \in Record
    BY DEF Reconcile, CommandInv, TypeOK
  <1> QED
    BY <1>0, Updates DEF Reconcile, Kept, provider

LEMMA GetFailsEffect ==
    ASSUME TypeOK, CommandInv, GetFails
    PROVE  /\ pc = "get" /\ pc' = "save" /\ artifact' = NoResult
           /\ mem' \in Record /\ mem'.ops = mem.ops /\ mem'.message = mem.message
           /\ mem'.cancel = mem.cancel /\ mem'.retired = mem.retired
           /\ mem'.bound = mem.bound /\ mem'.collect = 0
           /\ UNCHANGED <<record, collectedAt, cmd, retire, remote, flight, posts, sent>>
  <1>0. mem \in Record
    BY DEF GetFails, CommandInv, TypeOK
  <1> QED
    BY <1>0, Updates DEF GetFails, Kept, provider

LEMMA DiscardEffect ==
    ASSUME TypeOK, CommandInv, Discard
    PROVE  /\ pc = "idle" /\ pc' = "discard" /\ record' = mem' /\ record.bound
           /\ record \in Record /\ mem' \in Record /\ mem'.ops = record.ops /\ mem'.message = record.message
           /\ mem'.cancel = record.cancel /\ mem'.retired = record.retired
           /\ mem'.bound = record.bound /\ mem'.collect = 0
           /\ UNCHANGED <<artifact, collectedAt, cmd, retire, remote, flight, posts, sent>>
  <1>0. record \in Record
    BY DEF Discard, CommandInv, TypeOK
  <1> QED
    BY <1>0, Updates DEF Discard, Kept, provider

LEMMA RetireVerifyEffect ==
    ASSUME TypeOK, CommandInv, RetireVerify
    PROVE  /\ pc = "idle" /\ pc' = "save" /\ retire' = "no" /\ NonePending(record)
           /\ record \in Record /\ mem' \in Record /\ mem'.ops = record.ops /\ mem'.message = record.message
           /\ mem'.cancel = record.cancel /\ mem'.retired
           /\ mem'.bound = record.bound /\ mem'.collect = record.collect
           /\ UNCHANGED <<record, artifact, collectedAt, cmd, remote, flight, posts, sent>>
  <1>0. record \in Record
    BY DEF RetireVerify, CommandInv, TypeOK
  <1> QED
    BY <1>0, Updates DEF RetireVerify, Kept, provider, stored

LEMMA GetEffect ==
    ASSUME TypeOK, CommandInv, Get
    PROVE  /\ pc = "get" /\ pc' = "save"
           /\ mem' \in Record /\ mem'.ops = mem.ops /\ mem'.message = mem.message
           /\ mem'.cancel = mem.cancel /\ mem'.retired = mem.retired
           /\ mem'.bound = mem.bound
           /\ \/ (artifact' \in {artifact, NoResult} /\ collectedAt' = collectedAt
                  /\ (mem'.collect = 1 => mem.collect = 1 /\ artifact' = artifact))
              \/ (artifact' = remote.result /\ collectedAt' = Recorded(mem) /\ ~Pending(mem))
           /\ UNCHANGED <<record, cmd, retire, remote, flight, posts, sent>>
  <1>0. mem \in Record
    BY DEF Get, CommandInv, TypeOK
  <1> QED
    BY <1>0, GetTyped DEF Get, Collects, provider

LEMMA AcknowledgeEffect ==
    ASSUME TypeOK, CommandInv, Acknowledge
    PROVE  /\ pc = "op" /\ pc' = "get" /\ record' = mem' /\ cmd.acknowledge
           /\ mem' \in Record
           /\ mem'.ops = [mem.ops EXCEPT ![cmd.request] = "done"]
           /\ mem.ops \in OpsOf /\ cmd.request \in Requests
           /\ mem.ops[cmd.request] # "absent"
           /\ mem'.bound = mem.bound /\ mem'.retired = mem.retired
           /\ mem'.collect = mem.collect
           /\ UNCHANGED <<artifact, collectedAt, cmd, retire, remote, flight, posts, sent>>
  <1>0. /\ mem \in Record
        /\ cmd.request \in Requests
    BY RequestTyped, RemoteAssumption DEF Acknowledge, CommandInv, TypeOK, NoCommand
  <1>2. mem.ops \in OpsOf
    BY <1>0 DEF Record, OpsOf
  <1> QED
    BY <1>0, <1>2, Acknowledging DEF Acknowledge, provider

LEMMA IntendEffect ==
    ASSUME TypeOK, CommandInv, Intend
    PROVE  /\ pc = "op" /\ pc' = "intent" /\ artifact' = NoResult
           /\ mem' \in Record
           /\ mem'.ops = [mem.ops EXCEPT ![cmd.request] = "pending"]
           /\ mem.ops \in OpsOf /\ cmd.request \in Requests
           /\ mem.ops[cmd.request] = "absent" /\ NonePending(mem)
           /\ mem'.bound = mem.bound /\ mem'.retired = mem.retired /\ mem'.collect = 0
           /\ mem'.message = mem.message /\ mem'.cancel = mem.cancel
           /\ UNCHANGED <<record, collectedAt, cmd, retire, remote, flight, posts, sent>>
  <1>0. /\ mem \in Record
        /\ cmd.request \in Requests
    BY RequestTyped, RemoteAssumption DEF Intend, CommandInv, TypeOK, NoCommand
  <1>2. mem.ops \in OpsOf
    BY <1>0 DEF Record, OpsOf
  <1> QED
    BY <1>0, <1>2, Intending DEF Intend, New, provider

LEMMA SendAnsweredEffect ==
    ASSUME TypeOK, CommandInv, SendAnswered
    PROVE  /\ pc = "send" /\ pc' = "get" /\ record' = mem'
           /\ mem' \in Record
           /\ mem'.ops = [mem.ops EXCEPT ![cmd.request] = "done"]
           /\ mem.ops \in OpsOf /\ cmd.request \in Requests
           /\ mem'.bound = mem.bound /\ mem'.retired = mem.retired
           /\ mem'.collect = mem.collect
           /\ sent' = [sent EXCEPT ![cmd.request] = @ + 1]
           /\ remote' \in Session /\ remote'.exists = remote.exists
           /\ UNCHANGED <<artifact, collectedAt, cmd, retire, flight, posts>>
  <1>0. /\ mem \in Record
        /\ cmd.request \in Requests
        /\ remote \in Session
    BY RequestTyped, RemoteAssumption DEF SendAnswered, CommandInv, TypeOK, NoCommand, Session
  <1>1. remote' \in Session /\ remote'.exists = remote.exists
    BY <1>0, EffectTyped DEF SendAnswered
  <1>2. mem.ops \in OpsOf
    BY <1>0 DEF Record, OpsOf
  <1> QED
    BY <1>1, <1>0, <1>2, Counting DEF SendAnswered
-----------------------------------------------------------------------------

LEMMA CommandStep ==
    ASSUME TypeOK, CommandInv, [Next]_vars
    PROVE  CommandInv' /\ (record \in Record => record' \in Record)
  <1> USE RemoteAssumption DEF stored, provider, CommandInv, NoCommand, Command
  <1>a. /\ record \in Record \cup {NoRecord} /\ mem \in Record \cup {NoRecord}
        /\ cmd \in Command \cup {NoCommand}
    BY DEF TypeOK, Session
  <1>1. CASE \E i \in Inputs : Dispatch(i)
    BY <1>a, <1>1, FreshTyped DEF Dispatch, Unreserved
  <1>2. CASE AdapterFails
    BY <1>a, <1>2 DEF AdapterFails, Fail, Return, Leave
  <1>3. CASE Checkpoint
    BY <1>a, <1>3, CheckpointEffect
  <1>4. CASE PostAnswered
    BY <1>a, <1>4, PostAnsweredEffect
  <1>5. CASE PostLost
    BY <1>a, <1>5 DEF PostLost, Fail, Return, Leave
  <1>6. CASE Enter
    BY <1>a, <1>6 DEF Enter, Start, Admitted, MessageAllowed
  <1>7. CASE Reconcile
    BY <1>a, <1>7, ReconcileEffect
  <1>8. CASE Unreconciled
    BY <1>a, <1>8 DEF Unreconciled, Fail, Return, Leave
  <1>9. CASE ReconcileFails
    BY <1>a, <1>9 DEF ReconcileFails, Fail, Return, Leave
  <1>10. CASE Acknowledge
    BY <1>a, <1>10, RequestTyped, AcknowledgeEffect
  <1>11. CASE AlreadyDone
    BY <1>a, <1>11, RequestTyped DEF AlreadyDone
  <1>12. CASE RefuseRequest
    BY <1>a, <1>12, RequestTyped DEF RefuseRequest, Fail, Return, Leave
  <1>13. CASE Intend
    BY <1>a, <1>13, RequestTyped, IntendEffect
  <1>14. CASE WriteIntent
    BY <1>a, <1>14, RequestTyped DEF WriteIntent, Persisted
  <1>15. CASE SendAnswered
    BY <1>a, <1>15, RequestTyped, SendAnsweredEffect
  <1>16. CASE SendLost
    BY <1>a, <1>16, RequestTyped, EffectTyped DEF SendLost, Fail, Return, Leave
  <1>17. CASE Get
    BY <1>a, <1>17, GetEffect
  <1>18. CASE GetFails
    BY <1>a, <1>18, GetFailsEffect
  <1>19. CASE Save
    BY <1>a, <1>19 DEF Save, Fail, Return, Leave
  <1>20. CASE Discard
    BY <1>a, <1>20, DiscardEffect
  <1>21. CASE DeleteDiscarded
    BY <1>a, <1>21 DEF DeleteDiscarded, Fail, Return, Leave
  <1>22. CASE RetireStart
    BY <1>a, <1>22 DEF RetireStart
  <1>23. CASE RetireCancel
    BY <1>a, <1>23 DEF RetireCancel, Start, Admitted
  <1>24. CASE RetireVerify
    BY <1>a, <1>24, RetireVerifyEffect
  <1>25. CASE RetireUnverified
    BY <1>a, <1>25 DEF RetireUnverified
  <1>26. CASE Crash
    BY <1>a, <1>26 DEF Crash, Fail, Return, Leave
  <1>27. CASE RetireCrash
    BY <1>a, <1>27 DEF RetireCrash
  <1>28. CASE Progress
    BY <1>a, <1>28 DEF Progress
  <1>29. CASE Arrive
    BY <1>a, <1>29, EffectTyped DEF Arrive
  <1>30. CASE UNCHANGED vars
    BY <1>a, <1>30 DEF vars
  <1> QED
    BY <1>1, <1>2, <1>3, <1>4, <1>5, <1>6, <1>7, <1>8, <1>9, <1>10, <1>11, <1>12, <1>13, <1>14,
       <1>15, <1>16, <1>17, <1>18, <1>19, <1>20, <1>21, <1>22, <1>23, <1>24, <1>25, <1>26,
       <1>27, <1>28, <1>29, <1>30 DEF Next

LEMMA CreateStep ==
    ASSUME TypeOK, CommandInv, CreateInv, FlightInv, [Next]_vars
    PROVE  CreateInv'
  <1> USE RemoteAssumption DEF stored, provider, CreateInv, FlightInv, CommandInv
  <1>a. /\ record \in Record \cup {NoRecord} /\ mem \in Record \cup {NoRecord}
        /\ posts \in Nat
        /\ remote \in Session
    BY DEF TypeOK, Session
  <1>b. CommandInv' /\ (record \in Record => record' \in Record)
    BY CommandStep
  <1>1. CASE \E i \in Inputs : Dispatch(i)
    BY <1>a, <1>b, <1>1, FreshTyped DEF Dispatch, Unreserved
  <1>2. CASE AdapterFails
    BY <1>a, <1>b, <1>2 DEF AdapterFails, Fail, Return, Leave
  <1>3. CASE Checkpoint
    BY <1>a, <1>b, <1>3, CheckpointEffect
  <1>4. CASE PostAnswered
    BY <1>a, <1>b, <1>4, PostAnsweredEffect
  <1>5. CASE PostLost
    BY <1>a, <1>b, <1>5 DEF PostLost, Fail, Return, Leave
  <1>6. CASE Enter
    BY <1>a, <1>b, <1>6 DEF Enter, Start, Admitted, MessageAllowed
  <1>7. CASE Reconcile
    BY <1>a, <1>b, <1>7, ReconcileEffect
  <1>8. CASE Unreconciled
    BY <1>a, <1>b, <1>8 DEF Unreconciled, Fail, Return, Leave
  <1>9. CASE ReconcileFails
    BY <1>a, <1>b, <1>9 DEF ReconcileFails, Fail, Return, Leave
  <1>10. CASE Acknowledge
    BY <1>a, <1>b, <1>10, RequestTyped, AcknowledgeEffect
  <1>11. CASE AlreadyDone
    BY <1>a, <1>b, <1>11, RequestTyped DEF AlreadyDone
  <1>12. CASE RefuseRequest
    BY <1>a, <1>b, <1>12, RequestTyped DEF RefuseRequest, Fail, Return, Leave
  <1>13. CASE Intend
    BY <1>a, <1>b, <1>13, RequestTyped, IntendEffect
  <1>14. CASE WriteIntent
    BY <1>a, <1>b, <1>14, RequestTyped DEF WriteIntent, Persisted
  <1>15. CASE SendAnswered
    BY <1>a, <1>b, <1>15, RequestTyped, SendAnsweredEffect
  <1>16. CASE SendLost
    BY <1>a, <1>b, <1>16, RequestTyped, EffectTyped DEF SendLost, Fail, Return, Leave
  <1>17. CASE Get
    BY <1>a, <1>b, <1>17, GetEffect
  <1>18. CASE GetFails
    BY <1>a, <1>b, <1>18, GetFailsEffect
  <1>19. CASE Save
    BY <1>a, <1>b, <1>19 DEF Save, Fail, Return, Leave
  <1>20. CASE Discard
    BY <1>a, <1>b, <1>20, DiscardEffect
  <1>21. CASE DeleteDiscarded
    BY <1>a, <1>b, <1>21 DEF DeleteDiscarded, Fail, Return, Leave
  <1>22. CASE RetireStart
    BY <1>a, <1>b, <1>22 DEF RetireStart
  <1>23. CASE RetireCancel
    BY <1>a, <1>b, <1>23 DEF RetireCancel, Start, Admitted
  <1>24. CASE RetireVerify
    BY <1>a, <1>b, <1>24, RetireVerifyEffect
  <1>25. CASE RetireUnverified
    BY <1>a, <1>b, <1>25 DEF RetireUnverified
  <1>26. CASE Crash
    BY <1>a, <1>b, <1>26 DEF Crash, Fail, Return, Leave
  <1>27. CASE RetireCrash
    BY <1>a, <1>b, <1>27 DEF RetireCrash
  <1>28. CASE Progress
    BY <1>a, <1>b, <1>28 DEF Progress
  <1>29. CASE Arrive
    BY <1>a, <1>b, <1>29, EffectTyped DEF Arrive
  <1>30. CASE UNCHANGED vars
    BY <1>a, <1>b, <1>30 DEF vars
  <1> QED
    BY <1>1, <1>2, <1>3, <1>4, <1>5, <1>6, <1>7, <1>8, <1>9, <1>10, <1>11, <1>12, <1>13, <1>14,
       <1>15, <1>16, <1>17, <1>18, <1>19, <1>20, <1>21, <1>22, <1>23, <1>24, <1>25, <1>26,
       <1>27, <1>28, <1>29, <1>30 DEF Next

LEMMA RequestStep ==
    ASSUME TypeOK, CommandInv, RequestInv, [Next]_vars
    PROVE  RequestInv'
  <1> USE RemoteAssumption DEF stored, provider, RequestInv, CommandInv, NonePending, Pending, Steps, OpsOf
  <1>a. /\ record \in Record \cup {NoRecord} /\ mem \in Record \cup {NoRecord}
        /\ cmd \in Command \cup {NoCommand}
        /\ sent \in [Requests -> Nat]
        /\ pc \in Steps
    BY DEF TypeOK, Session
  <1>b. CommandInv' /\ (record \in Record => record' \in Record)
    BY CommandStep
  <1>1. CASE \E i \in Inputs : Dispatch(i)
    BY <1>a, <1>b, <1>1, FreshTyped DEF Dispatch, Unreserved
  <1>2. CASE AdapterFails
    BY <1>a, <1>b, <1>2 DEF AdapterFails, Fail, Return, Leave
  <1>3. CASE Checkpoint
    BY <1>a, <1>b, <1>3, CheckpointEffect
  <1>4. CASE PostAnswered
    BY <1>a, <1>b, <1>4, PostAnsweredEffect
  <1>5. CASE PostLost
    BY <1>a, <1>b, <1>5 DEF PostLost, Fail, Return, Leave
  <1>6. CASE Enter
    BY <1>a, <1>b, <1>6 DEF Enter, Start, Admitted, MessageAllowed
  <1>7. CASE Reconcile
    BY <1>a, <1>b, <1>7, ReconcileEffect
  <1>8. CASE Unreconciled
    BY <1>a, <1>b, <1>8 DEF Unreconciled, Fail, Return, Leave
  <1>9. CASE ReconcileFails
    BY <1>a, <1>b, <1>9 DEF ReconcileFails, Fail, Return, Leave
  <1>10. CASE Acknowledge
    BY <1>a, <1>b, <1>10, RequestTyped, AcknowledgeEffect
  <1>11. CASE AlreadyDone
    BY <1>a, <1>b, <1>11, RequestTyped DEF AlreadyDone
  <1>12. CASE RefuseRequest
    BY <1>a, <1>b, <1>12, RequestTyped DEF RefuseRequest, Fail, Return, Leave
  <1>13. CASE Intend
    BY <1>a, <1>b, <1>13, RequestTyped, IntendEffect
  <1>14. CASE WriteIntent
    <2>1. /\ cmd.request \in Requests /\ pc = "intent" /\ pc' = "send" /\ record' = mem
          /\ UNCHANGED <<mem, cmd, sent>>
      BY <1>a, <1>14, RequestTyped DEF WriteIntent, Persisted
    <2>2. record \in Record /\ record.ops \in OpsOf
      BY <2>1 DEF Record
    <2>3. \A k \in Requests : record.ops[k] # "pending"
      BY <2>1
    <2>4. /\ mem.ops[cmd.request] = "pending"
          /\ \A k \in Requests \ {cmd.request} : mem.ops[k] = record.ops[k]
      BY <2>1, <2>2
    <2>5. \A k \in Requests : sent[k] \in Nat /\ sent[k] <= 1
                            /\ (sent[k] = 1 => record.ops[k] # "absent")
      BY <1>a, <2>2
    <2>6. sent[cmd.request] = 0
      BY <2>1, <2>5
    <2>7. \A k \in Requests : sent[k] = 1 => mem.ops[k] # "absent"
      BY <2>4, <2>5
    <2> QED
      BY <2>1, <2>2, <2>3, <2>4, <2>5, <2>6, <2>7
  <1>15. CASE SendAnswered
    BY <1>a, <1>b, <1>15, RequestTyped, SendAnsweredEffect
  <1>16. CASE SendLost
    BY <1>a, <1>b, <1>16, RequestTyped, EffectTyped DEF SendLost, Fail, Return, Leave
  <1>17. CASE Get
    BY <1>a, <1>b, <1>17, GetEffect
  <1>18. CASE GetFails
    BY <1>a, <1>b, <1>18, GetFailsEffect
  <1>19. CASE Save
    BY <1>a, <1>b, <1>19 DEF Save, Fail, Return, Leave
  <1>20. CASE Discard
    BY <1>a, <1>b, <1>20, DiscardEffect
  <1>21. CASE DeleteDiscarded
    BY <1>a, <1>b, <1>21 DEF DeleteDiscarded, Fail, Return, Leave
  <1>22. CASE RetireStart
    BY <1>a, <1>b, <1>22 DEF RetireStart
  <1>23. CASE RetireCancel
    BY <1>a, <1>b, <1>23 DEF RetireCancel, Start, Admitted
  <1>24. CASE RetireVerify
    BY <1>a, <1>b, <1>24, RetireVerifyEffect
  <1>25. CASE RetireUnverified
    BY <1>a, <1>b, <1>25 DEF RetireUnverified
  <1>26. CASE Crash
    BY <1>a, <1>b, <1>26 DEF Crash, Fail, Return, Leave
  <1>27. CASE RetireCrash
    BY <1>a, <1>b, <1>27 DEF RetireCrash
  <1>28. CASE Progress
    BY <1>a, <1>b, <1>28 DEF Progress
  <1>29. CASE Arrive
    BY <1>a, <1>b, <1>29, EffectTyped DEF Arrive
  <1>30. CASE UNCHANGED vars
    BY <1>a, <1>b, <1>30 DEF vars
  <1> QED
    BY <1>1, <1>2, <1>3, <1>4, <1>5, <1>6, <1>7, <1>8, <1>9, <1>10, <1>11, <1>12, <1>13, <1>14,
       <1>15, <1>16, <1>17, <1>18, <1>19, <1>20, <1>21, <1>22, <1>23, <1>24, <1>25, <1>26,
       <1>27, <1>28, <1>29, <1>30 DEF Next

LEMMA FlightStep ==
    ASSUME TypeOK, CommandInv, CreateInv, RequestInv, FlightInv, [Next]_vars
    PROVE  FlightInv'
  <1> USE RemoteAssumption DEF stored, provider, FlightInv, RequestInv, CreateInv, CommandInv, NonePending, Pending, Steps, Settled, OpsOf
  <1>a. /\ record \in Record \cup {NoRecord} /\ mem \in Record \cup {NoRecord}
        /\ cmd \in Command \cup {NoCommand}
        /\ sent \in [Requests -> Nat]
        /\ flight \subseteq Requests \cup {"create"}
        /\ remote \in Session
        /\ pc \in Steps
    BY DEF TypeOK, Session
  <1>b. CommandInv' /\ (record \in Record => record' \in Record)
    BY CommandStep
  <1>1. CASE \E i \in Inputs : Dispatch(i)
    BY <1>a, <1>b, <1>1, FreshTyped DEF Dispatch, Unreserved
  <1>2. CASE AdapterFails
    BY <1>a, <1>b, <1>2 DEF AdapterFails, Fail, Return, Leave
  <1>3. CASE Checkpoint
    BY <1>a, <1>b, <1>3, CheckpointEffect
  <1>4. CASE PostAnswered
    BY <1>a, <1>b, <1>4, PostAnsweredEffect
  <1>5. CASE PostLost
    BY <1>a, <1>b, <1>5 DEF PostLost, Fail, Return, Leave
  <1>6. CASE Enter
    BY <1>a, <1>b, <1>6 DEF Enter, Start, Admitted, MessageAllowed
  <1>7. CASE Reconcile
    BY <1>a, <1>b, <1>7, ReconcileEffect
  <1>8. CASE Unreconciled
    BY <1>a, <1>b, <1>8 DEF Unreconciled, Fail, Return, Leave
  <1>9. CASE ReconcileFails
    BY <1>a, <1>b, <1>9 DEF ReconcileFails, Fail, Return, Leave
  <1>10. CASE Acknowledge
    BY <1>a, <1>b, <1>10, RequestTyped, AcknowledgeEffect
  <1>11. CASE AlreadyDone
    BY <1>a, <1>b, <1>11, RequestTyped DEF AlreadyDone
  <1>12. CASE RefuseRequest
    BY <1>a, <1>b, <1>12, RequestTyped DEF RefuseRequest, Fail, Return, Leave
  <1>13. CASE Intend
    BY <1>a, <1>b, <1>13, RequestTyped, IntendEffect
  <1>14. CASE WriteIntent
    BY <1>a, <1>b, <1>14, RequestTyped DEF WriteIntent, Persisted
  <1>15. CASE SendAnswered
    BY <1>a, <1>b, <1>15, RequestTyped, SendAnsweredEffect
  <1>16. CASE SendLost
    BY <1>a, <1>b, <1>16, RequestTyped, EffectTyped DEF SendLost, Fail, Return, Leave
  <1>17. CASE Get
    BY <1>a, <1>b, <1>17, GetEffect
  <1>18. CASE GetFails
    BY <1>a, <1>b, <1>18, GetFailsEffect
  <1>19. CASE Save
    BY <1>a, <1>b, <1>19 DEF Save, Fail, Return, Leave
  <1>20. CASE Discard
    BY <1>a, <1>b, <1>20, DiscardEffect
  <1>21. CASE DeleteDiscarded
    BY <1>a, <1>b, <1>21 DEF DeleteDiscarded, Fail, Return, Leave
  <1>22. CASE RetireStart
    BY <1>a, <1>b, <1>22 DEF RetireStart
  <1>23. CASE RetireCancel
    BY <1>a, <1>b, <1>23 DEF RetireCancel, Start, Admitted
  <1>24. CASE RetireVerify
    BY <1>a, <1>b, <1>24, RetireVerifyEffect
  <1>25. CASE RetireUnverified
    BY <1>a, <1>b, <1>25 DEF RetireUnverified
  <1>26. CASE Crash
    BY <1>a, <1>b, <1>26 DEF Crash, Fail, Return, Leave
  <1>27. CASE RetireCrash
    BY <1>a, <1>b, <1>27 DEF RetireCrash
  <1>28. CASE Progress
    BY <1>a, <1>b, <1>28 DEF Progress
  <1>29. CASE Arrive
    BY <1>a, <1>b, <1>29, EffectTyped DEF Arrive
  <1>30. CASE UNCHANGED vars
    BY <1>a, <1>b, <1>30 DEF vars
  <1> QED
    BY <1>1, <1>2, <1>3, <1>4, <1>5, <1>6, <1>7, <1>8, <1>9, <1>10, <1>11, <1>12, <1>13, <1>14,
       <1>15, <1>16, <1>17, <1>18, <1>19, <1>20, <1>21, <1>22, <1>23, <1>24, <1>25, <1>26,
       <1>27, <1>28, <1>29, <1>30 DEF Next

LEMMA RetireStep ==
    ASSUME TypeOK, CommandInv, RequestInv, RetireInv, [Next]_vars
    PROVE  RetireInv'
  <1> USE RemoteAssumption DEF stored, provider, RetireInv, RequestInv, CommandInv, Locals, NonePending, Pending, Steps, Requests, OpsOf
  <1>a. /\ record \in Record \cup {NoRecord} /\ mem \in Record \cup {NoRecord}
        /\ cmd \in Command \cup {NoCommand}
        /\ pc \in Steps
    BY DEF TypeOK, Session
  <1>b. CommandInv' /\ (record \in Record => record' \in Record)
    BY CommandStep
  <1>1. CASE \E i \in Inputs : Dispatch(i)
    BY <1>a, <1>b, <1>1, FreshTyped DEF Dispatch, Unreserved
  <1>2. CASE AdapterFails
    BY <1>a, <1>b, <1>2 DEF AdapterFails, Fail, Return, Leave
  <1>3. CASE Checkpoint
    BY <1>a, <1>b, <1>3, CheckpointEffect
  <1>4. CASE PostAnswered
    BY <1>a, <1>b, <1>4, PostAnsweredEffect
  <1>5. CASE PostLost
    BY <1>a, <1>b, <1>5 DEF PostLost, Fail, Return, Leave
  <1>6. CASE Enter
    BY <1>a, <1>b, <1>6 DEF Enter, Start, Admitted, MessageAllowed
  <1>7. CASE Reconcile
    BY <1>a, <1>b, <1>7, ReconcileEffect
  <1>8. CASE Unreconciled
    BY <1>a, <1>b, <1>8 DEF Unreconciled, Fail, Return, Leave
  <1>9. CASE ReconcileFails
    BY <1>a, <1>b, <1>9 DEF ReconcileFails, Fail, Return, Leave
  <1>10. CASE Acknowledge
    BY <1>a, <1>b, <1>10, RequestTyped, AcknowledgeEffect
  <1>11. CASE AlreadyDone
    BY <1>a, <1>b, <1>11, RequestTyped DEF AlreadyDone
  <1>12. CASE RefuseRequest
    BY <1>a, <1>b, <1>12, RequestTyped DEF RefuseRequest, Fail, Return, Leave
  <1>13. CASE Intend
    BY <1>a, <1>b, <1>13, RequestTyped, IntendEffect
  <1>14. CASE WriteIntent
    BY <1>a, <1>b, <1>14, RequestTyped DEF WriteIntent, Persisted
  <1>15. CASE SendAnswered
    BY <1>a, <1>b, <1>15, RequestTyped, SendAnsweredEffect
  <1>16. CASE SendLost
    BY <1>a, <1>b, <1>16, RequestTyped, EffectTyped DEF SendLost, Fail, Return, Leave
  <1>17. CASE Get
    BY <1>a, <1>b, <1>17, GetEffect
  <1>18. CASE GetFails
    BY <1>a, <1>b, <1>18, GetFailsEffect
  <1>19. CASE Save
    BY <1>a, <1>b, <1>19 DEF Save, Fail, Return, Leave
  <1>20. CASE Discard
    BY <1>a, <1>b, <1>20, DiscardEffect
  <1>21. CASE DeleteDiscarded
    BY <1>a, <1>b, <1>21 DEF DeleteDiscarded, Fail, Return, Leave
  <1>22. CASE RetireStart
    BY <1>a, <1>b, <1>22 DEF RetireStart
  <1>23. CASE RetireCancel
    BY <1>a, <1>b, <1>23 DEF RetireCancel, Start, Admitted
  <1>24. CASE RetireVerify
    BY <1>a, <1>b, <1>24, RetireVerifyEffect
  <1>25. CASE RetireUnverified
    BY <1>a, <1>b, <1>25 DEF RetireUnverified
  <1>26. CASE Crash
    BY <1>a, <1>b, <1>26 DEF Crash, Fail, Return, Leave
  <1>27. CASE RetireCrash
    BY <1>a, <1>b, <1>27 DEF RetireCrash
  <1>28. CASE Progress
    BY <1>a, <1>b, <1>28 DEF Progress
  <1>29. CASE Arrive
    BY <1>a, <1>b, <1>29, EffectTyped DEF Arrive
  <1>30. CASE UNCHANGED vars
    BY <1>a, <1>b, <1>30 DEF vars
  <1> QED
    BY <1>1, <1>2, <1>3, <1>4, <1>5, <1>6, <1>7, <1>8, <1>9, <1>10, <1>11, <1>12, <1>13, <1>14,
       <1>15, <1>16, <1>17, <1>18, <1>19, <1>20, <1>21, <1>22, <1>23, <1>24, <1>25, <1>26,
       <1>27, <1>28, <1>29, <1>30 DEF Next

LEMMA ShownStep ==
    ASSUME TypeOK, CommandInv, ShownInv, [Next]_vars
    PROVE  ShownInv'
  <1> USE RemoteAssumption DEF provider, ShownInv, CommandInv
  <1>a. remote \in Session /\ flight \subseteq Requests \cup {"create"}
    BY DEF TypeOK, Session
  <1>b. SUFFICES ASSUME remote' # remote PROVE ShownInv'
    OBVIOUS
  <1>1. CASE PostAnswered
    BY <1>1, PostAnsweredEffect
  <1>2. CASE PostLost
    BY <1>a, <1>2 DEF PostLost, Session
  <1>3. CASE SendAnswered
    <2>1. cmd.request \in Requests
      BY <1>3, RequestTyped DEF SendAnswered, TypeOK, NoCommand
    <2> QED
      BY <1>a, <1>3, <2>1, EffectShows DEF SendAnswered
  <1>4. CASE SendLost
    <2>1. cmd.request \in Requests
      BY <1>4, RequestTyped DEF SendLost, TypeOK, NoCommand
    <2> QED
      BY <1>a, <1>b, <1>4, <2>1, EffectShows DEF SendLost
  <1>5. CASE Progress
    BY <1>a, <1>5 DEF Progress, Session
  <1>6. CASE Arrive
    <2>1. PICK w \in flight : \/ (w = "create" /\ remote' = [remote EXCEPT !.exists = TRUE])
                             \/ (w # "create" /\ Effect(w))
      BY <1>b, <1>6 DEF Arrive
    <2>2. CASE w = "create"
      BY <1>a, <2>1, <2>2 DEF Session
    <2>3. CASE w # "create"
      BY <1>a, <2>1, <2>3, EffectShows
    <2> QED
      BY <2>2, <2>3
  <1>7. \/ PostAnswered \/ PostLost \/ SendAnswered \/ SendLost \/ Progress \/ Arrive
    BY <1>b DEF Next, vars, Dispatch, AdapterFails, Checkpoint, Enter, Start, Reconcile,
           Unreconciled, ReconcileFails, Acknowledge, AlreadyDone, RefuseRequest, Intend,
           WriteIntent, Get, GetFails, Save, Discard, DeleteDiscarded, RetireStart,
           RetireCancel, RetireVerify, RetireUnverified, Crash, RetireCrash
  <1> QED
    BY <1>1, <1>2, <1>3, <1>4, <1>5, <1>6, <1>7

LEMMA ResultStep ==
    ASSUME TypeOK, CommandInv, RequestInv, FlightInv, ShownInv, ResultInv, [Next]_vars
    PROVE  ResultInv'
  <1> USE RemoteAssumption DEF stored, provider, ResultInv, RequestInv, CommandInv, Locals, Recorded, Steps, OpsOf
  <1>a. /\ record \in Record \cup {NoRecord} /\ mem \in Record \cup {NoRecord}
        /\ pc \in Steps
        /\ remote \in Session
    BY DEF TypeOK, Session
  <1>b. CommandInv' /\ (record \in Record => record' \in Record)
    BY CommandStep
  <1>1. CASE \E i \in Inputs : Dispatch(i)
    BY <1>a, <1>b, <1>1, FreshTyped DEF Dispatch, Unreserved
  <1>2. CASE AdapterFails
    BY <1>a, <1>b, <1>2 DEF AdapterFails, Fail, Return, Leave
  <1>3. CASE Checkpoint
    BY <1>a, <1>b, <1>3, CheckpointEffect
  <1>4. CASE PostAnswered
    BY <1>a, <1>b, <1>4, PostAnsweredEffect
  <1>5. CASE PostLost
    BY <1>a, <1>b, <1>5 DEF PostLost, Fail, Return, Leave, Session
  <1>6. CASE Enter
    BY <1>a, <1>b, <1>6 DEF Enter, Start, Admitted, MessageAllowed
  <1>7. CASE Reconcile
    BY <1>a, <1>b, <1>7, ReconcileEffect
  <1>8. CASE Unreconciled
    BY <1>a, <1>b, <1>8 DEF Unreconciled, Fail, Return, Leave
  <1>9. CASE ReconcileFails
    BY <1>a, <1>b, <1>9 DEF ReconcileFails, Fail, Return, Leave
  <1>10. CASE Acknowledge
    BY <1>a, <1>b, <1>10, RequestTyped, AcknowledgeEffect
  <1>11. CASE AlreadyDone
    BY <1>a, <1>b, <1>11, RequestTyped DEF AlreadyDone
  <1>12. CASE RefuseRequest
    BY <1>a, <1>b, <1>12, RequestTyped DEF RefuseRequest, Fail, Return, Leave
  <1>13. CASE Intend
    BY <1>a, <1>b, <1>13, RequestTyped, IntendEffect
  <1>14. CASE WriteIntent
    BY <1>a, <1>b, <1>14, RequestTyped DEF WriteIntent, Persisted
  <1>15. CASE SendAnswered
    BY <1>a, <1>b, <1>15, RequestTyped, SendAnsweredEffect
  <1>16. CASE SendLost
    BY <1>a, <1>b, <1>16, RequestTyped, EffectTyped DEF SendLost, Fail, Return, Leave
  <1>17. CASE Get
    BY <1>a, <1>b, <1>17, GetEffect DEF ShownInv, Pending
  <1>18. CASE GetFails
    BY <1>a, <1>b, <1>18, GetFailsEffect
  <1>19. CASE Save
    BY <1>a, <1>b, <1>19 DEF Save, Fail, Return, Leave
  <1>20. CASE Discard
    BY <1>a, <1>b, <1>20, DiscardEffect
  <1>21. CASE DeleteDiscarded
    BY <1>a, <1>b, <1>21 DEF DeleteDiscarded, Fail, Return, Leave
  <1>22. CASE RetireStart
    BY <1>a, <1>b, <1>22 DEF RetireStart
  <1>23. CASE RetireCancel
    BY <1>a, <1>b, <1>23 DEF RetireCancel, Start, Admitted
  <1>24. CASE RetireVerify
    BY <1>a, <1>b, <1>24, RetireVerifyEffect
  <1>25. CASE RetireUnverified
    BY <1>a, <1>b, <1>25 DEF RetireUnverified
  <1>26. CASE Crash
    BY <1>a, <1>b, <1>26 DEF Crash, Fail, Return, Leave
  <1>27. CASE RetireCrash
    BY <1>a, <1>b, <1>27 DEF RetireCrash
  <1>28. CASE Progress
    BY <1>a, <1>b, <1>28 DEF Progress, Session
  <1>29. CASE Arrive
    <2>1. CASE \E w \in flight : w # "create" /\ Effect(w)
      <3>1. PICK w \in flight : w # "create" /\ Effect(w)
        BY <2>1
      <3>2. w \in Requests /\ record.ops[w] = "pending" /\ record # NoRecord
        BY <3>1 DEF FlightInv, TypeOK
      <3> QED
        BY <1>a, <1>b, <1>29, <3>2 DEF Arrive
    <2>2. CASE remote' \in {remote, [remote EXCEPT !.exists = TRUE]}
      BY <1>a, <1>b, <1>29, <2>2 DEF Arrive, Session
    <2> QED
      BY <1>29, <2>1, <2>2 DEF Arrive
  <1>30. CASE UNCHANGED vars
    BY <1>a, <1>b, <1>30 DEF vars
  <1> QED
    BY <1>1, <1>2, <1>3, <1>4, <1>5, <1>6, <1>7, <1>8, <1>9, <1>10, <1>11, <1>12, <1>13, <1>14,
       <1>15, <1>16, <1>17, <1>18, <1>19, <1>20, <1>21, <1>22, <1>23, <1>24, <1>25, <1>26,
       <1>27, <1>28, <1>29, <1>30 DEF Next
-----------------------------------------------------------------------------
(* The types, in three parts: the copies, the rest, and the counters.       *)

CopiesTyped == /\ record \in Record \cup {NoRecord}
               /\ mem \in Record \cup {NoRecord}

RestTyped == /\ artifact \in Results
             /\ pc \in Steps
             /\ cmd \in Command \cup {NoCommand}
             /\ retire \in {"no", "cancel", "check"}
             /\ remote \in Session
             /\ flight \in SUBSET (Requests \cup {"create"})
             /\ posts \in Nat
             /\ sent \in [Requests -> Nat]
             /\ collectedAt \in SUBSET Requests

CountsOK == \A r \in Locals : CountsMatch(r)

LEMMA TypeParts == TypeOK <=> CopiesTyped /\ RestTyped /\ CountsOK
  BY DEF TypeOK, CopiesTyped, RestTyped, CountsOK, Locals, Session

LEMMA CountsKept ==
    ASSUME NEW r, NEW s, s.ops = r.ops, s.message = r.message, s.cancel = r.cancel,
           CountsMatch(r)
    PROVE  CountsMatch(s)
  BY DEF CountsMatch, Done

LEMMA CountsFresh ==
    ASSUME NEW i \in Inputs
    PROVE  CountsMatch(Fresh(i))
  <1>1. \A keys \in SUBSET Requests : Done(Fresh(i), keys) = {}
    BY FreshTyped DEF Done
  <1> QED
    BY <1>1, FreshTyped, FS_EmptySet DEF CountsMatch, Requests

\* One more request done is one more of its kind.
LEMMA CountsCounted ==
    ASSUME NEW r \in Record, NEW k \in Requests, CountsMatch(r), r.ops[k] # "done"
    PROVE  CountsMatch(Counted(r, k))
  <1> DEFINE s == Counted(r, k)
  <1>1. s.ops = [r.ops EXCEPT ![k] = "done"] /\ r.ops \in OpsOf
    BY Counting DEF Record, OpsOf
  <1>2. /\ k \in Messages => s.message = r.message + 1 /\ s.cancel = r.cancel
        /\ k \notin Messages => s.message = r.message /\ s.cancel = r.cancel + 1
    BY DEF Counted, Record
  <1>3. IsFiniteSet(Done(r, Messages)) /\ IsFiniteSet(Done(r, Cancels))
    BY RemoteAssumption, FS_Subset DEF Done
  <1>4. k \notin Done(r, Messages) /\ k \notin Done(r, Cancels)
    BY DEF Done
  <1> HIDE DEF s
  <1>5. CASE k \in Messages
    <2>1. k \notin Cancels
      BY <1>5, RemoteAssumption
    <2>2. Done(s, Messages) = Done(r, Messages) \cup {k} /\ Done(s, Cancels) = Done(r, Cancels)
      BY <1>1, <1>5, <2>1 DEF Done, Requests, OpsOf
    <2> QED
      BY <1>2, <1>3, <1>4, <1>5, <2>2, FS_AddElement DEF CountsMatch, s
  <1>6. CASE k \in Cancels
    <2>1. k \notin Messages
      BY <1>6, RemoteAssumption
    <2>2. Done(s, Cancels) = Done(r, Cancels) \cup {k} /\ Done(s, Messages) = Done(r, Messages)
      BY <1>1, <1>6, <2>1 DEF Done, Requests, OpsOf
    <2> QED
      BY <1>2, <1>3, <1>4, <2>1, <2>2, FS_AddElement DEF CountsMatch, s
  <1> QED
    BY <1>5, <1>6 DEF Requests

LEMMA CountsAcknowledged ==
    ASSUME NEW r \in Record, NEW k \in Requests, CountsMatch(r)
    PROVE  CountsMatch(AcknowledgedOnce(r, k))
  BY CountsCounted DEF AcknowledgedOnce

LEMMA CountsIntended ==
    ASSUME NEW r, NEW s, NEW k \in Requests, r.ops \in OpsOf, r.ops[k] = "absent",
           s.ops = [r.ops EXCEPT ![k] = "pending"],
           s.message = r.message, s.cancel = r.cancel, CountsMatch(r)
    PROVE  CountsMatch(s)
  <1>1. \A keys \in SUBSET Requests : Done(s, keys) = Done(r, keys)
    BY DEF Done, OpsOf
  <1> QED
    BY <1>1 DEF CountsMatch, Requests

LEMMA CopiesStep ==
    ASSUME TypeOK, CommandInv, [Next]_vars
    PROVE  CopiesTyped'
  <1> USE RemoteAssumption DEF stored, provider, CopiesTyped, CommandInv, NoCommand
  <1>a. /\ record \in Record \cup {NoRecord} /\ mem \in Record \cup {NoRecord}
        /\ cmd \in Command \cup {NoCommand}
    BY DEF TypeOK, Session
  <1>b. CommandInv' /\ (record \in Record => record' \in Record)
    BY CommandStep
  <1>1. CASE \E i \in Inputs : Dispatch(i)
    BY <1>a, <1>b, <1>1, FreshTyped DEF Dispatch, Unreserved
  <1>2. CASE AdapterFails
    BY <1>a, <1>b, <1>2 DEF AdapterFails, Fail, Return, Leave
  <1>3. CASE Checkpoint
    BY <1>a, <1>b, <1>3, CheckpointEffect
  <1>4. CASE PostAnswered
    BY <1>a, <1>b, <1>4, PostAnsweredEffect
  <1>5. CASE PostLost
    BY <1>a, <1>b, <1>5 DEF PostLost, Fail, Return, Leave
  <1>6. CASE Enter
    BY <1>a, <1>b, <1>6 DEF Enter, Start, Admitted, MessageAllowed
  <1>7. CASE Reconcile
    BY <1>a, <1>b, <1>7, ReconcileEffect
  <1>8. CASE Unreconciled
    BY <1>a, <1>b, <1>8 DEF Unreconciled, Fail, Return, Leave
  <1>9. CASE ReconcileFails
    BY <1>a, <1>b, <1>9 DEF ReconcileFails, Fail, Return, Leave
  <1>10. CASE Acknowledge
    BY <1>a, <1>b, <1>10, RequestTyped, AcknowledgeEffect
  <1>11. CASE AlreadyDone
    BY <1>a, <1>b, <1>11, RequestTyped DEF AlreadyDone
  <1>12. CASE RefuseRequest
    BY <1>a, <1>b, <1>12, RequestTyped DEF RefuseRequest, Fail, Return, Leave
  <1>13. CASE Intend
    BY <1>a, <1>b, <1>13, RequestTyped, IntendEffect
  <1>14. CASE WriteIntent
    BY <1>a, <1>b, <1>14, RequestTyped DEF WriteIntent, Persisted
  <1>15. CASE SendAnswered
    BY <1>a, <1>b, <1>15, RequestTyped, SendAnsweredEffect
  <1>16. CASE SendLost
    BY <1>a, <1>b, <1>16, RequestTyped, EffectTyped DEF SendLost, Fail, Return, Leave
  <1>17. CASE Get
    BY <1>a, <1>b, <1>17, GetEffect
  <1>18. CASE GetFails
    BY <1>a, <1>b, <1>18, GetFailsEffect
  <1>19. CASE Save
    BY <1>a, <1>b, <1>19 DEF Save, Fail, Return, Leave
  <1>20. CASE Discard
    BY <1>a, <1>b, <1>20, DiscardEffect
  <1>21. CASE DeleteDiscarded
    BY <1>a, <1>b, <1>21 DEF DeleteDiscarded, Fail, Return, Leave
  <1>22. CASE RetireStart
    BY <1>a, <1>b, <1>22 DEF RetireStart
  <1>23. CASE RetireCancel
    BY <1>a, <1>b, <1>23 DEF RetireCancel, Start, Admitted
  <1>24. CASE RetireVerify
    BY <1>a, <1>b, <1>24, RetireVerifyEffect
  <1>25. CASE RetireUnverified
    BY <1>a, <1>b, <1>25 DEF RetireUnverified
  <1>26. CASE Crash
    BY <1>a, <1>b, <1>26 DEF Crash, Fail, Return, Leave
  <1>27. CASE RetireCrash
    BY <1>a, <1>b, <1>27 DEF RetireCrash
  <1>28. CASE Progress
    BY <1>a, <1>b, <1>28 DEF Progress
  <1>29. CASE Arrive
    BY <1>a, <1>b, <1>29, EffectTyped DEF Arrive
  <1>30. CASE UNCHANGED vars
    BY <1>a, <1>b, <1>30 DEF vars
  <1> QED
    BY <1>1, <1>2, <1>3, <1>4, <1>5, <1>6, <1>7, <1>8, <1>9, <1>10, <1>11, <1>12, <1>13, <1>14,
       <1>15, <1>16, <1>17, <1>18, <1>19, <1>20, <1>21, <1>22, <1>23, <1>24, <1>25, <1>26,
       <1>27, <1>28, <1>29, <1>30 DEF Next

LEMMA RestStep ==
    ASSUME TypeOK, CommandInv, CopiesTyped, RestTyped, [Next]_vars
    PROVE  RestTyped'
  <1> USE RemoteAssumption DEF stored, provider, RestTyped, CommandInv, NoCommand, Session, Steps
  <1>a. /\ record \in Record \cup {NoRecord} /\ mem \in Record \cup {NoRecord}
        /\ cmd \in Command \cup {NoCommand}
        /\ remote \in Session
    BY DEF TypeOK, Session
  <1>b. CommandInv' /\ (record \in Record => record' \in Record)
    BY CommandStep
  <1>1. CASE \E i \in Inputs : Dispatch(i)
    BY <1>a, <1>b, <1>1, FreshTyped DEF Dispatch, Unreserved, Command
  <1>2. CASE AdapterFails
    BY <1>a, <1>b, <1>2 DEF AdapterFails, Fail, Return, Leave
  <1>3. CASE Checkpoint
    BY <1>a, <1>b, <1>3, CheckpointEffect
  <1>4. CASE PostAnswered
    BY <1>a, <1>b, <1>4, PostAnsweredEffect
  <1>5. CASE PostLost
    <2>1. [remote EXCEPT !.exists = TRUE] \in Session
      BY <1>a DEF Session
    <2>2. remote' \in Session /\ flight' \in SUBSET (Requests \cup {"create"})
      BY <1>a, <1>5, <2>1 DEF PostLost
    <2>3. posts' \in Nat
      BY <1>5 DEF PostLost
    <2>4. UNCHANGED <<artifact, sent, collectedAt>>
      BY <1>5 DEF PostLost
    <2>5. pc' = "idle" /\ cmd' = NoCommand /\ retire' \in {"no", "cancel", "check"}
      BY <1>5 DEF PostLost, Fail, Leave
    <2> QED
      BY <2>2, <2>3, <2>4, <2>5
  <1>6. CASE Enter
    BY <1>a, <1>b, <1>6 DEF Enter, Start, Admitted, MessageAllowed, Command
  <1>7. CASE Reconcile
    BY <1>a, <1>b, <1>7, ReconcileEffect
  <1>8. CASE Unreconciled
    BY <1>a, <1>b, <1>8 DEF Unreconciled, Fail, Return, Leave
  <1>9. CASE ReconcileFails
    BY <1>a, <1>b, <1>9 DEF ReconcileFails, Fail, Return, Leave
  <1>10. CASE Acknowledge
    BY <1>a, <1>b, <1>10, RequestTyped, AcknowledgeEffect
  <1>11. CASE AlreadyDone
    BY <1>a, <1>b, <1>11, RequestTyped DEF AlreadyDone
  <1>12. CASE RefuseRequest
    BY <1>a, <1>b, <1>12, RequestTyped DEF RefuseRequest, Fail, Return, Leave
  <1>13. CASE Intend
    BY <1>a, <1>b, <1>13, RequestTyped, IntendEffect DEF Results
  <1>14. CASE WriteIntent
    BY <1>a, <1>b, <1>14, RequestTyped DEF WriteIntent, Persisted
  <1>15. CASE SendAnswered
    BY <1>a, <1>b, <1>15, RequestTyped, SendAnsweredEffect
  <1>16. CASE SendLost
    BY <1>a, <1>b, <1>16, RequestTyped, EffectTyped DEF SendLost, Fail, Return, Leave
  <1>17. CASE Get
    BY <1>a, <1>b, <1>17, GetEffect DEF Results, Recorded
  <1>18. CASE GetFails
    BY <1>a, <1>b, <1>18, GetFailsEffect DEF Results
  <1>19. CASE Save
    BY <1>a, <1>b, <1>19 DEF Save, Fail, Return, Leave
  <1>20. CASE Discard
    BY <1>a, <1>b, <1>20, DiscardEffect
  <1>21. CASE DeleteDiscarded
    BY <1>a, <1>b, <1>21 DEF DeleteDiscarded, Fail, Return, Leave, Results
  <1>22. CASE RetireStart
    BY <1>a, <1>b, <1>22 DEF RetireStart
  <1>23. CASE RetireCancel
    BY <1>a, <1>b, <1>23 DEF RetireCancel, Start, Admitted, Command
  <1>24. CASE RetireVerify
    BY <1>a, <1>b, <1>24, RetireVerifyEffect
  <1>25. CASE RetireUnverified
    BY <1>a, <1>b, <1>25 DEF RetireUnverified
  <1>26. CASE Crash
    BY <1>a, <1>b, <1>26 DEF Crash, Fail, Return, Leave
  <1>27. CASE RetireCrash
    BY <1>a, <1>b, <1>27 DEF RetireCrash
  <1>28. CASE Progress
    <2>1. /\ remote.round \in Results /\ remote.result \in Results
          /\ \A raw \in Raw, res \in Results :
               [remote EXCEPT !.raw = raw, !.result = res] \in Session
      BY <1>a DEF Session, Results
    <2>2. remote' \in Session
      <3>1. PICK raw \in Raw, res \in {remote.result, remote.round} :
              remote' = [remote EXCEPT !.raw = raw, !.result = res]
        BY <1>28 DEF Progress
      <3>2. res \in Results
        BY <2>1
      <3> QED
        BY <2>1, <3>1, <3>2
    <2> QED
      BY <1>a, <1>b, <1>28, <2>2 DEF Progress
  <1>29. CASE Arrive
    BY <1>a, <1>b, <1>29, EffectTyped DEF Arrive
  <1>30. CASE UNCHANGED vars
    BY <1>a, <1>b, <1>30 DEF vars
  <1> QED
    BY <1>1, <1>2, <1>3, <1>4, <1>5, <1>6, <1>7, <1>8, <1>9, <1>10, <1>11, <1>12, <1>13, <1>14,
       <1>15, <1>16, <1>17, <1>18, <1>19, <1>20, <1>21, <1>22, <1>23, <1>24, <1>25, <1>26,
       <1>27, <1>28, <1>29, <1>30 DEF Next

LEMMA CountsStep ==
    ASSUME TypeOK, CommandInv, RequestInv, CountsOK, [Next]_vars
    PROVE  CountsOK'
  <1> USE RemoteAssumption DEF stored, provider, CountsOK, Locals, CommandInv, NoCommand
  <1>a. /\ record \in Record \cup {NoRecord} /\ mem \in Record \cup {NoRecord}
        /\ cmd \in Command \cup {NoCommand}
    BY DEF TypeOK, Session
  <1>b. CommandInv' /\ (record \in Record => record' \in Record)
    BY CommandStep
  <1>1. CASE \E i \in Inputs : Dispatch(i)
    BY <1>a, <1>1, FreshTyped, CountsFresh DEF Dispatch, Unreserved
  <1>2. CASE AdapterFails
    BY <1>a, <1>b, <1>2 DEF AdapterFails, Fail, Return, Leave
  <1>3. CASE Checkpoint
    BY <1>a, <1>b, <1>3, CheckpointEffect, CountsKept
  <1>4. CASE PostAnswered
    BY <1>a, <1>b, <1>4, PostAnsweredEffect, CountsKept
  <1>5. CASE PostLost
    BY <1>a, <1>b, <1>5 DEF PostLost, Fail, Return, Leave
  <1>6. CASE Enter
    BY <1>a, <1>b, <1>6 DEF Enter, Start, Admitted, MessageAllowed
  <1>7. CASE Reconcile
    BY <1>a, <1>b, <1>7, ReconcileEffect, CountsKept
  <1>8. CASE Unreconciled
    BY <1>a, <1>b, <1>8 DEF Unreconciled, Fail, Return, Leave
  <1>9. CASE ReconcileFails
    BY <1>a, <1>b, <1>9 DEF ReconcileFails, Fail, Return, Leave
  <1>10. CASE Acknowledge
    BY <1>a, <1>b, <1>10, AcknowledgeEffect, CountsAcknowledged DEF Acknowledge
  <1>11. CASE AlreadyDone
    BY <1>a, <1>b, <1>11, RequestTyped DEF AlreadyDone
  <1>12. CASE RefuseRequest
    BY <1>a, <1>b, <1>12, RequestTyped DEF RefuseRequest, Fail, Return, Leave
  <1>13. CASE Intend
    BY <1>a, <1>b, <1>13, IntendEffect, CountsIntended
  <1>14. CASE WriteIntent
    BY <1>a, <1>b, <1>14, RequestTyped DEF WriteIntent, Persisted
  <1>15. CASE SendAnswered
    BY <1>a, <1>b, <1>15, SendAnsweredEffect, CountsCounted DEF SendAnswered, RequestInv
  <1>16. CASE SendLost
    BY <1>a, <1>b, <1>16, RequestTyped, EffectTyped DEF SendLost, Fail, Return, Leave
  <1>17. CASE Get
    BY <1>a, <1>b, <1>17, GetEffect, CountsKept
  <1>18. CASE GetFails
    BY <1>a, <1>b, <1>18, GetFailsEffect, CountsKept
  <1>19. CASE Save
    BY <1>a, <1>b, <1>19 DEF Save, Fail, Return, Leave
  <1>20. CASE Discard
    BY <1>a, <1>b, <1>20, DiscardEffect, CountsKept
  <1>21. CASE DeleteDiscarded
    BY <1>a, <1>b, <1>21 DEF DeleteDiscarded, Fail, Return, Leave
  <1>22. CASE RetireStart
    BY <1>a, <1>b, <1>22 DEF RetireStart
  <1>23. CASE RetireCancel
    BY <1>a, <1>b, <1>23 DEF RetireCancel, Start, Admitted
  <1>24. CASE RetireVerify
    BY <1>a, <1>b, <1>24, RetireVerifyEffect, CountsKept
  <1>25. CASE RetireUnverified
    BY <1>a, <1>b, <1>25 DEF RetireUnverified
  <1>26. CASE Crash
    BY <1>a, <1>b, <1>26 DEF Crash, Fail, Return, Leave
  <1>27. CASE RetireCrash
    BY <1>a, <1>b, <1>27 DEF RetireCrash
  <1>28. CASE Progress
    BY <1>a, <1>b, <1>28 DEF Progress
  <1>29. CASE Arrive
    BY <1>a, <1>b, <1>29, EffectTyped DEF Arrive
  <1>30. CASE UNCHANGED vars
    BY <1>a, <1>b, <1>30 DEF vars
  <1> QED
    BY <1>1, <1>2, <1>3, <1>4, <1>5, <1>6, <1>7, <1>8, <1>9, <1>10, <1>11, <1>12, <1>13, <1>14,
       <1>15, <1>16, <1>17, <1>18, <1>19, <1>20, <1>21, <1>22, <1>23, <1>24, <1>25, <1>26,
       <1>27, <1>28, <1>29, <1>30 DEF Next
-----------------------------------------------------------------------------
LEMMA InvStep == Inv /\ [Next]_vars => Inv'
  <1> SUFFICES ASSUME Inv, [Next]_vars PROVE Inv'
    OBVIOUS
  <1>1. TypeOK /\ CommandInv /\ CreateInv /\ RequestInv /\ FlightInv /\ RetireInv /\ ShownInv
        /\ ResultInv
    BY DEF Inv
  <1>2. CopiesTyped /\ RestTyped /\ CountsOK
    BY <1>1, TypeParts
  <1>3. CopiesTyped' /\ RestTyped' /\ CountsOK'
    BY <1>1, <1>2, CopiesStep, RestStep, CountsStep
  <1>4. TypeOK'
    BY <1>3 DEF TypeOK, CopiesTyped, RestTyped, CountsOK, Locals, Session
  <1>5. CommandInv' /\ CreateInv' /\ RequestInv' /\ FlightInv' /\ RetireInv' /\ ShownInv'
        /\ ResultInv'
    BY <1>1, CommandStep, CreateStep, RequestStep, FlightStep, RetireStep, ShownStep, ResultStep
  <1> QED
    BY <1>4, <1>5 DEF Inv

\* The commands of a session, its record and the provider agree in every state.
THEOREM Invariance == Spec => []Inv
  BY InitInv, InvStep, PTL DEF Spec

\* Every reachable state has its declared types, and the public counters count
\* the requests that are done.
THEOREM TypeCorrect == Spec => []TypeOK
  <1>1. Inv => TypeOK
    BY DEF Inv
  <1> QED
    BY <1>1, Invariance, PTL

\* One session key leads to at most one paid create request.
THEOREM CreatedOnce == Spec => []AtMostOneCreate
  <1>1. Inv => AtMostOneCreate
    BY DEF Inv, CreateInv, AtMostOneCreate
  <1> QED
    BY <1>1, Invariance, PTL

\* No request key is sent twice.
THEOREM SentOnce == Spec => []OncePerRequest
  <1>1. Inv => OncePerRequest
    BY DEF Inv, TypeOK, RequestInv, OncePerRequest
  <1> QED
    BY <1>1, Invariance, PTL

\* A readable private result was collected after the last recorded request and
\* answers the provider's last round, or is what the provider still showed when
\* it took the message that began that round.
THEOREM ResultIsCurrent == Spec => []NoResultAcrossOps
  <1>1. Inv => NoResultAcrossOps
    BY DEF Inv, ResultInv, Locals, NoResultAcrossOps, Visible
  <1> QED
    BY <1>1, Invariance, PTL
-----------------------------------------------------------------------------
(* Action properties.                                                       *)

LEMMA SendIsAlone ==
    ASSUME TypeOK, CommandInv, RequestInv, FlightInv, pc = "send"
    PROVE  /\ cmd.request \in Requests
           /\ flight = {}
           /\ \A j \in Recorded(record) \ {cmd.request} : record.ops[j] = "done"
  <1>1. /\ cmd.request \in Requests /\ record \in Record /\ mem.ops = record.ops
        /\ record.bound
    BY RequestTyped DEF TypeOK, CommandInv, RequestInv, FlightInv, NoCommand, Steps
  <1>2. /\ sent[cmd.request] = 0
        /\ \A j \in Requests \ {cmd.request} : record.ops[j] # "pending"
    BY <1>1 DEF RequestInv
  <1>3. flight = {}
    BY <1>1, <1>2 DEF FlightInv, TypeOK
  <1>4. record.ops \in OpsOf
    BY <1>1 DEF Record, OpsOf
  <1> QED
    BY <1>1, <1>2, <1>3, <1>4 DEF Recorded, OpsOf

LEMMA OnlySendSends ==
    ASSUME [Next]_vars, ~SendAnswered, ~SendLost
    PROVE  UNCHANGED sent
  <1>1. CASE \E i \in Inputs : Dispatch(i)
    BY <1>1 DEF Dispatch, provider
  <1>2. CASE AdapterFails
    BY <1>2 DEF AdapterFails, provider
  <1>3. CASE Checkpoint
    BY <1>3 DEF Checkpoint, provider
  <1>4. CASE PostAnswered
    BY <1>4 DEF PostAnswered, provider
  <1>5. CASE PostLost
    BY <1>5 DEF PostLost, provider
  <1>6. CASE Enter
    BY <1>6 DEF Enter, Start, provider
  <1>7. CASE Reconcile
    BY <1>7 DEF Reconcile, provider
  <1>8. CASE Unreconciled
    BY <1>8 DEF Unreconciled, provider
  <1>9. CASE ReconcileFails
    BY <1>9 DEF ReconcileFails, provider
  <1>10. CASE Acknowledge
    BY <1>10 DEF Acknowledge, provider
  <1>11. CASE AlreadyDone
    BY <1>11 DEF AlreadyDone, provider
  <1>12. CASE RefuseRequest
    BY <1>12 DEF RefuseRequest, provider
  <1>13. CASE Intend
    BY <1>13 DEF Intend, provider
  <1>14. CASE WriteIntent
    BY <1>14 DEF WriteIntent, provider
  <1>15. CASE Get
    BY <1>15 DEF Get, provider
  <1>16. CASE GetFails
    BY <1>16 DEF GetFails, provider
  <1>17. CASE Save
    BY <1>17 DEF Save, provider
  <1>18. CASE Discard
    BY <1>18 DEF Discard, provider
  <1>19. CASE DeleteDiscarded
    BY <1>19 DEF DeleteDiscarded, provider
  <1>20. CASE RetireStart
    BY <1>20 DEF RetireStart, provider
  <1>21. CASE RetireCancel
    BY <1>21 DEF RetireCancel, Start, provider
  <1>22. CASE RetireVerify
    BY <1>22 DEF RetireVerify, provider
  <1>23. CASE RetireUnverified
    BY <1>23 DEF RetireUnverified, provider
  <1>24. CASE Crash
    BY <1>24 DEF Crash, provider
  <1>25. CASE RetireCrash
    BY <1>25 DEF RetireCrash, provider
  <1>26. CASE Progress
    BY <1>26 DEF Progress, provider
  <1>27. CASE Arrive
    BY <1>27 DEF Arrive, provider
  <1>28. CASE UNCHANGED vars
    BY <1>28 DEF vars
  <1> QED
    BY <1>1, <1>2, <1>3, <1>4, <1>5, <1>6, <1>7, <1>8, <1>9, <1>10, <1>11, <1>12, <1>13, <1>14,
       <1>15, <1>16, <1>17, <1>18, <1>19, <1>20, <1>21, <1>22, <1>23, <1>24, <1>25, <1>26,
       <1>27, <1>28 DEF Next

\* No request is sent while the fate of another is open.
THEOREM SendsAreNotBlind == Spec => NoBlindOp
  <1>1. ASSUME Inv, [Next]_vars, NEW k \in Requests, sent'[k] > sent[k]
        PROVE  /\ flight = {}
               /\ \A j \in Recorded(record) \ {k} : record.ops[j] = "done"
    <2>1. sent \in [Requests -> Nat] /\ TypeOK /\ CommandInv /\ RequestInv /\ FlightInv
      BY <1>1 DEF Inv, TypeOK
    <2>2. sent' # sent
      BY <1>1, <2>1
    <2>3. SendAnswered \/ SendLost
      BY <1>1, <2>2, OnlySendSends
    <2>4. pc = "send" /\ sent' = [sent EXCEPT ![cmd.request] = @ + 1]
      BY <2>3 DEF SendAnswered, SendLost
    <2>5. k = cmd.request
      BY <1>1, <2>1, <2>4
    <2> QED
      BY <2>1, <2>4, <2>5, SendIsAlone
  <1>2. Inv /\ [Next]_vars => [\A k \in Requests : sent'[k] > sent[k] =>
                                 /\ flight = {}
                                 /\ \A j \in Recorded(record) \ {k} : record.ops[j] = "done"]_vars
    BY <1>1
  <1> QED
    BY <1>2, Invariance, PTL DEF Spec, NoBlindOp

LEMMA QuietEffect ==
    ASSUME NEW k \in Requests, k \notin Messages, remote \in Session, Effect(k)
    PROVE  remote'.round = remote.round
  BY DEF Effect, Session

LEMMA RetiredStep ==
    ASSUME Inv, [Next]_vars, record # NoRecord, record.retired
    PROVE  remote'.round = remote.round
  <1>a. /\ TypeOK /\ CommandInv /\ RequestInv /\ FlightInv /\ RetireInv
        /\ remote \in Session /\ record \in Record /\ record \in Locals
        /\ cmd \in Command \cup {NoCommand} /\ flight \subseteq Requests \cup {"create"}
    BY DEF Inv, TypeOK, Session, Locals
  <1>1. CASE \E i \in Inputs : Dispatch(i)
    BY <1>a, <1>1 DEF Dispatch, provider, Session
  <1>2. CASE AdapterFails
    BY <1>a, <1>2 DEF AdapterFails, provider, Session
  <1>3. CASE Checkpoint
    BY <1>a, <1>3 DEF Checkpoint, provider, Session
  <1>4. CASE PostAnswered
    BY <1>a, <1>4 DEF PostAnswered, provider, Session
  <1>5. CASE PostLost
    BY <1>a, <1>5 DEF PostLost, provider, Session
  <1>6. CASE Enter
    BY <1>a, <1>6 DEF Enter, Start, provider, Session
  <1>7. CASE Reconcile
    BY <1>a, <1>7 DEF Reconcile, provider, Session
  <1>8. CASE Unreconciled
    BY <1>a, <1>8 DEF Unreconciled, provider, Session
  <1>9. CASE ReconcileFails
    BY <1>a, <1>9 DEF ReconcileFails, provider, Session
  <1>10. CASE Acknowledge
    BY <1>a, <1>10 DEF Acknowledge, provider, Session
  <1>11. CASE AlreadyDone
    BY <1>a, <1>11 DEF AlreadyDone, provider, Session
  <1>12. CASE RefuseRequest
    BY <1>a, <1>12 DEF RefuseRequest, provider, Session
  <1>13. CASE Intend
    BY <1>a, <1>13 DEF Intend, provider, Session
  <1>14. CASE WriteIntent
    BY <1>a, <1>14 DEF WriteIntent, provider, Session
  <1>15. CASE SendAnswered
    <2>1. cmd.request \in Requests /\ cmd.request \notin Messages
      <3>1. cmd.request \in Requests /\ pc = "send"
        BY <1>a, <1>15, SendIsAlone DEF SendAnswered
      <3>2. /\ cmd \in Command /\ cmd.name \in {"message", "cancel"}
            /\ mem.retired
        BY <1>a, <3>1 DEF CommandInv, RetireInv, NoCommand, Steps
      <3>3. cmd.name # "message"
        BY <1>a, <3>1, <3>2 DEF RetireInv
      <3> QED
        BY <3>1, <3>2, <3>3, RequestTyped
    <2> QED
      BY <1>a, <1>15, <2>1, QuietEffect DEF SendAnswered
  <1>16. CASE SendLost
    <2>1. cmd.request \in Requests /\ cmd.request \notin Messages
      <3>1. cmd.request \in Requests /\ pc = "send"
        BY <1>a, <1>16, SendIsAlone DEF SendLost
      <3>2. /\ cmd \in Command /\ cmd.name \in {"message", "cancel"}
            /\ mem.retired
        BY <1>a, <3>1 DEF CommandInv, RetireInv, NoCommand, Steps
      <3>3. cmd.name # "message"
        BY <1>a, <3>1, <3>2 DEF RetireInv
      <3> QED
        BY <3>1, <3>2, <3>3, RequestTyped
    <2> QED
      BY <1>a, <1>16, <2>1, QuietEffect DEF SendLost
  <1>17. CASE Get
    BY <1>a, <1>17 DEF Get, provider, Session
  <1>18. CASE GetFails
    BY <1>a, <1>18 DEF GetFails, provider, Session
  <1>19. CASE Save
    BY <1>a, <1>19 DEF Save, provider, Session
  <1>20. CASE Discard
    BY <1>a, <1>20 DEF Discard, provider, Session
  <1>21. CASE DeleteDiscarded
    BY <1>a, <1>21 DEF DeleteDiscarded, provider, Session
  <1>22. CASE RetireStart
    BY <1>a, <1>22 DEF RetireStart, provider, Session
  <1>23. CASE RetireCancel
    BY <1>a, <1>23 DEF RetireCancel, Start, provider, Session
  <1>24. CASE RetireVerify
    BY <1>a, <1>24 DEF RetireVerify, provider, Session
  <1>25. CASE RetireUnverified
    BY <1>a, <1>25 DEF RetireUnverified, provider, Session
  <1>26. CASE Crash
    BY <1>a, <1>26 DEF Crash, provider, Session
  <1>27. CASE RetireCrash
    BY <1>a, <1>27 DEF RetireCrash, provider, Session
  <1>28. CASE Progress
    BY <1>a, <1>28 DEF Progress, provider, Session
  <1>29. CASE Arrive
    <2>1. \A w \in flight : w = "create" \/ (w \in Requests /\ w \notin Messages)
      BY <1>a DEF FlightInv, RetireInv
    <2> QED
      BY <1>a, <1>29, <2>1, QuietEffect, RemoteAssumption DEF Arrive, Session
  <1>30. CASE UNCHANGED vars
    BY <1>30 DEF vars
  <1> QED
    BY <1>1, <1>2, <1>3, <1>4, <1>5, <1>6, <1>7, <1>8, <1>9, <1>10, <1>11, <1>12, <1>13, <1>14,
       <1>15, <1>16, <1>17, <1>18, <1>19, <1>20, <1>21, <1>22, <1>23, <1>24, <1>25, <1>26,
       <1>27, <1>28, <1>29, <1>30 DEF Next

\* After a writer is retired no message reaches the provider.
THEOREM RetiredWritersStayQuiet == Spec => RetiredStaysQuiet
  <1>1. Inv /\ [Next]_vars => [record # NoRecord /\ record.retired =>
                                 remote'.round = remote.round]_vars
    BY RetiredStep
  <1> QED
    BY <1>1, Invariance, PTL DEF Spec, RetiredStaysQuiet

\* Creates and requests go out once, and results answer the current round.
THEOREM SentOnceAndCurrent == Spec => []OnceAndCurrent
  <1>1. AtMostOneCreate /\ OncePerRequest /\ NoResultAcrossOps => OnceAndCurrent
    BY DEF OnceAndCurrent
  <1> QED
    BY <1>1, CreatedOnce, SentOnce, ResultIsCurrent, PTL

\* Nothing is sent blindly, and nothing for a retired writer.
THEOREM SendsSafe == Spec => SendsAreSafe
  BY SendsAreNotBlind, RetiredWritersStayQuiet DEF SendsAreSafe
-----------------------------------------------------------------------------
(* The observer beside the commands.                                       *)

\* A snapshot of the record, or of a generation with what the provider said of it.
Looks == [generation : Generations] \cup Snapshot

\* What is taken of a generation: a bound session with nothing pending, which the
\* record has been and, once it has gone on, never is again; as long as it still is,
\* the round that was read of it is the provider's.
ReadOf(s) ==
    /\ s.generation[1] /\ \A k \in Requests : s.generation[2][k] # "pending"
    /\ record # NoRecord /\ record.bound
    /\ \A k \in Requests : s.generation[2][k] = "done" => record.ops[k] = "done"
    /\ s \in Snapshot /\ Generation(record) = s.generation => s.round = remote.round

ObserverInv == /\ obs # NoSnapshot => obs \in Looks /\ ReadOf(obs)
               /\ retained # NoSnapshot => retained \in Snapshot /\ ReadOf(retained)

\* A stored record goes on: requests go from absent to pending to done, a bound
\* session stays bound, and its round moves only while a request is pending.
OpGoesOn(k) == \/ record'.ops[k] = record.ops[k]
               \/ record.ops[k] = "absent" /\ record'.ops[k] = "pending"
               \/ record.ops[k] = "pending" /\ record'.ops[k] = "done"
GoesOn == /\ record' \in Record /\ (record.bound => record'.bound)
          /\ \A k \in Requests : OpGoesOn(k)
          /\ record.bound /\ NonePending(record) => remote'.round = remote.round

LEMMA RecordGoesOn ==
    ASSUME Inv, [Next]_vars, record # NoRecord
    PROVE  GoesOn
  <1>a. /\ TypeOK /\ CommandInv /\ RequestInv /\ FlightInv /\ Inv
        /\ remote \in Session /\ record \in Record /\ record.ops \in OpsOf
        /\ cmd \in Command \cup {NoCommand} /\ flight \subseteq Requests \cup {"create"}
    BY DEF Inv, TypeOK, Session, Record, OpsOf
  <1>b. ASSUME UNCHANGED record, remote'.round = remote.round PROVE GoesOn
    BY <1>a, <1>b DEF GoesOn, OpGoesOn
  <1>c. ASSUME record' \in Record, record.bound => record'.bound, record'.ops = record.ops,
               remote'.round = remote.round \/ ~record.bound
        PROVE  GoesOn
    BY <1>a, <1>c DEF GoesOn, OpGoesOn
  <1>1. CASE \E i \in Inputs : Dispatch(i)
    BY <1>1 DEF Dispatch, Unreserved
  <1>2. CASE AdapterFails \/ Unreconciled \/ ReconcileFails \/ AlreadyDone \/ RefuseRequest \/ Intend
             \/ Get \/ GetFails \/ DeleteDiscarded \/ RetireStart \/ RetireVerify
             \/ RetireUnverified \/ Crash \/ RetireCrash
    BY <1>b, <1>2 DEF AdapterFails, Unreconciled, ReconcileFails, AlreadyDone, RefuseRequest,
       Intend,
       Get, GetFails, DeleteDiscarded, RetireStart, RetireVerify, RetireUnverified, Crash, RetireCrash,
       stored, provider
  <1>3. CASE Enter \/ RetireCancel
    BY <1>b, <1>3 DEF Enter, RetireCancel, Start, stored, provider
  <1>4. CASE Checkpoint
    <2>1. mem.ops = record.ops /\ ~record.bound
      BY <1>a, <1>4 DEF Checkpoint, RequestInv, FlightInv, Steps
    <2> QED
      BY <1>a, <1>c, <1>4, <2>1, CheckpointEffect
  <1>5. CASE PostAnswered
    <2>1. mem.ops = record.ops /\ ~record.bound
      BY <1>a, <1>5 DEF PostAnswered, RequestInv, FlightInv, Steps
    <2> QED
      BY <1>a, <1>c, <1>5, <2>1, PostAnsweredEffect
  <1>6. CASE PostLost
    <2>1. UNCHANGED record /\ remote'.round = remote.round
      BY <1>a, <1>6 DEF PostLost, stored, Session
    <2> QED
      BY <1>b, <2>1
  <1>7. CASE Reconcile
    <2>1. mem.ops = record.ops /\ ~record.bound
      BY <1>a, <1>7 DEF Reconcile, RequestInv, FlightInv, Steps
    <2> QED
      BY <1>a, <1>c, <1>7, <2>1, ReconcileEffect
  <1>8. CASE Acknowledge
    <2>1. mem.ops = record.ops /\ mem.bound = record.bound
      BY <1>a, <1>8 DEF Acknowledge, RequestInv, FlightInv, Steps
    <2>2. record'.ops = [record.ops EXCEPT ![cmd.request] = "done"] /\ record' \in Record
          /\ record'.bound = record.bound /\ remote' = remote /\ record.ops[cmd.request] # "absent"
      BY <1>a, <1>8, <2>1, AcknowledgeEffect
    <2>3. \A k \in Requests : OpGoesOn(k)
      BY <1>a, <2>2 DEF OpGoesOn, OpsOf
    <2> QED
      BY <2>2, <2>3 DEF GoesOn
  <1>9. CASE WriteIntent
    <2>1. /\ pc = "intent" /\ record' = mem /\ UNCHANGED <<remote>>
          /\ record.bound /\ mem.bound = record.bound /\ mem \in Record
          /\ record.ops[cmd.request] = "absent"
          /\ mem.ops = [record.ops EXCEPT ![cmd.request] = "pending"]
      BY <1>a, <1>9 DEF WriteIntent, Persisted, CommandInv, RequestInv, FlightInv, provider
    <2>2. \A k \in Requests : OpGoesOn(k)
      BY <1>a, <2>1 DEF OpGoesOn, OpsOf
    <2> QED
      BY <2>1, <2>2 DEF GoesOn
  <1>10. CASE SendAnswered
    <2>1. /\ mem.ops = record.ops /\ mem.bound = record.bound /\ mem.ops[cmd.request] = "pending"
      BY <1>a, <1>10 DEF SendAnswered, RequestInv, FlightInv, Steps
    <2>2. /\ record'.ops = [record.ops EXCEPT ![cmd.request] = "done"] /\ record' \in Record
          /\ record'.bound = record.bound /\ cmd.request \in Requests
      BY <1>a, <1>10, <2>1, SendAnsweredEffect
    <2>3. \A k \in Requests : OpGoesOn(k)
      BY <1>a, <2>1, <2>2 DEF OpGoesOn, OpsOf
    <2>4. ~NonePending(record)
      BY <2>1, <2>2 DEF NonePending, Pending
    <2> QED
      BY <2>2, <2>3, <2>4 DEF GoesOn
  <1>11. CASE SendLost
    <2>1. /\ mem.ops = record.ops /\ mem.ops[cmd.request] = "pending" /\ pc = "send"
      BY <1>a, <1>11 DEF SendLost, RequestInv, Steps
    <2>2. cmd.request \in Requests
      BY <1>a, <2>1, SendIsAlone
    <2>3. ~NonePending(record)
      BY <2>1, <2>2 DEF NonePending, Pending
    <2>4. record' = record
      BY <1>11 DEF SendLost, stored
    <2> QED
      BY <1>a, <2>3, <2>4 DEF GoesOn, OpGoesOn
  <1>12. CASE Save
    <2>1. /\ record' = mem /\ mem \in Record /\ mem.ops = record.ops /\ mem.bound = record.bound
          /\ UNCHANGED remote
      BY <1>a, <1>12 DEF Save, CommandInv, RequestInv, FlightInv, Steps, provider
    <2> QED
      BY <1>c, <2>1
  <1>13. CASE Discard
    BY <1>a, <1>c, <1>13, DiscardEffect
  <1>14. CASE Progress
    <2>1. UNCHANGED record /\ remote'.round = remote.round
      BY <1>a, <1>14 DEF Progress, stored, Session
    <2> QED
      BY <1>b, <2>1
  <1>15. CASE Arrive
    <2>1. PICK w \in flight : \/ (w = "create" /\ remote' = [remote EXCEPT !.exists = TRUE])
                              \/ (w # "create" /\ Effect(w))
                              \/ UNCHANGED remote
      BY <1>15 DEF Arrive
    <2>2. UNCHANGED record
      BY <1>15 DEF Arrive, stored
    <2>3. CASE w \in Requests
      <3>1. ~NonePending(record)
        BY <1>a, <2>3 DEF FlightInv, NonePending, Pending
      <3> QED
        BY <1>a, <2>2, <3>1 DEF GoesOn, OpGoesOn
    <2>4. CASE w \notin Requests
      <3>1. remote'.round = remote.round
        BY <1>a, <2>1, <2>4 DEF Session
      <3> QED
        BY <1>b, <2>2, <3>1
    <2> QED
      BY <2>3, <2>4
  <1>16. CASE UNCHANGED vars
    BY <1>b, <1>16 DEF vars
  <1> QED
    BY <1>1, <1>2, <1>3, <1>4, <1>5, <1>6, <1>7, <1>8, <1>9, <1>10, <1>11, <1>12, <1>13, <1>14,
       <1>15,
       <1>16 DEF Next

\* What was read stays read while commands run.
LEMMA ReadStands ==
    ASSUME Inv, [Next]_vars, NEW s \in Looks, ReadOf(s)
    PROVE  ReadOf(s)'
  <1>1. GoesOn /\ record \in Record
    BY RecordGoesOn DEF ReadOf, Inv, TypeOK
  <1>2. s.generation \in Generations
    BY DEF Looks, Snapshot
  <1>3. record' # NoRecord /\ record'.bound
    BY <1>1, RemoteAssumption DEF ReadOf, GoesOn
  <1>4. \A k \in Requests : s.generation[2][k] = "done" => record'.ops[k] = "done"
    BY <1>1 DEF ReadOf, GoesOn, OpGoesOn
  <1>5. ASSUME s \in Snapshot, Generation(record)' = s.generation PROVE s.round = remote'.round
    <2>1. record'.ops = s.generation[2]
      BY <1>5 DEF Generation
    <2>2. \A k \in Requests : record'.ops[k] = record.ops[k]
      BY <1>1, <2>1 DEF ReadOf, GoesOn, OpGoesOn
    <2>3. record.ops = record'.ops
      BY <1>1, <2>2 DEF Record, GoesOn
    <2>4. Generation(record) = s.generation /\ NonePending(record)
      <3>1. record.bound = TRUE /\ record'.bound = TRUE
        BY <1>1, <1>3 DEF ReadOf, Record, GoesOn
      <3>2. Generation(record) = s.generation
        BY <1>5, <2>3, <3>1 DEF Generation
      <3> QED
        BY <2>1, <2>3, <3>2 DEF NonePending, Pending, ReadOf
    <2> QED
      BY <1>1, <1>5, <2>4 DEF ReadOf, GoesOn
  <1> QED
    BY <1>3, <1>4, <1>5 DEF ReadOf

LEMMA Snapshots == NoSnapshot \notin Looks /\ Snapshot \subseteq Looks
  BY DEF NoSnapshot, Looks, Snapshot

\* Only ObserveGet says anything of the provider, and what it takes from an earlier
\* observation is of the generation it read.
LEMMA ObserverStep ==
    ASSUME Inv, ObserverInv, [ObserverNext]_<<vars, obs, retained>>
    PROVE  ObserverInv'
  <1>a. UNCHANGED vars => UNCHANGED <<record, remote>>
    BY DEF vars
  <1>1. CASE RunCommand
    <2>1. /\ [Next]_vars /\ UNCHANGED <<obs, retained>>
      BY <1>1 DEF RunCommand
    <2>2. \A s \in Looks : ReadOf(s) => ReadOf(s)'
      BY <2>1, ReadStands
    <2>3. obs # NoSnapshot => ReadOf(obs)'
      BY <2>1, <2>2 DEF ObserverInv, ReadOf
    <2>4. retained # NoSnapshot => ReadOf(retained)'
      BY <2>1, <2>2, Snapshots DEF ObserverInv, ReadOf
    <2> QED
      BY <2>1, <2>3, <2>4 DEF ObserverInv
  <1>2. CASE ObserveRead
    <2>1. /\ record \in Record /\ record # NoRecord /\ record.bound /\ NonePending(record)
          /\ obs' = [generation |-> Generation(record)] /\ UNCHANGED <<vars, retained>>
      BY <1>2 DEF ObserveRead, Inv, TypeOK
    <2>2. Generation(record) \in Generations
      BY <2>1 DEF Generation, Generations, Record
    <2>3. obs' \in Looks /\ obs' \notin Snapshot
      BY <2>1, <2>2 DEF Looks, Snapshot
    <2>4. UNCHANGED record
      BY <2>1 DEF vars
    <2>5. ReadOf(obs)'
      BY <2>1, <2>3, <2>4 DEF ReadOf, Generation, NonePending, Pending
    <2> QED
      BY <1>a, <2>1, <2>3, <2>5 DEF ObserverInv, ReadOf
  <1>3. CASE ObserveGet
    <2>1. /\ UNCHANGED <<vars, retained>> /\ obs \in Looks /\ ReadOf(obs)
          /\ \/ obs' = [generation |-> obs.generation, round |-> remote.round]
             \/ Fallback(obs.generation) /\ obs' = retained
      BY <1>3 DEF ObserveGet, Reading, ObserverInv
    <2>2. retained' # NoSnapshot => retained' \in Snapshot /\ ReadOf(retained)'
      BY <1>a, <2>1 DEF ObserverInv, ReadOf
    <2>3. CASE obs' = [generation |-> obs.generation, round |-> remote.round]
      <3>1. obs.generation \in Generations /\ remote.round \in Nat
        BY <2>1 DEF Looks, Snapshot, Inv, TypeOK
      <3>2. obs' \in Looks /\ obs'.generation = obs.generation /\ obs'.round = remote.round
        BY <2>3, <3>1 DEF Looks, Snapshot
      <3>3. UNCHANGED <<record, remote>>
        BY <2>1 DEF vars
      <3>4. ReadOf(obs)'
        BY <2>1, <3>2, <3>3 DEF ReadOf
      <3> QED
        BY <2>2, <3>2, <3>4 DEF ObserverInv
    <2>4. CASE Fallback(obs.generation) /\ obs' = retained
      BY <1>a, <2>1, <2>2, <2>4, Snapshots DEF ObserverInv, Fallback, ReadOf
    <2> QED
      BY <2>1, <2>3, <2>4
  <1>4. CASE ObserveFails
    BY <1>a, <1>4 DEF ObserveFails, ObserverInv, ReadOf
  <1>5. CASE ObserveReturn
    <2>1. /\ UNCHANGED vars /\ obs \in Snapshot /\ obs' = NoSnapshot /\ retained' = obs
          /\ ReadOf(obs)
      BY <1>5, Snapshots DEF ObserveReturn, ObserverInv
    <2> QED
      BY <1>a, <2>1 DEF ObserverInv, ReadOf
  <1>6. CASE UNCHANGED <<vars, obs, retained>>
    BY <1>a, <1>6 DEF ObserverInv, ReadOf
  <1> QED
    BY <1>1, <1>2, <1>3, <1>4, <1>5, <1>6 DEF ObserverNext

\* The observer leaves the session as it is: beside it, commands keep every promise
\* they keep alone.
LEMMA ObserverInvariance == ObserverSpec => [](Inv /\ ObserverInv)
  <1>1. ObserverInit => Inv /\ ObserverInv
    BY InitInv DEF ObserverInit, ObserverInv
  <1>2. [ObserverNext]_<<vars, obs, retained>> => [Next]_vars
    BY DEF ObserverNext, RunCommand, ObserveRead, ObserveGet, ObserveFails, ObserveReturn
  <1>3. Inv /\ ObserverInv /\ [ObserverNext]_<<vars, obs, retained>> => Inv' /\ ObserverInv'
    BY <1>2, ObserverStep, InvStep
  <1> QED
    BY <1>1, <1>3, PTL DEF ObserverSpec

\* Whatever commands run between its reads, and whether the provider answers or an
\* observation its caller retained stands in, the observer returns what the provider
\* says of the round it is in (RemoteSessions.observe).
THEOREM ObservationIsCurrent == ObserverSpec => ObservedRoundIsCurrent
  <1>1. ASSUME Inv, ObserverInv, ObserveReturn PROVE retained'.round = remote.round
    BY <1>1, Snapshots DEF ObserveReturn, ObserverInv, ReadOf
  <1>2. Inv /\ ObserverInv /\ [ObserverNext]_<<vars, obs, retained>> =>
          [ObserveReturn => retained'.round = remote.round]_<<vars, obs, retained>>
    BY <1>1
  <1> QED
    BY <1>2, ObserverInvariance, PTL DEF ObserverSpec, ObservedRoundIsCurrent
=============================================================================
