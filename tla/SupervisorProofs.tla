--------------------------- MODULE SupervisorProofs ---------------------------
(***************************************************************************)
(* Proofs about what runs unattended on a host: first the supervisor's     *)
(* reservation, for every set of heads and request keys and every bound on *)
(* calls, messages, fixes, reviews and restarts; then the managed service  *)
(* of a Board (BoardService) and an audit of a pull request (AuditReview), *)
(* each with its own invariant.                                            *)
(*                                                                         *)
(* The reservation's says what a running operation may rely on: its copy   *)
(* agrees with the saved record (Agree), the mark of the call it is about  *)
(* to make is saved (Marked), and the claim has neither been revoked nor   *)
(* cancelled under it (Held, Handed).  From that follow what has left      *)
(* (Calls, Writer, Messages, Spending, Requests) and what runs outside     *)
(* (Outside).                                                              *)
(***************************************************************************)
EXTENDS Supervisor, BoardService, AuditReview, TLAPS, FiniteSetTheorems

\* The parts of the type invariant.
RecordsTyped == disk \in Record /\ mem \in Record

PositionTyped ==
  /\ act \in Acts \cup {"none"} /\ key \in Keys \cup {"none"} /\ passed \in BOOLEAN
  /\ pc \in {"idle", "decide", "runtime", "decided", "dispatch", "dispatched",
             "cancelBuilder", "cancelReview", "cancelled", "observe", "observed",
             "request", "requested", "confirm", "resume", "send", "sent"}

WorldTyped ==
  /\ gen \in 1 .. Generations /\ expired \in BOOLEAN
  /\ life \in {"none", "running", "waiting", "ended"}
  /\ head \in HeadOrNone
  /\ verdict \in [Heads -> {"none", "running", "passed", "failed", "cancelled"}]
  /\ sent \in [calls : Nat, dispatch : Nat, messages : [Keys -> Nat],
               reviews : [Rounds -> Nat]]
  /\ late \in {"none", "dispatch", "request", "send"}

\* An operation's copy differs from the saved record in observations only, and
\* its target only between the observation and the next write.
Agree ==
  /\ mem.admitted = disk.admitted /\ mem.claim = disk.claim /\ mem.calls = disk.calls
  /\ mem.pending = disk.pending /\ mem.started = disk.started
  /\ mem.revoked = disk.revoked /\ mem.cancel = disk.cancel
  /\ mem.reviewTarget = disk.reviewTarget /\ mem.round = disk.round
  /\ mem.answers = disk.answers /\ mem.fixes = disk.fixes /\ mem.reviews = disk.reviews
  /\ mem.requests = disk.requests /\ mem.state = disk.state
  /\ mem.target # disk.target => act = "result" /\ pc \in {"observed", "decide"}

\* The mark each step of an operation works under.
Marked ==
  /\ pc = "runtime" => disk.pending = "runtime"
  /\ pc \in {"dispatch", "dispatched"} => disk.pending = "dispatch"
  /\ pc \in {"request", "requested"} => disk.pending = "review"
  /\ pc \in {"resume", "send", "sent"} =>
       /\ act \in {"clarify", "fix"} /\ disk.pending = act
       /\ key \in Keys /\ disk.requests[key] = "intent"
  /\ pc \in {"cancelBuilder", "cancelReview", "cancelled"} => disk.pending = "cancel"
  /\ pc \in {"decide", "decided", "observe", "observed", "confirm"} => disk.pending = "none"
  /\ pc \in {"decide", "runtime", "decided"} =>
       act \in {"admit", "renew", "handoff", "result"}
  /\ pc \in {"observe", "observed"} => act \in {"status", "result"}
  /\ pc \in {"request", "requested", "confirm"} => act = "result"

\* What stays true of the claim and the delegation while an operation runs.
Delegating == {"decide", "runtime", "decided", "dispatch", "dispatched", "request",
               "requested", "confirm", "resume", "send", "sent"}

Held ==
  /\ ~disk.admitted => disk.claim = 0 /\ disk.pending = "none"
  /\ disk.claim = 0 => ~disk.started /\ ~disk.cancel /\ ~disk.revoked
  /\ pc # "idle" =>
       disk.admitted /\ ~disk.revoked /\ (disk.claim = gen \/ (disk.claim = 0 /\ act = "admit"))
  /\ pc \in Delegating => ~disk.cancel
  /\ pc \in {"cancelBuilder", "cancelReview", "cancelled"} => disk.cancel

\* How far the delegation has gone at each step.
Handed ==
  /\ disk.pending = "dispatch" => ~disk.started
  /\ act = "handoff" /\ pc \in {"decide", "runtime", "decided"} => ~disk.started
  /\ disk.reviewTarget # "none" => disk.started
  /\ disk.pending \in {"review", "clarify", "fix"} => disk.started
  /\ act \in {"status", "result"} /\ pc # "idle" => disk.started /\ disk.state = "open"
  /\ pc = "observe" => disk.target = "none"
  /\ act = "status" /\ pc = "observed" => disk.target = "none"
  /\ pc = "cancelBuilder" => disk.started

\* Calls of the runtime, dispatches, messages and review requests.
Calls ==
  /\ sent.calls <= disk.calls
  /\ pc = "runtime" => sent.calls < disk.calls

Writer ==
  /\ sent.dispatch \in {0, 1}
  /\ disk.started => sent.dispatch = 1
  /\ ~disk.started /\ disk.pending # "dispatch" => sent.dispatch = 0
  /\ pc = "dispatch" => sent.dispatch = 0
  /\ pc = "dispatched" => sent.dispatch = 1

Messages ==
  /\ \A k \in Keys : sent.messages[k] \in {0, 1}
  /\ \A k \in Keys : disk.requests[k] = "new" => sent.messages[k] = 0
  /\ \A k \in Keys : disk.requests[k] = "done" => sent.messages[k] = 1
  /\ \A k \in Keys : disk.requests[k] = "intent" => disk.pending \in {"clarify", "fix"}
  /\ pc \in {"resume", "send", "sent"} =>
       \A k \in Keys : disk.requests[k] = "intent" => k = key
  /\ pc \in {"resume", "send"} => sent.messages[key] = 0
  /\ pc = "sent" => sent.messages[key] = 1

Done(q) == {k \in Keys : q[k] = "done"}
Spent(q) == {k \in Keys : q[k] # "new"}

Spending ==
  /\ disk.round = Cardinality(Done(disk.requests))
  /\ disk.answers + disk.fixes = Cardinality(Spent(disk.requests))

Requests ==
  /\ \A r \in Rounds : sent.reviews[r] \in {0, 1}
  /\ \A r \in Rounds : r > disk.round => sent.reviews[r] = 0
  /\ disk.pending # "review" =>
       sent.reviews[disk.round] = IF disk.reviewTarget = "none" THEN 0 ELSE 1
  /\ disk.pending = "review" => disk.reviewTarget # "none"
  /\ pc = "request" => sent.reviews[disk.round] = 0
  /\ pc = "requested" => sent.reviews[disk.round] = 1

\* The builder, the review runtime and the calls under way.
Late ==
  /\ late = "dispatch" => disk.pending = "dispatch"
  /\ late = "request" => disk.pending = "review"
  /\ late = "send" => disk.pending \in {"clarify", "fix"}
  /\ pc \in {"dispatch", "dispatched", "request", "requested", "resume", "send", "sent"} =>
       late = "none"

ReviewRunsFor(h) == verdict[h] = "running"

Reviewing ==
  /\ \A h \in Heads : ReviewRunsFor(h) => h = disk.reviewTarget /\ life = "ended"
  /\ disk.reviewTarget # "none" /\ disk.pending # "fix" => life = "ended"
  /\ disk.pending = "fix" => \A h \in Heads : ~ReviewRunsFor(h)
  /\ disk.pending = "clarify" => disk.reviewTarget = "none"

Builder ==
  /\ disk.builder = "ended" \/ mem.builder = "ended" => life = "ended"
  /\ disk.builder = "none" \/ mem.builder = "none" => life = "none"
  /\ disk.started \/ pc = "dispatched" => life # "none"
  /\ disk.pending \in {"dispatch", "clarify", "fix"} =>
       disk.builder = "unknown" /\ mem.builder = "unknown"

\* A collection that goes on past its observation has a verified target.
Collecting ==
  /\ act = "result" /\ pc \in {"decide", "runtime", "decided", "confirm"} =>
       /\ mem.target # "none" /\ mem.builder = "ended"
       /\ mem.reviewTarget \in {"none", mem.target}
  /\ passed => mem.reviewTarget # "none" /\ act = "result"
  /\ pc = "confirm" => passed

Completion ==
  disk.state = "complete" =>
    /\ disk.pending \in {"none", "runtime"}
    /\ disk.target # "none" /\ disk.target = disk.reviewTarget
    /\ verdict[disk.target] = "passed"

Cancellation ==
  /\ disk.state = "cancelled" =>
       /\ disk.cancel /\ disk.pending = "none"
       /\ life \in {"none", "ended"}
       /\ \A h \in Heads : ~ReviewRunsFor(h)
  /\ pc = "cancelled" /\ mem.reviewTarget # "none" /\ mem.reviewer \in {"none", "ended"} =>
       ~ReviewRunsFor(mem.reviewTarget)
  /\ disk.cancel => disk.pending \in {"none", "cancel"}

Inv ==
  /\ TypeOK /\ Agree /\ Marked /\ Held /\ Handed
  /\ Calls /\ Writer /\ Messages /\ Spending /\ Requests
  /\ Late /\ Reviewing /\ Builder /\ Collecting /\ Completion /\ Cancellation
-----------------------------------------------------------------------------
LEMMA InitInv == Init => Inv
<1> SUFFICES ASSUME Init PROVE Inv
  OBVIOUS
<1> USE LimitAssumption DEF Init, NewRecord
<1>0. Cardinality(Keys) \in Nat
  BY FS_CardinalityType
<1>1. TypeOK
  <2>1. disk \in Record /\ mem \in Record
    BY <1>0 DEF Record, Rounds, HeadOrNone
  <2>2. sent \in [calls : Nat, dispatch : Nat, messages : [Keys -> Nat],
                 reviews : [Rounds -> Nat]]
    BY DEF Rounds
  <2>3. act \in Acts \cup {"none"} /\ gen \in 1 .. Generations
    OBVIOUS
  <2>4. verdict \in [Heads -> {"none", "running", "passed", "failed", "cancelled"}]
    OBVIOUS
  <2> QED
    BY <2>1, <2>2, <2>3, <2>4 DEF TypeOK, HeadOrNone
<1>2. Agree /\ Marked /\ Held /\ Handed
  BY DEF Agree, Marked, Held, Handed, Delegating
<1>3. Calls /\ Writer /\ Messages
  BY DEF Calls, Writer, Messages
<1>4. Spending
  <2>1. Done(disk.requests) = {} /\ Spent(disk.requests) = {}
    BY DEF Done, Spent
  <2> QED
    BY <2>1, FS_EmptySet DEF Spending
<1>5. Requests
  BY <1>0 DEF Requests, Rounds
<1>6. Late /\ Reviewing /\ Builder /\ Collecting /\ Completion /\ Cancellation
  BY DEF Late, Reviewing, Builder, Collecting, Completion, Cancellation, ReviewRunsFor
<1> QED
  BY <1>1, <1>2, <1>3, <1>4, <1>5, <1>6 DEF Inv

LEMMA CancelStatusType == ASSUME NEW r \in Record PROVE CancelStatus(r) \in Record
  BY DEF CancelStatus, Record

LEMMA WithReviewerType ==
  ASSUME NEW r \in Record, NEW v PROVE WithReviewer(r, v) \in Record
<1>1. \A x \in {"none", "active", "ended"} : [r EXCEPT !.reviewer = x] \in Record
  BY DEF Record
<1>2. r.reviewer \in {"none", "active", "ended"}
  BY DEF Record
<1>3. CASE r.reviewTarget = "none"
  BY <1>1, <1>2, <1>3 DEF WithReviewer
<1>4. CASE r.reviewTarget # "none" /\ v[r.reviewTarget] \in {"none", "running"}
  BY <1>1, <1>4 DEF WithReviewer
<1>5. CASE r.reviewTarget # "none" /\ v[r.reviewTarget] \notin {"none", "running"}
  BY <1>1, <1>5 DEF WithReviewer
<1> QED
  BY <1>3, <1>4, <1>5

LEMMA IntentType ==
  ASSUME NEW r \in Record, NEW a \in {"clarify", "fix"}, NEW k \in Keys,
         r.answers + (IF a = "clarify" THEN 1 ELSE 0) \in 0 .. Answers,
         r.fixes + (IF a = "fix" THEN 1 ELSE 0) \in 0 .. Fixes
  PROVE  Intent(r, a, k) \in Record
<1> DEFINE q == [r.requests EXCEPT ![k] = "intent"]
           x == r.answers + (IF a = "clarify" THEN 1 ELSE 0)
           y == r.fixes + (IF a = "fix" THEN 1 ELSE 0)
           s == [r EXCEPT !.requests = q, !.pending = a, !.target = "none",
                          !.answers = x, !.fixes = y,
                          !.builder = "unknown", !.reviewer = "none", !.state = "open"]
<1>1. q \in [Keys -> {"new", "intent", "done"}]
  BY DEF Record
<1>2. x \in 0 .. Answers /\ y \in 0 .. Fixes
  OBVIOUS
<1>3. Intent(r, a, k) = s
  BY DEF Intent
<1>4. s \in Record
  <2> HIDE DEF q, x, y
  <2> QED
    BY ZenonT(30), <1>1, <1>2 DEF Record, HeadOrNone
<1> QED
  BY <1>3, <1>4

LEMMA ResumedType ==
  ASSUME NEW r \in Record, key \in Keys, r.round + 1 \in Rounds,
         life \in {"none", "running", "waiting", "ended"}
  PROVE  Resumed(r) \in Record
<1> DEFINE q == [r.requests EXCEPT ![key] = "done"]
           n == r.round + 1
           s == [r EXCEPT !.round = n, !.pending = "none", !.reviewTarget = "none",
                          !.requests = q, !.builder = life]
<1>1. q \in [Keys -> {"new", "intent", "done"}]
  BY DEF Record
<1>2. n \in Rounds
  OBVIOUS
<1>3. Resumed(r) = s
  BY DEF Resumed
<1>4. s \in Record
  <2> HIDE DEF q, n
  <2> QED
    BY <1>1, <1>2 DEF Record, HeadOrNone
<1> QED
  BY <1>3, <1>4

LEMMA KeysAreFinite == Cardinality(Keys) \in Nat
  BY LimitAssumption, FS_CardinalityType

LEMMA RoundsAreNumbers == \A r \in Rounds : r \in Nat
  BY KeysAreFinite DEF Rounds

\* What an operation that starts from idle has checked.
LEMMA Begins ==
  ASSUME Inv, NEW a, MayBegin(a)
  PROVE  /\ pc = "idle" /\ disk.claim = gen /\ disk.claim # 0 /\ ~disk.revoked
         /\ disk.admitted
<1>1. pc = "idle" /\ disk.claim = gen /\ ~disk.revoked
  BY DEF MayBegin, Live
<1>2. gen # 0
  BY LimitAssumption DEF Inv, TypeOK
<1>3. disk.claim # 0
  BY <1>1, <1>2
<1> QED
  BY <1>1, <1>3 DEF Inv, Held

\* The one counter that a call leaving moves.
LEMMA Leaves ==
  ASSUME Inv, pc \in {"dispatch", "request", "send"}, sent' = Leaving(pc)
  PROVE  /\ sent' \in [calls : Nat, dispatch : Nat, messages : [Keys -> Nat],
                       reviews : [Rounds -> Nat]]
         /\ sent'.calls = sent.calls
         /\ sent'.dispatch = IF pc = "dispatch" THEN sent.dispatch + 1 ELSE sent.dispatch
         /\ \A k \in Keys : sent'.messages[k] =
              IF pc = "send" /\ k = key THEN sent.messages[k] + 1 ELSE sent.messages[k]
         /\ \A r \in Rounds : sent'.reviews[r] =
              IF pc = "request" /\ r = disk.round THEN sent.reviews[r] + 1 ELSE sent.reviews[r]
<1>0. sent \in [calls : Nat, dispatch : Nat, messages : [Keys -> Nat],
               reviews : [Rounds -> Nat]]
  BY DEF Inv, TypeOK
<1>1. CASE pc = "dispatch"
  <2>1. sent' = [sent EXCEPT !.dispatch = @ + 1]
    BY <1>1 DEF Leaving
  <2> QED
    BY <1>0, <1>1, <2>1
<1>2. CASE pc = "send"
  <2>1. sent' = [sent EXCEPT !.messages[key] = @ + 1]
    BY <1>2 DEF Leaving
  <2>2. key \in Keys
    BY <1>2 DEF Inv, Marked
  <2> QED
    BY <1>0, <1>2, <2>1, <2>2
<1>3. CASE pc = "request"
  <2>1. sent' = [sent EXCEPT !.reviews[disk.round] = @ + 1]
    BY <1>3 DEF Leaving
  <2>2. disk.round \in Rounds
    BY DEF Inv, TypeOK, Record
  <2> QED
    BY <1>0, <1>3, <2>1, <2>2
<1> QED
  BY <1>1, <1>2, <1>3

LEMMA RequestLeaves ==
  ASSUME Inv, pc \in {"dispatch", "request", "send"}, sent' = Leaving(pc)
  PROVE  /\ \A r \in Rounds : sent'.reviews[r] \in {0, 1}
         /\ \A r \in Rounds : r > disk.round => sent'.reviews[r] = 0
         /\ pc = "request" => sent'.reviews[disk.round] = 1
         /\ pc # "request" => sent'.reviews[disk.round] = sent.reviews[disk.round]
<1>1. \A r \in Rounds : sent'.reviews[r] =
        IF pc = "request" /\ r = disk.round THEN sent.reviews[r] + 1 ELSE sent.reviews[r]
  BY Leaves
<1>2. disk.round \in Rounds
  BY DEF Inv, TypeOK, Record
<1>3. /\ \A r \in Rounds : sent.reviews[r] \in {0, 1}
      /\ \A r \in Rounds : r > disk.round => sent.reviews[r] = 0
      /\ pc = "request" => sent.reviews[disk.round] = 0
  BY DEF Inv, Requests
<1> QED
  BY <1>1, <1>2, <1>3, RoundsAreNumbers

\* Marking a key moves it into the sets that are counted.
LEMMA SpentIsCounted ==
  ASSUME Inv
  PROVE  /\ Cardinality(Spent(disk.requests)) \in Nat
         /\ Cardinality(Done(disk.requests)) \in 0 .. Cardinality(Keys)
         /\ IsFiniteSet(Spent(disk.requests)) /\ IsFiniteSet(Done(disk.requests))
<1>1. Done(disk.requests) \subseteq Keys /\ Spent(disk.requests) \subseteq Keys
  BY DEF Done, Spent
<1> QED
  BY <1>1, LimitAssumption, FS_Subset, FS_CardinalityType

LEMMA IntentIsSpent ==
  ASSUME Inv, NEW k \in Keys, NEW q \in [Keys -> {"new", "intent", "done"}],
         disk.requests[k] = "new",
         q = [disk.requests EXCEPT ![k] = "intent"]
  PROVE  /\ Cardinality(Spent(q)) = Cardinality(Spent(disk.requests)) + 1
         /\ Done(q) = Done(disk.requests)
<1>0. disk.requests \in [Keys -> {"new", "intent", "done"}]
  BY DEF Inv, TypeOK, Record
<1>1. Spent(q) = Spent(disk.requests) \cup {k} /\ k \notin Spent(disk.requests)
  BY <1>0 DEF Spent
<1>2. Done(q) = Done(disk.requests)
  BY <1>0 DEF Done
<1> QED
  BY <1>1, <1>2, SpentIsCounted, FS_AddElement

LEMMA RoundIsLeft ==
  ASSUME Inv, NEW k \in Keys, NEW q \in [Keys -> {"new", "intent", "done"}],
         disk.requests[k] = "intent",
         q = [disk.requests EXCEPT ![k] = "done"]
  PROVE  /\ Spent(q) = Spent(disk.requests)
         /\ Cardinality(Done(q)) = disk.round + 1
         /\ disk.round + 1 \in Rounds
<1>0. disk.requests \in [Keys -> {"new", "intent", "done"}]
  BY DEF Inv, TypeOK, Record
<1>1. Done(q) = Done(disk.requests) \cup {k} /\ k \notin Done(disk.requests)
  BY <1>0 DEF Done
<1>2. Spent(q) = Spent(disk.requests)
  BY <1>0 DEF Spent
<1>3. Cardinality(Done(q)) = disk.round + 1
  BY <1>1, SpentIsCounted, FS_AddElement DEF Inv, Spending
<1>4. Cardinality(Done(q)) <= Cardinality(Keys)
  <2>1. Done(q) \subseteq Keys
    BY DEF Done
  <2> QED
    BY <2>1, LimitAssumption, FS_Subset
<1>5. disk.round \in Nat
  BY KeysAreFinite DEF Inv, TypeOK, Record, Rounds
<1> QED
  BY <1>2, <1>3, <1>4, <1>5, KeysAreFinite DEF Rounds

\* Every operation keeps the type of the record.
LEMMA RecordStep == ASSUME Inv, [Next]_vars PROVE RecordsTyped'
<1> USE LimitAssumption DEF Inv, TypeOK, operation, world, RecordsTyped
<1>1. CASE Uncertain
  BY <1>1 DEF Uncertain, Write, Record
<1>2. CASE Admit
  BY <1>2 DEF Admit, Write, Enter, Record
<1>3. ASSUME NEW a \in {"renew", "handoff"}, BeginDecision(a) PROVE RecordsTyped'
  BY <1>3 DEF BeginDecision, MayBegin, MayAsk, Blocked, Enter
<1>4. CASE ReserveCall
  <2>1. mem \in Record /\ mem.calls + 1 \in 0 .. RuntimeCalls
    BY <1>4 DEF ReserveCall, CallLeft, Record
  <2>2. Charged(mem) \in Record
    BY <2>1 DEF Charged, Record
  <2> QED
    BY <1>4, <2>2 DEF ReserveCall, Write
<1>5. CASE Decide
  BY <1>5 DEF Decide, Write, Goto, Record
<1>6. CASE DecideFails
  BY <1>6 DEF DecideFails, Return
<1>7. CASE Accept
  BY <1>7 DEF Accept, At, Write, Return, Record
<1>8. CASE Renew
  BY <1>8 DEF Renew, At, Write, Return
<1>9. CASE ReserveDispatch
  BY <1>9 DEF ReserveDispatch, At, Write, DispatchIntent, Goto, Record
<1>10. CASE Dispatch
  BY <1>10 DEF Dispatch, Effect, Goto
<1>11. CASE Dispatched
  BY <1>11 DEF Dispatched, Write, Return, Record
<1>12. CASE ReserveCancel
  BY <1>12 DEF ReserveCancel, MayBegin, Blocked, Write, Enter, Record
<1>13. CASE CancelBuilder
  BY <1>13 DEF CancelBuilder, Keep, Goto, Record
<1>14. CASE CancelReview
  BY <1>14, WithReviewerType DEF CancelReview, Keep, Goto
<1>15. CASE Cancelled
  <2>1. [mem EXCEPT !.pending = "none"] \in Record
    BY DEF Record
  <2> QED
    BY <1>15, <2>1, CancelStatusType DEF Cancelled, Write
<1>16. ASSUME NEW a \in {"status", "result"}, Refresh(a) PROVE RecordsTyped'
  BY <1>16 DEF Refresh, MayBegin, Blocked, Write, Withdrawn, Enter, Record,
    HeadOrNone
<1>17. CASE Observe
  <2>1. PICK t \in {"none"} \cup {head} : mem' = [mem EXCEPT !.builder = life, !.target = t]
    BY <1>17 DEF Observe, Keep
  <2>2. t \in HeadOrNone
    BY <2>1 DEF HeadOrNone
  <2>3. [mem EXCEPT !.builder = life, !.target = t] \in Record
    BY <2>2 DEF Record
  <2> QED
    BY <1>17, <2>1, <2>3 DEF Observe, Keep
<1>18. CASE Observed
  BY <1>18 DEF Observed, Write, Return
<1>19. CASE ObservedCancelled
  <2>1. WithReviewer(mem, verdict) \in Record
    BY WithReviewerType
  <2> QED
    BY <1>19, <2>1, CancelStatusType DEF ObservedCancelled, Write
<1>20. CASE Collect
  BY <1>20, WithReviewerType DEF Collect, At, Keep, Ready
<1>21. CASE ReserveReview
  <2>1. mem.reviews + 1 \in 0 .. Reviews /\ mem.target \in HeadOrNone
    BY <1>21 DEF ReserveReview, MayReview, Record
  <2>2. [mem EXCEPT !.reviews = @ + 1, !.pending = "review", !.reviewTarget = mem.target] \in Record
    BY <2>1 DEF Record
  <2> QED
    BY <1>21, <2>2 DEF ReserveReview, Write
<1>22. CASE RequestReview
  BY <1>22 DEF RequestReview, Effect, Goto
<1>23. CASE Requested
  BY <1>23 DEF Requested, Write, Return, Record
<1>24. CASE ConfirmHead
  BY <1>24 DEF ConfirmHead, At, Goto
<1>25. CASE Complete
  BY <1>25 DEF Complete, Write, Return, Record, HeadOrNone
<1>26. CASE Wait
  BY <1>26 DEF Wait, At, Write, Return
<1>27. ASSUME NEW a \in {"clarify", "fix"}, NEW k \in Keys, ReserveResume(a, k)
       PROVE RecordsTyped'
  <2>1. /\ disk.answers + (IF a = "clarify" THEN 1 ELSE 0) \in 0 .. Answers
        /\ disk.fixes + (IF a = "fix" THEN 1 ELSE 0) \in 0 .. Fixes
    BY <1>27 DEF ReserveResume, MayClarify, MayFix, Record
  <2>2. Intent(disk, a, k) \in Record
    BY <1>27, <2>1, IntentType
  <2> QED
    BY <1>27, <2>2 DEF ReserveResume, Write
<1>28. CASE Fence
  BY <1>28 DEF Fence, Goto
<1>29. CASE Send
  BY <1>29 DEF Send, Effect, Goto
<1>30. CASE Resume
  <2>1. key \in Keys /\ mem.requests = disk.requests /\ mem.round = disk.round
    BY <1>30 DEF Resume, Marked, Agree
  <2>2. disk.requests[key] = "intent"
    BY <1>30 DEF Resume, Marked
  <2>3. [disk.requests EXCEPT ![key] = "done"] \in [Keys -> {"new", "intent", "done"}]
    BY DEF Record
  <2>4. mem.round + 1 \in Rounds
    BY <2>1, <2>2, <2>3, RoundIsLeft
  <2>5. Resumed(mem) \in Record
    BY <2>1, <2>4, ResumedType
  <2> QED
    BY <1>30, <2>5 DEF Resume, Write
<1>31. CASE Revoke
  BY <1>31 DEF Revoke, Write, Record
<1>32. CASE Abandon
  BY <1>32 DEF Abandon, Return
<1>33. CASE Lose
  BY <1>33 DEF Lose, Return
<1>34. CASE Arrive
  BY <1>34 DEF Arrive, Effect
<1>35. CASE Restart
  BY <1>35 DEF Restart, Return
<1>36. CASE Expire
  BY <1>36 DEF Expire
<1>37. CASE Work
  BY <1>37 DEF Work
<1>38. CASE Push
  BY <1>38 DEF Push
<1>39. CASE Exit
  BY <1>39 DEF Exit
<1>40. ASSUME NEW h \in Heads, Judge(h) PROVE RecordsTyped'
  BY <1>40 DEF Judge
<1>41. CASE UNCHANGED vars
  BY <1>41 DEF vars
<1> QED
  BY SMTT(30), <1>1, <1>2, <1>3, <1>4, <1>5, <1>6, <1>7, <1>8, <1>9, <1>10, <1>11, <1>12,
    <1>13, <1>14, <1>15, <1>16, <1>17, <1>18, <1>19, <1>20, <1>21, <1>22, <1>23,
    <1>24, <1>25, <1>26, <1>27, <1>28, <1>29, <1>30, <1>31, <1>32, <1>33, <1>34,
    <1>35, <1>36, <1>37, <1>38, <1>39, <1>40, <1>41 DEF Next, Operate, Environment

\* Every operation keeps the type of its position.
LEMMA PositionStep == ASSUME Inv, [Next]_vars PROVE PositionTyped'
<1> USE LimitAssumption DEF Inv, TypeOK, Acts, operation, world, PositionTyped
<1>1. CASE Uncertain
  BY <1>1 DEF Uncertain, Write
<1>2. CASE Admit
  BY <1>2 DEF Admit, Write, Enter
<1>3. ASSUME NEW a \in {"renew", "handoff"}, BeginDecision(a) PROVE PositionTyped'
  BY <1>3 DEF BeginDecision, MayBegin, MayAsk, Blocked, Enter
<1>4. CASE ReserveCall
  BY <1>4 DEF ReserveCall, Write, Charged, CallLeft, Goto
<1>5. CASE Decide
  BY <1>5 DEF Decide, Write, Goto
<1>6. CASE DecideFails
  BY <1>6 DEF DecideFails, Return
<1>7. CASE Accept
  BY <1>7 DEF Accept, At, Write, Return
<1>8. CASE Renew
  BY <1>8 DEF Renew, At, Write, Return
<1>9. CASE ReserveDispatch
  BY <1>9 DEF ReserveDispatch, At, Write, DispatchIntent, Goto
<1>10. CASE Dispatch
  BY <1>10 DEF Dispatch, Effect, Goto
<1>11. CASE Dispatched
  BY <1>11 DEF Dispatched, Write, Return
<1>12. CASE ReserveCancel
  BY <1>12 DEF ReserveCancel, MayBegin, Blocked, Write, Enter
<1>13. CASE CancelBuilder
  BY <1>13 DEF CancelBuilder, Keep, Goto
<1>14. CASE CancelReview
  BY <1>14 DEF CancelReview, Keep, WithReviewer, Goto
<1>15. CASE Cancelled
  BY <1>15 DEF Cancelled, Write, CancelStatus, Exited, Return
<1>16. ASSUME NEW a \in {"status", "result"}, Refresh(a) PROVE PositionTyped'
  BY <1>16 DEF Refresh, MayBegin, Blocked, Write, Withdrawn, Enter
<1>17. CASE Observe
  BY <1>17 DEF Observe, Keep, Goto
<1>18. CASE Observed
  BY <1>18 DEF Observed, Write, Return
<1>19. CASE ObservedCancelled
  BY <1>19 DEF ObservedCancelled, Write, CancelStatus, WithReviewer, Exited, Return
<1>20. CASE Collect
  BY <1>20 DEF Collect, At, Keep, WithReviewer, Ready
<1>21. CASE ReserveReview
  BY <1>21 DEF ReserveReview, At, MayReview, Unmoved, Write, Goto
<1>22. CASE RequestReview
  BY <1>22 DEF RequestReview, Effect, Goto
<1>23. CASE Requested
  BY <1>23 DEF Requested, Write, Return
<1>24. CASE ConfirmHead
  BY <1>24 DEF ConfirmHead, At, Goto
<1>25. CASE Complete
  BY <1>25 DEF Complete, Write, Return
<1>26. CASE Wait
  BY <1>26 DEF Wait, At, Write, Return
<1>27. ASSUME NEW a \in {"clarify", "fix"}, NEW k \in Keys, ReserveResume(a, k)
       PROVE PositionTyped'
  BY <1>27 DEF ReserveResume, MayBegin, Blocked, Fresh, MayClarify, MayFix, Write,
    Intent, Enter
<1>28. CASE Fence
  BY <1>28 DEF Fence, Goto, Marked
<1>29. CASE Send
  BY <1>29 DEF Send, Effect, Goto, Marked
<1>30. CASE Resume
  BY <1>30 DEF Resume, Write, Resumed, Return
<1>31. CASE Revoke
  BY <1>31 DEF Revoke, Write
<1>32. CASE Abandon
  BY <1>32 DEF Abandon, Return
<1>33. CASE Lose
  BY <1>33 DEF Lose, Return
<1>34. CASE Arrive
  BY <1>34 DEF Arrive, Effect
<1>35. CASE Restart
  BY <1>35 DEF Restart, Return
<1>36. CASE Expire
  BY <1>36 DEF Expire
<1>37. CASE Work
  BY <1>37 DEF Work
<1>38. CASE Push
  BY <1>38 DEF Push
<1>39. CASE Exit
  BY <1>39 DEF Exit
<1>40. ASSUME NEW h \in Heads, Judge(h) PROVE PositionTyped'
  BY <1>40 DEF Judge
<1>41. CASE UNCHANGED vars
  BY <1>41 DEF vars
<1> QED
  BY SMTT(30), <1>1, <1>2, <1>3, <1>4, <1>5, <1>6, <1>7, <1>8, <1>9, <1>10, <1>11, <1>12,
    <1>13, <1>14, <1>15, <1>16, <1>17, <1>18, <1>19, <1>20, <1>21, <1>22, <1>23,
    <1>24, <1>25, <1>26, <1>27, <1>28, <1>29, <1>30, <1>31, <1>32, <1>33, <1>34,
    <1>35, <1>36, <1>37, <1>38, <1>39, <1>40, <1>41 DEF Next, Operate, Environment

\* Every step keeps the type of what is outside.
LEMMA WorldStep == ASSUME Inv, [Next]_vars PROVE WorldTyped'
<1> USE LimitAssumption DEF Inv, TypeOK, HeadOrNone, operation, world, WorldTyped
<1>1. CASE Uncertain
  BY <1>1 DEF Uncertain, Write
<1>2. CASE Admit
  BY <1>2 DEF Admit, Write, Enter
<1>3. ASSUME NEW a \in {"renew", "handoff"}, BeginDecision(a) PROVE WorldTyped'
  BY <1>3 DEF BeginDecision, MayBegin, MayAsk, Blocked, Enter
<1>4. CASE ReserveCall
  BY <1>4 DEF ReserveCall, Write, Charged, CallLeft, Goto
<1>5. CASE Decide
  BY <1>5 DEF Decide, Write, Goto
<1>6. CASE DecideFails
  BY <1>6 DEF DecideFails, Return
<1>7. CASE Accept
  BY <1>7 DEF Accept, At, Write, Return
<1>8. CASE Renew
  BY <1>8 DEF Renew, At, Write, Return
<1>9. CASE ReserveDispatch
  BY <1>9 DEF ReserveDispatch, At, Write, DispatchIntent, Goto
<1>10. CASE Dispatch
  BY <1>10, Leaves DEF Dispatch, Effect, Goto
<1>11. CASE Dispatched
  BY <1>11 DEF Dispatched, Write, Return
<1>12. CASE ReserveCancel
  BY <1>12 DEF ReserveCancel, MayBegin, Blocked, Write, Enter
<1>13. CASE CancelBuilder
  BY <1>13 DEF CancelBuilder, Keep, Goto
<1>14. CASE CancelReview
  BY <1>14 DEF CancelReview, Keep, WithReviewer, Goto
<1>15. CASE Cancelled
  BY <1>15 DEF Cancelled, Write, CancelStatus, Exited, Return
<1>16. ASSUME NEW a \in {"status", "result"}, Refresh(a) PROVE WorldTyped'
  BY <1>16 DEF Refresh, MayBegin, Blocked, Write, Withdrawn, Enter
<1>17. CASE Observe
  BY <1>17 DEF Observe, Keep, Goto
<1>18. CASE Observed
  BY <1>18 DEF Observed, Write, Return
<1>19. CASE ObservedCancelled
  BY <1>19 DEF ObservedCancelled, Write, CancelStatus, WithReviewer, Exited, Return
<1>20. CASE Collect
  BY <1>20 DEF Collect, At, Keep, WithReviewer, Ready
<1>21. CASE ReserveReview
  BY <1>21 DEF ReserveReview, At, MayReview, Unmoved, Write, Goto
<1>22. CASE RequestReview
  BY <1>22, Leaves DEF RequestReview, Effect, Goto
<1>23. CASE Requested
  BY <1>23 DEF Requested, Write, Return
<1>24. CASE ConfirmHead
  BY <1>24 DEF ConfirmHead, At, Goto
<1>25. CASE Complete
  BY <1>25 DEF Complete, Write, Return
<1>26. CASE Wait
  BY <1>26 DEF Wait, At, Write, Return
<1>27. ASSUME NEW a \in {"clarify", "fix"}, NEW k \in Keys, ReserveResume(a, k)
       PROVE WorldTyped'
  BY <1>27 DEF ReserveResume, MayBegin, Blocked, Fresh, MayClarify, MayFix, Write,
    Intent, Enter
<1>28. CASE Fence
  BY <1>28 DEF Fence, Goto
<1>29. CASE Send
  BY <1>29, Leaves DEF Send, Effect, Goto
<1>30. CASE Resume
  BY <1>30 DEF Resume, Write, Resumed, Return
<1>31. CASE Revoke
  BY <1>31 DEF Revoke, Write
<1>32. CASE Abandon
  BY <1>32 DEF Abandon, Return
<1>33. CASE Lose
  BY <1>33, Leaves DEF Lose, Return
<1>34. CASE Arrive
  BY <1>34 DEF Arrive, Effect
<1>35. CASE Restart
  BY <1>35 DEF Restart, Return
<1>36. CASE Expire
  BY <1>36 DEF Expire
<1>37. CASE Work
  BY <1>37 DEF Work
<1>38. CASE Push
  BY <1>38 DEF Push
<1>39. CASE Exit
  BY <1>39 DEF Exit
<1>40. ASSUME NEW h \in Heads, Judge(h) PROVE WorldTyped'
  BY <1>40 DEF Judge
<1>41. CASE UNCHANGED vars
  BY <1>41 DEF vars
<1> QED
  BY SMTT(30), <1>1, <1>2, <1>3, <1>4, <1>5, <1>6, <1>7, <1>8, <1>9, <1>10, <1>11, <1>12,
    <1>13, <1>14, <1>15, <1>16, <1>17, <1>18, <1>19, <1>20, <1>21, <1>22, <1>23,
    <1>24, <1>25, <1>26, <1>27, <1>28, <1>29, <1>30, <1>31, <1>32, <1>33, <1>34,
    <1>35, <1>36, <1>37, <1>38, <1>39, <1>40, <1>41 DEF Next, Operate, Environment

LEMMA TypeStep == ASSUME Inv, [Next]_vars PROVE TypeOK'
<1>1. RecordsTyped' /\ PositionTyped' /\ WorldTyped'
  BY RecordStep, PositionStep, WorldStep
<1> QED
  BY <1>1 DEF RecordsTyped, PositionTyped, WorldTyped, TypeOK

\* The copy of the record follows its writes.
LEMMA AgreeStep == ASSUME Inv, [Next]_vars PROVE Agree'
<1> USE LimitAssumption DEF Inv, TypeOK, Record, HeadOrNone, Acts, operation,
  world, vars, Agree
<1>1. CASE Uncertain
  BY <1>1 DEF Uncertain, Write
<1>2. CASE Admit
  BY <1>2 DEF Admit, Write, Enter
<1>3. ASSUME NEW a \in {"renew", "handoff"}, BeginDecision(a) PROVE Agree'
  BY <1>3 DEF BeginDecision, MayBegin, MayAsk, Blocked, Enter
<1>4. CASE ReserveCall
  BY <1>4 DEF ReserveCall, Write, Charged, CallLeft, Goto
<1>5. CASE Decide
  BY <1>5 DEF Decide, Write, Goto
<1>6. CASE DecideFails
  BY <1>6 DEF DecideFails, Return
<1>7. CASE Accept
  BY <1>7 DEF Accept, At, Write, Return
<1>8. CASE Renew
  BY <1>8 DEF Renew, At, Write, Return
<1>9. CASE ReserveDispatch
  BY <1>9 DEF ReserveDispatch, At, Write, DispatchIntent, Goto
<1>10. CASE Dispatch
  BY <1>10 DEF Dispatch, Effect, Goto
<1>11. CASE Dispatched
  BY <1>11 DEF Dispatched, Write, Return
<1>12. CASE ReserveCancel
  BY <1>12 DEF ReserveCancel, MayBegin, Blocked, Write, Enter
<1>13. CASE CancelBuilder
  BY <1>13 DEF CancelBuilder, Keep, Goto
<1>14. CASE CancelReview
  BY <1>14 DEF CancelReview, Keep, WithReviewer, Goto
<1>15. CASE Cancelled
  BY <1>15 DEF Cancelled, Write, CancelStatus, Exited, Return
<1>16. ASSUME NEW a \in {"status", "result"}, Refresh(a) PROVE Agree'
  BY <1>16 DEF Refresh, MayBegin, Blocked, Write, Withdrawn, Enter
<1>17. CASE Observe
  BY <1>17 DEF Observe, Keep, Goto, Handed
<1>18. CASE Observed
  BY <1>18 DEF Observed, Write, Return
<1>19. CASE ObservedCancelled
  BY <1>19 DEF ObservedCancelled, Write, CancelStatus, WithReviewer, Exited, Return
<1>20. CASE Collect
  BY <1>20 DEF Collect, At, Keep, WithReviewer, Ready
<1>21. CASE ReserveReview
  BY <1>21 DEF ReserveReview, At, MayReview, Unmoved, Write, Goto
<1>22. CASE RequestReview
  BY <1>22 DEF RequestReview, Effect, Goto
<1>23. CASE Requested
  BY <1>23 DEF Requested, Write, Return
<1>24. CASE ConfirmHead
  BY <1>24 DEF ConfirmHead, At, Goto
<1>25. CASE Complete
  BY <1>25 DEF Complete, Write, Return
<1>26. CASE Wait
  BY <1>26 DEF Wait, At, Write, Return
<1>27. ASSUME NEW a \in {"clarify", "fix"}, NEW k \in Keys, ReserveResume(a, k)
       PROVE Agree'
  BY <1>27 DEF ReserveResume, MayBegin, Blocked, Fresh, MayClarify, MayFix, Write,
    Intent, Enter
<1>28. CASE Fence
  BY <1>28 DEF Fence, Goto
<1>29. CASE Send
  BY <1>29 DEF Send, Effect, Goto
<1>30. CASE Resume
  BY <1>30 DEF Resume, Write, Resumed, Return
<1>31. CASE Revoke
  BY <1>31 DEF Revoke, Write
<1>32. CASE Abandon
  BY <1>32 DEF Abandon, Return
<1>33. CASE Lose
  BY <1>33 DEF Lose, Return
<1>34. CASE Arrive
  BY <1>34 DEF Arrive, Effect
<1>35. CASE Restart
  BY <1>35 DEF Restart, Return
<1>36. CASE Expire
  BY <1>36 DEF Expire
<1>37. CASE Work
  BY <1>37 DEF Work
<1>38. CASE Push
  BY <1>38 DEF Push
<1>39. CASE Exit
  BY <1>39 DEF Exit
<1>40. ASSUME NEW h \in Heads, Judge(h) PROVE Agree'
  BY <1>40 DEF Judge
<1>41. CASE UNCHANGED vars
  BY <1>41 DEF vars
<1> QED
  BY SMTT(30), <1>1, <1>2, <1>3, <1>4, <1>5, <1>6, <1>7, <1>8, <1>9, <1>10, <1>11, <1>12,
    <1>13, <1>14, <1>15, <1>16, <1>17, <1>18, <1>19, <1>20, <1>21, <1>22, <1>23,
    <1>24, <1>25, <1>26, <1>27, <1>28, <1>29, <1>30, <1>31, <1>32, <1>33, <1>34,
    <1>35, <1>36, <1>37, <1>38, <1>39, <1>40, <1>41 DEF Next, Operate, Environment

\* The mark is set before the call it stands for.
LEMMA MarkedStep == ASSUME Inv, [Next]_vars PROVE Marked'
<1> USE LimitAssumption DEF Inv, TypeOK, Record, HeadOrNone, Acts, operation,
  world, vars, Agree, Marked
<1>1. CASE Uncertain
  BY <1>1 DEF Uncertain, Write
<1>2. CASE Admit
  BY <1>2 DEF Admit, Write, Enter, Held
<1>3. ASSUME NEW a \in {"renew", "handoff"}, BeginDecision(a) PROVE Marked'
  BY <1>3 DEF BeginDecision, MayBegin, MayAsk, Blocked, Enter
<1>4. CASE ReserveCall
  BY <1>4 DEF ReserveCall, Write, Charged, CallLeft, Goto
<1>5. CASE Decide
  BY <1>5 DEF Decide, Write, Goto
<1>6. CASE DecideFails
  BY <1>6 DEF DecideFails, Return
<1>7. CASE Accept
  BY <1>7 DEF Accept, At, Write, Return
<1>8. CASE Renew
  BY <1>8 DEF Renew, At, Write, Return
<1>9. CASE ReserveDispatch
  BY <1>9 DEF ReserveDispatch, At, Write, DispatchIntent, Goto
<1>10. CASE Dispatch
  BY <1>10 DEF Dispatch, Effect, Goto
<1>11. CASE Dispatched
  BY <1>11 DEF Dispatched, Write, Return
<1>12. CASE ReserveCancel
  BY <1>12 DEF ReserveCancel, MayBegin, Blocked, Write, Enter
<1>13. CASE CancelBuilder
  BY <1>13 DEF CancelBuilder, Keep, Goto
<1>14. CASE CancelReview
  BY <1>14 DEF CancelReview, Keep, WithReviewer, Goto
<1>15. CASE Cancelled
  BY <1>15 DEF Cancelled, Write, CancelStatus, Exited, Return
<1>16. ASSUME NEW a \in {"status", "result"}, Refresh(a) PROVE Marked'
  BY <1>16 DEF Refresh, MayBegin, Blocked, Write, Withdrawn, Enter
<1>17. CASE Observe
  BY <1>17 DEF Observe, Keep, Goto
<1>18. CASE Observed
  BY <1>18 DEF Observed, Write, Return
<1>19. CASE ObservedCancelled
  BY <1>19 DEF ObservedCancelled, Write, CancelStatus, WithReviewer, Exited, Return
<1>20. CASE Collect
  BY <1>20 DEF Collect, At, Keep, WithReviewer, Ready
<1>21. CASE ReserveReview
  BY <1>21 DEF ReserveReview, At, MayReview, Unmoved, Write, Goto
<1>22. CASE RequestReview
  BY <1>22 DEF RequestReview, Effect, Goto
<1>23. CASE Requested
  BY <1>23 DEF Requested, Write, Return
<1>24. CASE ConfirmHead
  BY <1>24 DEF ConfirmHead, At, Goto
<1>25. CASE Complete
  BY <1>25 DEF Complete, Write, Return
<1>26. CASE Wait
  BY <1>26 DEF Wait, At, Write, Return
<1>27. ASSUME NEW a \in {"clarify", "fix"}, NEW k \in Keys, ReserveResume(a, k)
       PROVE Marked'
  BY <1>27 DEF ReserveResume, MayBegin, Blocked, Fresh, MayClarify, MayFix, Write,
    Intent, Enter
<1>28. CASE Fence
  BY <1>28 DEF Fence, Goto
<1>29. CASE Send
  BY <1>29 DEF Send, Effect, Goto
<1>30. CASE Resume
  BY <1>30 DEF Resume, Write, Resumed, Return
<1>31. CASE Revoke
  BY <1>31 DEF Revoke, Write
<1>32. CASE Abandon
  BY <1>32 DEF Abandon, Return
<1>33. CASE Lose
  BY <1>33 DEF Lose, Return
<1>34. CASE Arrive
  BY <1>34 DEF Arrive, Effect
<1>35. CASE Restart
  BY <1>35 DEF Restart, Return
<1>36. CASE Expire
  BY <1>36 DEF Expire
<1>37. CASE Work
  BY <1>37 DEF Work
<1>38. CASE Push
  BY <1>38 DEF Push
<1>39. CASE Exit
  BY <1>39 DEF Exit
<1>40. ASSUME NEW h \in Heads, Judge(h) PROVE Marked'
  BY <1>40 DEF Judge
<1>41. CASE UNCHANGED vars
  BY <1>41 DEF vars
<1> QED
  BY SMTT(30), <1>1, <1>2, <1>3, <1>4, <1>5, <1>6, <1>7, <1>8, <1>9, <1>10, <1>11, <1>12,
    <1>13, <1>14, <1>15, <1>16, <1>17, <1>18, <1>19, <1>20, <1>21, <1>22, <1>23,
    <1>24, <1>25, <1>26, <1>27, <1>28, <1>29, <1>30, <1>31, <1>32, <1>33, <1>34,
    <1>35, <1>36, <1>37, <1>38, <1>39, <1>40, <1>41 DEF Next, Operate, Environment

\* The lock keeps a revocation out, and every operation checks the claim first.
LEMMA HeldStep == ASSUME Inv, [Next]_vars PROVE Held'
<1> USE LimitAssumption DEF Inv, TypeOK, Record, HeadOrNone, Acts, operation,
  world, vars, Agree, Marked, Held, Delegating, Live
<1>1. CASE Uncertain
  BY <1>1 DEF Uncertain, Write
<1>2. CASE Admit
  BY <1>2 DEF Admit, Write, Enter
<1>3. ASSUME NEW a \in {"renew", "handoff"}, BeginDecision(a) PROVE Held'
  BY <1>3, Begins DEF BeginDecision, MayBegin, MayAsk, Blocked, Enter
<1>4. CASE ReserveCall
  BY <1>4 DEF ReserveCall, Write, Charged, CallLeft, Goto
<1>5. CASE Decide
  BY <1>5 DEF Decide, Write, Goto
<1>6. CASE DecideFails
  BY <1>6 DEF DecideFails, Return
<1>7. CASE Accept
  BY <1>7 DEF Accept, At, Write, Return
<1>8. CASE Renew
  BY <1>8 DEF Renew, At, Write, Return
<1>9. CASE ReserveDispatch
  BY <1>9 DEF ReserveDispatch, At, Write, DispatchIntent, Goto
<1>10. CASE Dispatch
  BY <1>10 DEF Dispatch, Effect, Goto
<1>11. CASE Dispatched
  BY <1>11 DEF Dispatched, Write, Return
<1>12. CASE ReserveCancel
  BY <1>12, Begins DEF ReserveCancel, MayBegin, Blocked, Write, Enter
<1>13. CASE CancelBuilder
  BY <1>13 DEF CancelBuilder, Keep, Goto
<1>14. CASE CancelReview
  BY <1>14 DEF CancelReview, Keep, WithReviewer, Goto
<1>15. CASE Cancelled
  BY <1>15 DEF Cancelled, Write, CancelStatus, Exited, Return
<1>16. ASSUME NEW a \in {"status", "result"}, Refresh(a) PROVE Held'
  BY <1>16, Begins DEF Refresh, MayBegin, Blocked, Write, Withdrawn, Enter
<1>17. CASE Observe
  BY <1>17 DEF Observe, Keep, Goto
<1>18. CASE Observed
  BY <1>18 DEF Observed, Write, Return
<1>19. CASE ObservedCancelled
  BY <1>19 DEF ObservedCancelled, Write, CancelStatus, WithReviewer, Exited, Return
<1>20. CASE Collect
  BY <1>20 DEF Collect, At, Keep, WithReviewer, Ready
<1>21. CASE ReserveReview
  BY <1>21 DEF ReserveReview, At, MayReview, Unmoved, Write, Goto
<1>22. CASE RequestReview
  BY <1>22 DEF RequestReview, Effect, Goto
<1>23. CASE Requested
  BY <1>23 DEF Requested, Write, Return
<1>24. CASE ConfirmHead
  BY <1>24 DEF ConfirmHead, At, Goto
<1>25. CASE Complete
  BY <1>25 DEF Complete, Write, Return
<1>26. CASE Wait
  BY <1>26 DEF Wait, At, Write, Return
<1>27. ASSUME NEW a \in {"clarify", "fix"}, NEW k \in Keys, ReserveResume(a, k)
       PROVE Held'
  BY <1>27, Begins DEF ReserveResume, MayBegin, Blocked, Fresh, MayClarify, MayFix,
    Write, Intent, Enter
<1>28. CASE Fence
  BY <1>28 DEF Fence, Goto
<1>29. CASE Send
  BY <1>29 DEF Send, Effect, Goto
<1>30. CASE Resume
  BY <1>30 DEF Resume, Write, Resumed, Return
<1>31. CASE Revoke
  BY <1>31 DEF Revoke, Write
<1>32. CASE Abandon
  BY <1>32 DEF Abandon, Return
<1>33. CASE Lose
  BY <1>33 DEF Lose, Return
<1>34. CASE Arrive
  BY <1>34 DEF Arrive, Effect
<1>35. CASE Restart
  BY <1>35 DEF Restart, Return
<1>36. CASE Expire
  BY <1>36 DEF Expire
<1>37. CASE Work
  BY <1>37 DEF Work
<1>38. CASE Push
  BY <1>38 DEF Push
<1>39. CASE Exit
  BY <1>39 DEF Exit
<1>40. ASSUME NEW h \in Heads, Judge(h) PROVE Held'
  BY <1>40 DEF Judge
<1>41. CASE UNCHANGED vars
  BY <1>41 DEF vars
<1> QED
  BY SMTT(30), <1>1, <1>2, <1>3, <1>4, <1>5, <1>6, <1>7, <1>8, <1>9, <1>10, <1>11, <1>12,
    <1>13, <1>14, <1>15, <1>16, <1>17, <1>18, <1>19, <1>20, <1>21, <1>22, <1>23,
    <1>24, <1>25, <1>26, <1>27, <1>28, <1>29, <1>30, <1>31, <1>32, <1>33, <1>34,
    <1>35, <1>36, <1>37, <1>38, <1>39, <1>40, <1>41 DEF Next, Operate, Environment

\* Work is handed off once and reviewed only after that.
LEMMA HandedStep == ASSUME Inv, [Next]_vars PROVE Handed'
<1> USE LimitAssumption DEF Inv, TypeOK, Record, HeadOrNone, Acts, operation,
  world, vars, Agree, Marked, Handed
<1>1. CASE Uncertain
  BY <1>1 DEF Uncertain, Write
<1>2. CASE Admit
  BY <1>2 DEF Admit, Write, Enter
<1>3. ASSUME NEW a \in {"renew", "handoff"}, BeginDecision(a) PROVE Handed'
  BY <1>3 DEF BeginDecision, MayBegin, MayAsk, Blocked, Enter
<1>4. CASE ReserveCall
  BY <1>4 DEF ReserveCall, Write, Charged, CallLeft, Goto
<1>5. CASE Decide
  BY <1>5 DEF Decide, Write, Goto
<1>6. CASE DecideFails
  BY <1>6 DEF DecideFails, Return
<1>7. CASE Accept
  BY <1>7 DEF Accept, At, Write, Return
<1>8. CASE Renew
  BY <1>8 DEF Renew, At, Write, Return
<1>9. CASE ReserveDispatch
  BY <1>9 DEF ReserveDispatch, At, Write, DispatchIntent, Goto
<1>10. CASE Dispatch
  BY <1>10 DEF Dispatch, Effect, Goto
<1>11. CASE Dispatched
  BY <1>11 DEF Dispatched, Write, Return
<1>12. CASE ReserveCancel
  BY <1>12 DEF ReserveCancel, MayBegin, Blocked, Write, Enter
<1>13. CASE CancelBuilder
  BY <1>13 DEF CancelBuilder, Keep, Goto
<1>14. CASE CancelReview
  BY <1>14 DEF CancelReview, Keep, WithReviewer, Goto
<1>15. CASE Cancelled
  BY <1>15 DEF Cancelled, Write, CancelStatus, Exited, Return
<1>16. ASSUME NEW a \in {"status", "result"}, Refresh(a) PROVE Handed'
  BY <1>16 DEF Refresh, MayBegin, Blocked, Write, Withdrawn, Enter
<1>17. CASE Observe
  BY <1>17 DEF Observe, Keep, Goto
<1>18. CASE Observed
  BY <1>18 DEF Observed, Write, Return
<1>19. CASE ObservedCancelled
  BY <1>19 DEF ObservedCancelled, Write, CancelStatus, WithReviewer, Exited, Return
<1>20. CASE Collect
  BY <1>20 DEF Collect, At, Keep, WithReviewer, Ready
<1>21. CASE ReserveReview
  BY <1>21 DEF ReserveReview, At, MayReview, Unmoved, Write, Goto
<1>22. CASE RequestReview
  BY <1>22 DEF RequestReview, Effect, Goto
<1>23. CASE Requested
  BY <1>23 DEF Requested, Write, Return
<1>24. CASE ConfirmHead
  BY <1>24 DEF ConfirmHead, At, Goto
<1>25. CASE Complete
  BY <1>25 DEF Complete, Write, Return
<1>26. CASE Wait
  BY <1>26 DEF Wait, At, Write, Return
<1>27. ASSUME NEW a \in {"clarify", "fix"}, NEW k \in Keys, ReserveResume(a, k)
       PROVE Handed'
  BY <1>27 DEF ReserveResume, MayBegin, Blocked, Fresh, MayClarify, MayFix, Write,
    Intent, Enter
<1>28. CASE Fence
  BY <1>28 DEF Fence, Goto
<1>29. CASE Send
  BY <1>29 DEF Send, Effect, Goto
<1>30. CASE Resume
  BY <1>30 DEF Resume, Write, Resumed, Return
<1>31. CASE Revoke
  BY <1>31 DEF Revoke, Write
<1>32. CASE Abandon
  BY <1>32 DEF Abandon, Return
<1>33. CASE Lose
  BY <1>33 DEF Lose, Return
<1>34. CASE Arrive
  BY <1>34 DEF Arrive, Effect
<1>35. CASE Restart
  BY <1>35 DEF Restart, Return
<1>36. CASE Expire
  BY <1>36 DEF Expire
<1>37. CASE Work
  BY <1>37 DEF Work
<1>38. CASE Push
  BY <1>38 DEF Push
<1>39. CASE Exit
  BY <1>39 DEF Exit
<1>40. ASSUME NEW h \in Heads, Judge(h) PROVE Handed'
  BY <1>40 DEF Judge
<1>41. CASE UNCHANGED vars
  BY <1>41 DEF vars
<1> QED
  BY SMTT(30), <1>1, <1>2, <1>3, <1>4, <1>5, <1>6, <1>7, <1>8, <1>9, <1>10, <1>11, <1>12,
    <1>13, <1>14, <1>15, <1>16, <1>17, <1>18, <1>19, <1>20, <1>21, <1>22, <1>23,
    <1>24, <1>25, <1>26, <1>27, <1>28, <1>29, <1>30, <1>31, <1>32, <1>33, <1>34,
    <1>35, <1>36, <1>37, <1>38, <1>39, <1>40, <1>41 DEF Next, Operate, Environment

\* A call is charged before it is made.
LEMMA CallsStep == ASSUME Inv, [Next]_vars PROVE Calls'
<1> USE LimitAssumption DEF Inv, TypeOK, Record, HeadOrNone, Acts, operation,
  world, vars, Agree, Calls
<1>1. CASE Uncertain
  BY <1>1 DEF Uncertain, Write
<1>2. CASE Admit
  BY <1>2 DEF Admit, Write, Enter
<1>3. ASSUME NEW a \in {"renew", "handoff"}, BeginDecision(a) PROVE Calls'
  BY <1>3 DEF BeginDecision, MayBegin, MayAsk, Blocked, Enter
<1>4. CASE ReserveCall
  BY <1>4 DEF ReserveCall, Write, Charged, CallLeft, Goto
<1>5. CASE Decide
  BY <1>5 DEF Decide, Write, Goto
<1>6. CASE DecideFails
  BY <1>6 DEF DecideFails, Return
<1>7. CASE Accept
  BY <1>7 DEF Accept, At, Write, Return
<1>8. CASE Renew
  BY <1>8 DEF Renew, At, Write, Return
<1>9. CASE ReserveDispatch
  BY <1>9 DEF ReserveDispatch, At, Write, DispatchIntent, Goto
<1>10. CASE Dispatch
  BY <1>10, Leaves DEF Dispatch, Effect, Goto
<1>11. CASE Dispatched
  BY <1>11 DEF Dispatched, Write, Return
<1>12. CASE ReserveCancel
  BY <1>12 DEF ReserveCancel, MayBegin, Blocked, Write, Enter
<1>13. CASE CancelBuilder
  BY <1>13 DEF CancelBuilder, Keep, Goto
<1>14. CASE CancelReview
  BY <1>14 DEF CancelReview, Keep, WithReviewer, Goto
<1>15. CASE Cancelled
  BY <1>15 DEF Cancelled, Write, CancelStatus, Exited, Return
<1>16. ASSUME NEW a \in {"status", "result"}, Refresh(a) PROVE Calls'
  BY <1>16 DEF Refresh, MayBegin, Blocked, Write, Withdrawn, Enter
<1>17. CASE Observe
  BY <1>17 DEF Observe, Keep, Goto
<1>18. CASE Observed
  BY <1>18 DEF Observed, Write, Return
<1>19. CASE ObservedCancelled
  BY <1>19 DEF ObservedCancelled, Write, CancelStatus, WithReviewer, Exited, Return
<1>20. CASE Collect
  BY <1>20 DEF Collect, At, Keep, WithReviewer, Ready
<1>21. CASE ReserveReview
  BY <1>21 DEF ReserveReview, At, MayReview, Unmoved, Write, Goto
<1>22. CASE RequestReview
  BY <1>22, Leaves DEF RequestReview, Effect, Goto
<1>23. CASE Requested
  BY <1>23 DEF Requested, Write, Return
<1>24. CASE ConfirmHead
  BY <1>24 DEF ConfirmHead, At, Goto
<1>25. CASE Complete
  BY <1>25 DEF Complete, Write, Return
<1>26. CASE Wait
  BY <1>26 DEF Wait, At, Write, Return
<1>27. ASSUME NEW a \in {"clarify", "fix"}, NEW k \in Keys, ReserveResume(a, k)
       PROVE Calls'
  BY <1>27 DEF ReserveResume, MayBegin, Blocked, Fresh, MayClarify, MayFix, Write,
    Intent, Enter
<1>28. CASE Fence
  BY <1>28 DEF Fence, Goto
<1>29. CASE Send
  BY <1>29, Leaves DEF Send, Effect, Goto
<1>30. CASE Resume
  BY <1>30 DEF Resume, Write, Resumed, Return
<1>31. CASE Revoke
  BY <1>31 DEF Revoke, Write
<1>32. CASE Abandon
  BY <1>32 DEF Abandon, Return
<1>33. CASE Lose
  BY <1>33, Leaves DEF Lose, Return
<1>34. CASE Arrive
  BY <1>34 DEF Arrive, Effect
<1>35. CASE Restart
  BY <1>35 DEF Restart, Return
<1>36. CASE Expire
  BY <1>36 DEF Expire
<1>37. CASE Work
  BY <1>37 DEF Work
<1>38. CASE Push
  BY <1>38 DEF Push
<1>39. CASE Exit
  BY <1>39 DEF Exit
<1>40. ASSUME NEW h \in Heads, Judge(h) PROVE Calls'
  BY <1>40 DEF Judge
<1>41. CASE UNCHANGED vars
  BY <1>41 DEF vars
<1> QED
  BY SMTT(30), <1>1, <1>2, <1>3, <1>4, <1>5, <1>6, <1>7, <1>8, <1>9, <1>10, <1>11, <1>12,
    <1>13, <1>14, <1>15, <1>16, <1>17, <1>18, <1>19, <1>20, <1>21, <1>22, <1>23,
    <1>24, <1>25, <1>26, <1>27, <1>28, <1>29, <1>30, <1>31, <1>32, <1>33, <1>34,
    <1>35, <1>36, <1>37, <1>38, <1>39, <1>40, <1>41 DEF Next, Operate, Environment

\* A dispatch needs a saved intent, which no operation clears but its own.
LEMMA WriterStep == ASSUME Inv, [Next]_vars PROVE Writer'
<1> USE LimitAssumption DEF Inv, TypeOK, Record, HeadOrNone, Acts, operation,
  world, vars, Agree, Marked, Handed, Writer
<1>1. CASE Uncertain
  BY <1>1 DEF Uncertain, Write
<1>2. CASE Admit
  BY <1>2 DEF Admit, Write, Enter
<1>3. ASSUME NEW a \in {"renew", "handoff"}, BeginDecision(a) PROVE Writer'
  BY <1>3 DEF BeginDecision, MayBegin, MayAsk, Blocked, Enter
<1>4. CASE ReserveCall
  BY <1>4 DEF ReserveCall, Write, Charged, CallLeft, Goto
<1>5. CASE Decide
  BY <1>5 DEF Decide, Write, Goto
<1>6. CASE DecideFails
  BY <1>6 DEF DecideFails, Return
<1>7. CASE Accept
  BY <1>7 DEF Accept, At, Write, Return
<1>8. CASE Renew
  BY <1>8 DEF Renew, At, Write, Return
<1>9. CASE ReserveDispatch
  BY <1>9 DEF ReserveDispatch, At, Write, DispatchIntent, Goto
<1>10. CASE Dispatch
  BY <1>10, Leaves DEF Dispatch, Effect, Goto
<1>11. CASE Dispatched
  BY <1>11 DEF Dispatched, Write, Return
<1>12. CASE ReserveCancel
  BY <1>12 DEF ReserveCancel, MayBegin, Blocked, Write, Enter
<1>13. CASE CancelBuilder
  BY <1>13 DEF CancelBuilder, Keep, Goto
<1>14. CASE CancelReview
  BY <1>14 DEF CancelReview, Keep, WithReviewer, Goto
<1>15. CASE Cancelled
  BY <1>15 DEF Cancelled, Write, CancelStatus, Exited, Return
<1>16. ASSUME NEW a \in {"status", "result"}, Refresh(a) PROVE Writer'
  BY <1>16 DEF Refresh, MayBegin, Blocked, Write, Withdrawn, Enter
<1>17. CASE Observe
  BY <1>17 DEF Observe, Keep, Goto
<1>18. CASE Observed
  BY <1>18 DEF Observed, Write, Return
<1>19. CASE ObservedCancelled
  BY <1>19 DEF ObservedCancelled, Write, CancelStatus, WithReviewer, Exited, Return
<1>20. CASE Collect
  BY <1>20 DEF Collect, At, Keep, WithReviewer, Ready
<1>21. CASE ReserveReview
  BY <1>21 DEF ReserveReview, At, MayReview, Unmoved, Write, Goto
<1>22. CASE RequestReview
  BY <1>22, Leaves DEF RequestReview, Effect, Goto
<1>23. CASE Requested
  BY <1>23 DEF Requested, Write, Return
<1>24. CASE ConfirmHead
  BY <1>24 DEF ConfirmHead, At, Goto
<1>25. CASE Complete
  BY <1>25 DEF Complete, Write, Return
<1>26. CASE Wait
  BY <1>26 DEF Wait, At, Write, Return
<1>27. ASSUME NEW a \in {"clarify", "fix"}, NEW k \in Keys, ReserveResume(a, k)
       PROVE Writer'
  BY <1>27 DEF ReserveResume, MayBegin, Blocked, Fresh, MayClarify, MayFix, Write,
    Intent, Enter
<1>28. CASE Fence
  BY <1>28 DEF Fence, Goto
<1>29. CASE Send
  BY <1>29, Leaves DEF Send, Effect, Goto
<1>30. CASE Resume
  BY <1>30 DEF Resume, Write, Resumed, Return
<1>31. CASE Revoke
  BY <1>31 DEF Revoke, Write
<1>32. CASE Abandon
  BY <1>32 DEF Abandon, Return
<1>33. CASE Lose
  BY <1>33, Leaves DEF Lose, Return
<1>34. CASE Arrive
  BY <1>34 DEF Arrive, Effect
<1>35. CASE Restart
  BY <1>35 DEF Restart, Return
<1>36. CASE Expire
  BY <1>36 DEF Expire
<1>37. CASE Work
  BY <1>37 DEF Work
<1>38. CASE Push
  BY <1>38 DEF Push
<1>39. CASE Exit
  BY <1>39 DEF Exit
<1>40. ASSUME NEW h \in Heads, Judge(h) PROVE Writer'
  BY <1>40 DEF Judge
<1>41. CASE UNCHANGED vars
  BY <1>41 DEF vars
<1> QED
  BY SMTT(30), <1>1, <1>2, <1>3, <1>4, <1>5, <1>6, <1>7, <1>8, <1>9, <1>10, <1>11, <1>12,
    <1>13, <1>14, <1>15, <1>16, <1>17, <1>18, <1>19, <1>20, <1>21, <1>22, <1>23,
    <1>24, <1>25, <1>26, <1>27, <1>28, <1>29, <1>30, <1>31, <1>32, <1>33, <1>34,
    <1>35, <1>36, <1>37, <1>38, <1>39, <1>40, <1>41 DEF Next, Operate, Environment

\* A message needs a fresh key with a saved intent.
LEMMA MessagesStep == ASSUME Inv, [Next]_vars PROVE Messages'
<1> USE LimitAssumption DEF Inv, TypeOK, Record, HeadOrNone, Acts, operation,
  world, vars, Agree, Marked, Messages
<1>1. CASE Uncertain
  BY <1>1 DEF Uncertain, Write
<1>2. CASE Admit
  BY <1>2 DEF Admit, Write, Enter
<1>3. ASSUME NEW a \in {"renew", "handoff"}, BeginDecision(a) PROVE Messages'
  BY <1>3 DEF BeginDecision, MayBegin, MayAsk, Blocked, Enter
<1>4. CASE ReserveCall
  BY <1>4 DEF ReserveCall, Write, Charged, CallLeft, Goto
<1>5. CASE Decide
  BY <1>5 DEF Decide, Write, Goto
<1>6. CASE DecideFails
  BY <1>6 DEF DecideFails, Return
<1>7. CASE Accept
  BY <1>7 DEF Accept, At, Write, Return
<1>8. CASE Renew
  BY <1>8 DEF Renew, At, Write, Return
<1>9. CASE ReserveDispatch
  BY <1>9 DEF ReserveDispatch, At, Write, DispatchIntent, Goto
<1>10. CASE Dispatch
  BY <1>10, Leaves DEF Dispatch, Effect, Goto
<1>11. CASE Dispatched
  BY <1>11 DEF Dispatched, Write, Return
<1>12. CASE ReserveCancel
  BY <1>12 DEF ReserveCancel, MayBegin, Blocked, Write, Enter
<1>13. CASE CancelBuilder
  BY <1>13 DEF CancelBuilder, Keep, Goto
<1>14. CASE CancelReview
  BY <1>14 DEF CancelReview, Keep, WithReviewer, Goto
<1>15. CASE Cancelled
  BY <1>15 DEF Cancelled, Write, CancelStatus, Exited, Return
<1>16. ASSUME NEW a \in {"status", "result"}, Refresh(a) PROVE Messages'
  BY <1>16 DEF Refresh, MayBegin, Blocked, Write, Withdrawn, Enter
<1>17. CASE Observe
  BY <1>17 DEF Observe, Keep, Goto
<1>18. CASE Observed
  BY <1>18 DEF Observed, Write, Return
<1>19. CASE ObservedCancelled
  BY <1>19 DEF ObservedCancelled, Write, CancelStatus, WithReviewer, Exited, Return
<1>20. CASE Collect
  BY <1>20 DEF Collect, At, Keep, WithReviewer, Ready
<1>21. CASE ReserveReview
  BY <1>21 DEF ReserveReview, At, MayReview, Unmoved, Write, Goto
<1>22. CASE RequestReview
  BY <1>22, Leaves DEF RequestReview, Effect, Goto
<1>23. CASE Requested
  BY <1>23 DEF Requested, Write, Return
<1>24. CASE ConfirmHead
  BY <1>24 DEF ConfirmHead, At, Goto
<1>25. CASE Complete
  BY <1>25 DEF Complete, Write, Return
<1>26. CASE Wait
  BY <1>26 DEF Wait, At, Write, Return
<1>27. ASSUME NEW a \in {"clarify", "fix"}, NEW k \in Keys, ReserveResume(a, k)
       PROVE Messages'
  BY <1>27 DEF ReserveResume, MayBegin, Blocked, Fresh, MayClarify, MayFix, Write,
    Intent, Enter
<1>28. CASE Fence
  BY <1>28 DEF Fence, Goto
<1>29. CASE Send
  BY <1>29, Leaves DEF Send, Effect, Goto
<1>30. CASE Resume
  BY <1>30 DEF Resume, Write, Resumed, Return
<1>31. CASE Revoke
  BY <1>31 DEF Revoke, Write
<1>32. CASE Abandon
  BY <1>32 DEF Abandon, Return
<1>33. CASE Lose
  BY <1>33, Leaves DEF Lose, Return
<1>34. CASE Arrive
  BY <1>34 DEF Arrive, Effect
<1>35. CASE Restart
  BY <1>35 DEF Restart, Return
<1>36. CASE Expire
  BY <1>36 DEF Expire
<1>37. CASE Work
  BY <1>37 DEF Work
<1>38. CASE Push
  BY <1>38 DEF Push
<1>39. CASE Exit
  BY <1>39 DEF Exit
<1>40. ASSUME NEW h \in Heads, Judge(h) PROVE Messages'
  BY <1>40 DEF Judge
<1>41. CASE UNCHANGED vars
  BY <1>41 DEF vars
<1> HIDE DEF Inv, TypeOK, Record, HeadOrNone, Agree, Marked, Messages
<1> QED
  BY SMTT(30), <1>1, <1>2, <1>3, <1>4, <1>5, <1>6, <1>7, <1>8, <1>9, <1>10, <1>11, <1>12,
    <1>13, <1>14, <1>15, <1>16, <1>17, <1>18, <1>19, <1>20, <1>21, <1>22, <1>23,
    <1>24, <1>25, <1>26, <1>27, <1>28, <1>29, <1>30, <1>31, <1>32, <1>33, <1>34,
    <1>35, <1>36, <1>37, <1>38, <1>39, <1>40, <1>41 DEF Next, Operate, Environment

\* A review request needs a round without one.
LEMMA RequestsStep == ASSUME Inv, [Next]_vars PROVE Requests'
<1> USE LimitAssumption DEF Inv, TypeOK, Record, HeadOrNone, Acts, operation,
  world, vars, Agree, Marked, Handed, Requests
<1>1. CASE Uncertain
  BY <1>1 DEF Uncertain, Write
<1>2. CASE Admit
  BY <1>2 DEF Admit, Write, Enter
<1>3. ASSUME NEW a \in {"renew", "handoff"}, BeginDecision(a) PROVE Requests'
  BY <1>3 DEF BeginDecision, MayBegin, MayAsk, Blocked, Enter
<1>4. CASE ReserveCall
  BY <1>4 DEF ReserveCall, Write, Charged, CallLeft, Goto
<1>5. CASE Decide
  BY <1>5 DEF Decide, Write, Goto
<1>6. CASE DecideFails
  BY <1>6 DEF DecideFails, Return
<1>7. CASE Accept
  BY <1>7 DEF Accept, At, Write, Return
<1>8. CASE Renew
  BY <1>8 DEF Renew, At, Write, Return
<1>9. CASE ReserveDispatch
  BY <1>9 DEF ReserveDispatch, At, Write, DispatchIntent, Goto
<1>10. CASE Dispatch
  <2>1. /\ disk' = disk /\ pc \in {"dispatch", "request", "send"}
        /\ pc' # "request" /\ (pc' = "requested" => pc = "request")
    BY <1>10 DEF Dispatch, Goto
  <2>2. sent' = Leaving(pc)
    BY <1>10 DEF Dispatch
  <2> QED
    BY <2>1, <2>2, RequestLeaves
<1>11. CASE Dispatched
  BY <1>11 DEF Dispatched, Write, Return
<1>12. CASE ReserveCancel
  BY <1>12 DEF ReserveCancel, MayBegin, Blocked, Write, Enter
<1>13. CASE CancelBuilder
  BY <1>13 DEF CancelBuilder, Keep, Goto
<1>14. CASE CancelReview
  BY <1>14 DEF CancelReview, Keep, WithReviewer, Goto
<1>15. CASE Cancelled
  BY <1>15 DEF Cancelled, Write, CancelStatus, Exited, Return
<1>16. ASSUME NEW a \in {"status", "result"}, Refresh(a) PROVE Requests'
  BY <1>16 DEF Refresh, MayBegin, Blocked, Write, Withdrawn, Enter
<1>17. CASE Observe
  BY <1>17 DEF Observe, Keep, Goto
<1>18. CASE Observed
  BY <1>18 DEF Observed, Write, Return
<1>19. CASE ObservedCancelled
  BY <1>19 DEF ObservedCancelled, Write, CancelStatus, WithReviewer, Exited, Return
<1>20. CASE Collect
  BY <1>20 DEF Collect, At, Keep, WithReviewer, Ready
<1>21. CASE ReserveReview
  BY <1>21 DEF ReserveReview, At, MayReview, Unmoved, Write, Goto, Collecting
<1>22. CASE RequestReview
  <2>1. /\ disk' = disk /\ pc \in {"dispatch", "request", "send"}
        /\ pc' # "request" /\ (pc' = "requested" => pc = "request")
    BY <1>22 DEF RequestReview, Goto
  <2>2. sent' = Leaving(pc)
    BY <1>22 DEF RequestReview
  <2> QED
    BY <2>1, <2>2, RequestLeaves
<1>23. CASE Requested
  BY <1>23 DEF Requested, Write, Return
<1>24. CASE ConfirmHead
  BY <1>24 DEF ConfirmHead, At, Goto
<1>25. CASE Complete
  BY <1>25 DEF Complete, Write, Return
<1>26. CASE Wait
  BY <1>26 DEF Wait, At, Write, Return
<1>27. ASSUME NEW a \in {"clarify", "fix"}, NEW k \in Keys, ReserveResume(a, k)
       PROVE Requests'
  BY <1>27 DEF ReserveResume, MayBegin, Blocked, Fresh, MayClarify, MayFix, Write,
    Intent, Enter
<1>28. CASE Fence
  BY <1>28 DEF Fence, Goto
<1>29. CASE Send
  <2>1. /\ disk' = disk /\ pc \in {"dispatch", "request", "send"}
        /\ pc' # "request" /\ (pc' = "requested" => pc = "request")
    BY <1>29 DEF Send, Goto
  <2>2. sent' = Leaving(pc)
    BY <1>29 DEF Send
  <2> QED
    BY <2>1, <2>2, RequestLeaves
<1>30. CASE Resume
  <2>1. /\ key \in Keys
        /\ disk.requests[key] = "intent"
        /\ disk.requests \in [Keys -> {"new", "intent", "done"}]
    BY <1>30 DEF Resume, Marked
  <2>2. /\ disk'.requests = [disk.requests EXCEPT ![key] = "done"]
        /\ disk'.round = disk.round + 1
    BY <1>30 DEF Resume, Resumed, Write
  <2>3. disk'.requests \in [Keys -> {"new", "intent", "done"}]
    BY <2>1, <2>2
  <2>4. /\ Spent(disk'.requests) = Spent(disk.requests)
        /\ Cardinality(Done(disk'.requests)) = disk.round + 1
        /\ disk.round + 1 \in Rounds
    BY <2>1, <2>2, <2>3, RoundIsLeft
  <2>5. /\ disk'.pending = "none"
        /\ disk'.reviewTarget = "none"
        /\ sent' = sent
        /\ pc' = "idle"
    BY <1>30 DEF Resume, Resumed, Write, Return
  <2>6. \A r \in Rounds : r > disk.round + 1 => r > disk.round
    BY RoundsAreNumbers
  <2>7. sent.reviews[disk.round + 1] = 0
    BY <2>4, RoundsAreNumbers
  <2> QED
    BY <2>2, <2>4, <2>5, <2>6, <2>7
<1>31. CASE Revoke
  BY <1>31 DEF Revoke, Write
<1>32. CASE Abandon
  BY <1>32 DEF Abandon, Return
<1>33. CASE Lose
  <2>1. /\ disk' = disk /\ pc \in {"dispatch", "request", "send"}
        /\ pc' # "request" /\ (pc' = "requested" => pc = "request")
    BY <1>33 DEF Lose, Return
  <2>2. sent' = Leaving(pc)
    BY <1>33 DEF Lose
  <2> QED
    BY <2>1, <2>2, RequestLeaves
<1>34. CASE Arrive
  BY <1>34 DEF Arrive, Effect
<1>35. CASE Restart
  BY <1>35 DEF Restart, Return
<1>36. CASE Expire
  BY <1>36 DEF Expire
<1>37. CASE Work
  BY <1>37 DEF Work
<1>38. CASE Push
  BY <1>38 DEF Push
<1>39. CASE Exit
  BY <1>39 DEF Exit
<1>40. ASSUME NEW h \in Heads, Judge(h) PROVE Requests'
  BY <1>40 DEF Judge
<1>41. CASE UNCHANGED vars
  BY <1>41 DEF vars
<1> HIDE DEF Inv, TypeOK, Record, HeadOrNone, Agree, Marked, Requests
<1> QED
  BY SMTT(30), <1>1, <1>2, <1>3, <1>4, <1>5, <1>6, <1>7, <1>8, <1>9, <1>10, <1>11, <1>12,
    <1>13, <1>14, <1>15, <1>16, <1>17, <1>18, <1>19, <1>20, <1>21, <1>22, <1>23,
    <1>24, <1>25, <1>26, <1>27, <1>28, <1>29, <1>30, <1>31, <1>32, <1>33, <1>34,
    <1>35, <1>36, <1>37, <1>38, <1>39, <1>40, <1>41 DEF Next, Operate, Environment

\* What is spent is counted, key by key.
LEMMA SpendingStep == ASSUME Inv, [Next]_vars PROVE Spending'
<1> USE LimitAssumption DEF Inv, TypeOK, Record, HeadOrNone, Acts, operation,
  world, vars, Agree, Spending
<1>1. CASE Uncertain
  BY <1>1 DEF Uncertain, Write
<1>2. CASE Admit
  BY <1>2 DEF Admit, Write, Enter
<1>3. ASSUME NEW a \in {"renew", "handoff"}, BeginDecision(a) PROVE Spending'
  BY <1>3 DEF BeginDecision, MayBegin, MayAsk, Blocked, Enter
<1>4. CASE ReserveCall
  BY <1>4 DEF ReserveCall, Write, Charged, CallLeft, Goto
<1>5. CASE Decide
  BY <1>5 DEF Decide, Write, Goto
<1>6. CASE DecideFails
  BY <1>6 DEF DecideFails, Return
<1>7. CASE Accept
  BY <1>7 DEF Accept, At, Write, Return
<1>8. CASE Renew
  BY <1>8 DEF Renew, At, Write, Return
<1>9. CASE ReserveDispatch
  BY <1>9 DEF ReserveDispatch, At, Write, DispatchIntent, Goto
<1>10. CASE Dispatch
  BY <1>10 DEF Dispatch, Effect, Goto
<1>11. CASE Dispatched
  BY <1>11 DEF Dispatched, Write, Return
<1>12. CASE ReserveCancel
  BY <1>12 DEF ReserveCancel, MayBegin, Blocked, Write, Enter
<1>13. CASE CancelBuilder
  BY <1>13 DEF CancelBuilder, Keep, Goto
<1>14. CASE CancelReview
  BY <1>14 DEF CancelReview, Keep, WithReviewer, Goto
<1>15. CASE Cancelled
  BY <1>15 DEF Cancelled, Write, CancelStatus, Exited, Return
<1>16. ASSUME NEW a \in {"status", "result"}, Refresh(a) PROVE Spending'
  BY <1>16 DEF Refresh, MayBegin, Blocked, Write, Withdrawn, Enter
<1>17. CASE Observe
  BY <1>17 DEF Observe, Keep, Goto
<1>18. CASE Observed
  BY <1>18 DEF Observed, Write, Return
<1>19. CASE ObservedCancelled
  BY <1>19 DEF ObservedCancelled, Write, CancelStatus, WithReviewer, Exited, Return
<1>20. CASE Collect
  BY <1>20 DEF Collect, At, Keep, WithReviewer, Ready
<1>21. CASE ReserveReview
  BY <1>21 DEF ReserveReview, At, MayReview, Unmoved, Write, Goto
<1>22. CASE RequestReview
  BY <1>22 DEF RequestReview, Effect, Goto
<1>23. CASE Requested
  BY <1>23 DEF Requested, Write, Return
<1>24. CASE ConfirmHead
  BY <1>24 DEF ConfirmHead, At, Goto
<1>25. CASE Complete
  BY <1>25 DEF Complete, Write, Return
<1>26. CASE Wait
  BY <1>26 DEF Wait, At, Write, Return
<1>27. ASSUME NEW a \in {"clarify", "fix"}, NEW k \in Keys, ReserveResume(a, k)
       PROVE Spending'
  <2>1. /\ disk.requests[k] = "new"
        /\ disk.requests \in [Keys -> {"new", "intent", "done"}]
    BY <1>27 DEF ReserveResume, Fresh
  <2>2. /\ disk'.requests = [disk.requests EXCEPT ![k] = "intent"]
        /\ disk'.round = disk.round
    BY <1>27 DEF ReserveResume, Intent, Write
  <2>3. disk'.answers + disk'.fixes = disk.answers + disk.fixes + 1
    BY <1>27 DEF ReserveResume, Intent, Write
  <2>4. disk'.requests \in [Keys -> {"new", "intent", "done"}]
    BY <2>1, <2>2
  <2>5. /\ Cardinality(Spent(disk'.requests)) = Cardinality(Spent(disk.requests)) + 1
        /\ Done(disk'.requests) = Done(disk.requests)
    BY <2>1, <2>2, <2>4, <1>27, IntentIsSpent
  <2> QED
    BY <2>2, <2>3, <2>5
<1>28. CASE Fence
  BY <1>28 DEF Fence, Goto
<1>29. CASE Send
  BY <1>29 DEF Send, Effect, Goto
<1>30. CASE Resume
  <2>1. /\ key \in Keys
        /\ disk.requests[key] = "intent"
        /\ disk.requests \in [Keys -> {"new", "intent", "done"}]
    BY <1>30 DEF Resume, Marked
  <2>2. /\ disk'.requests = [disk.requests EXCEPT ![key] = "done"]
        /\ disk'.round = disk.round + 1
    BY <1>30 DEF Resume, Resumed, Write
  <2>3. disk'.requests \in [Keys -> {"new", "intent", "done"}]
    BY <2>1, <2>2
  <2>4. /\ Spent(disk'.requests) = Spent(disk.requests)
        /\ Cardinality(Done(disk'.requests)) = disk.round + 1
        /\ disk.round + 1 \in Rounds
    BY <2>1, <2>2, <2>3, RoundIsLeft
  <2>5. disk'.answers = disk.answers /\ disk'.fixes = disk.fixes
    BY <1>30 DEF Resume, Resumed, Write
  <2> QED
    BY <2>2, <2>4, <2>5
<1>31. CASE Revoke
  BY <1>31 DEF Revoke, Write
<1>32. CASE Abandon
  BY <1>32 DEF Abandon, Return
<1>33. CASE Lose
  BY <1>33 DEF Lose, Return
<1>34. CASE Arrive
  BY <1>34 DEF Arrive, Effect
<1>35. CASE Restart
  BY <1>35 DEF Restart, Return
<1>36. CASE Expire
  BY <1>36 DEF Expire
<1>37. CASE Work
  BY <1>37 DEF Work
<1>38. CASE Push
  BY <1>38 DEF Push
<1>39. CASE Exit
  BY <1>39 DEF Exit
<1>40. ASSUME NEW h \in Heads, Judge(h) PROVE Spending'
  BY <1>40 DEF Judge
<1>41. CASE UNCHANGED vars
  BY <1>41 DEF vars
<1> QED
  BY SMTT(30), <1>1, <1>2, <1>3, <1>4, <1>5, <1>6, <1>7, <1>8, <1>9, <1>10, <1>11, <1>12,
    <1>13, <1>14, <1>15, <1>16, <1>17, <1>18, <1>19, <1>20, <1>21, <1>22, <1>23,
    <1>24, <1>25, <1>26, <1>27, <1>28, <1>29, <1>30, <1>31, <1>32, <1>33, <1>34,
    <1>35, <1>36, <1>37, <1>38, <1>39, <1>40, <1>41 DEF Next, Operate, Environment

\* A call that is still under way keeps its mark.
LEMMA LateStep == ASSUME Inv, [Next]_vars PROVE Late'
<1> USE LimitAssumption DEF Inv, TypeOK, Record, HeadOrNone, Acts, operation,
  world, vars, Agree, Marked, Late
<1>1. CASE Uncertain
  BY <1>1 DEF Uncertain, Write
<1>2. CASE Admit
  BY <1>2 DEF Admit, Write, Enter
<1>3. ASSUME NEW a \in {"renew", "handoff"}, BeginDecision(a) PROVE Late'
  BY <1>3 DEF BeginDecision, MayBegin, MayAsk, Blocked, Enter
<1>4. CASE ReserveCall
  BY <1>4 DEF ReserveCall, Write, Charged, CallLeft, Goto
<1>5. CASE Decide
  BY <1>5 DEF Decide, Write, Goto
<1>6. CASE DecideFails
  BY <1>6 DEF DecideFails, Return
<1>7. CASE Accept
  BY <1>7 DEF Accept, At, Write, Return
<1>8. CASE Renew
  BY <1>8 DEF Renew, At, Write, Return
<1>9. CASE ReserveDispatch
  BY <1>9 DEF ReserveDispatch, At, Write, DispatchIntent, Goto
<1>10. CASE Dispatch
  BY <1>10 DEF Dispatch, Effect, Goto
<1>11. CASE Dispatched
  BY <1>11 DEF Dispatched, Write, Return
<1>12. CASE ReserveCancel
  BY <1>12 DEF ReserveCancel, MayBegin, Blocked, Write, Enter
<1>13. CASE CancelBuilder
  BY <1>13 DEF CancelBuilder, Keep, Goto
<1>14. CASE CancelReview
  BY <1>14 DEF CancelReview, Keep, WithReviewer, Goto
<1>15. CASE Cancelled
  BY <1>15 DEF Cancelled, Write, CancelStatus, Exited, Return
<1>16. ASSUME NEW a \in {"status", "result"}, Refresh(a) PROVE Late'
  BY <1>16 DEF Refresh, MayBegin, Blocked, Write, Withdrawn, Enter
<1>17. CASE Observe
  BY <1>17 DEF Observe, Keep, Goto
<1>18. CASE Observed
  BY <1>18 DEF Observed, Write, Return
<1>19. CASE ObservedCancelled
  BY <1>19 DEF ObservedCancelled, Write, CancelStatus, WithReviewer, Exited, Return
<1>20. CASE Collect
  BY <1>20 DEF Collect, At, Keep, WithReviewer, Ready
<1>21. CASE ReserveReview
  BY <1>21 DEF ReserveReview, At, MayReview, Unmoved, Write, Goto
<1>22. CASE RequestReview
  BY <1>22 DEF RequestReview, Effect, Goto
<1>23. CASE Requested
  BY <1>23 DEF Requested, Write, Return
<1>24. CASE ConfirmHead
  BY <1>24 DEF ConfirmHead, At, Goto
<1>25. CASE Complete
  BY <1>25 DEF Complete, Write, Return
<1>26. CASE Wait
  BY <1>26 DEF Wait, At, Write, Return
<1>27. ASSUME NEW a \in {"clarify", "fix"}, NEW k \in Keys, ReserveResume(a, k)
       PROVE Late'
  BY <1>27 DEF ReserveResume, MayBegin, Blocked, Fresh, MayClarify, MayFix, Write,
    Intent, Enter
<1>28. CASE Fence
  BY <1>28 DEF Fence, Goto
<1>29. CASE Send
  BY <1>29 DEF Send, Effect, Goto
<1>30. CASE Resume
  BY <1>30 DEF Resume, Write, Resumed, Return
<1>31. CASE Revoke
  BY <1>31 DEF Revoke, Write
<1>32. CASE Abandon
  BY <1>32 DEF Abandon, Return
<1>33. CASE Lose
  BY <1>33 DEF Lose, Return
<1>34. CASE Arrive
  BY <1>34 DEF Arrive, Effect
<1>35. CASE Restart
  BY <1>35 DEF Restart, Return
<1>36. CASE Expire
  BY <1>36 DEF Expire
<1>37. CASE Work
  BY <1>37 DEF Work
<1>38. CASE Push
  BY <1>38 DEF Push
<1>39. CASE Exit
  BY <1>39 DEF Exit
<1>40. ASSUME NEW h \in Heads, Judge(h) PROVE Late'
  BY <1>40 DEF Judge
<1>41. CASE UNCHANGED vars
  BY <1>41 DEF vars
<1> QED
  BY SMTT(30), <1>1, <1>2, <1>3, <1>4, <1>5, <1>6, <1>7, <1>8, <1>9, <1>10, <1>11, <1>12,
    <1>13, <1>14, <1>15, <1>16, <1>17, <1>18, <1>19, <1>20, <1>21, <1>22, <1>23,
    <1>24, <1>25, <1>26, <1>27, <1>28, <1>29, <1>30, <1>31, <1>32, <1>33, <1>34,
    <1>35, <1>36, <1>37, <1>38, <1>39, <1>40, <1>41 DEF Next, Operate, Environment

\* A review runs for the requested head, and only while the builder is gone.
LEMMA ReviewingStep == ASSUME Inv, [Next]_vars PROVE Reviewing'
<1> USE LimitAssumption DEF Inv, TypeOK, Record, HeadOrNone, Acts, operation,
  world, vars, Agree, Marked, Handed, Late, Reviewing, ReviewRunsFor
<1>1. CASE Uncertain
  BY <1>1 DEF Uncertain, Write
<1>2. CASE Admit
  BY <1>2 DEF Admit, Write, Enter
<1>3. ASSUME NEW a \in {"renew", "handoff"}, BeginDecision(a) PROVE Reviewing'
  BY <1>3 DEF BeginDecision, MayBegin, MayAsk, Blocked, Enter
<1>4. CASE ReserveCall
  BY <1>4 DEF ReserveCall, Write, Charged, CallLeft, Goto
<1>5. CASE Decide
  BY <1>5 DEF Decide, Write, Goto
<1>6. CASE DecideFails
  BY <1>6 DEF DecideFails, Return
<1>7. CASE Accept
  BY <1>7 DEF Accept, At, Write, Return
<1>8. CASE Renew
  BY <1>8 DEF Renew, At, Write, Return
<1>9. CASE ReserveDispatch
  BY <1>9 DEF ReserveDispatch, At, Write, DispatchIntent, Goto
<1>10. CASE Dispatch
  BY <1>10 DEF Dispatch, Effect, Goto
<1>11. CASE Dispatched
  BY <1>11 DEF Dispatched, Write, Return
<1>12. CASE ReserveCancel
  BY <1>12 DEF ReserveCancel, MayBegin, Blocked, Write, Enter
<1>13. CASE CancelBuilder
  BY <1>13 DEF CancelBuilder, Keep, Goto
<1>14. CASE CancelReview
  BY <1>14 DEF CancelReview, Keep, WithReviewer, Goto
<1>15. CASE Cancelled
  BY <1>15 DEF Cancelled, Write, CancelStatus, Exited, Return
<1>16. ASSUME NEW a \in {"status", "result"}, Refresh(a) PROVE Reviewing'
  BY <1>16 DEF Refresh, MayBegin, Blocked, Write, Withdrawn, Enter
<1>17. CASE Observe
  BY <1>17 DEF Observe, Keep, Goto
<1>18. CASE Observed
  BY <1>18 DEF Observed, Write, Return
<1>19. CASE ObservedCancelled
  BY <1>19 DEF ObservedCancelled, Write, CancelStatus, WithReviewer, Exited, Return
<1>20. CASE Collect
  BY <1>20 DEF Collect, At, Keep, WithReviewer, Ready
<1>21. CASE ReserveReview
  BY <1>21 DEF ReserveReview, At, MayReview, Unmoved, Write, Goto
<1>22. CASE RequestReview
  BY <1>22 DEF RequestReview, Effect, Goto
<1>23. CASE Requested
  BY <1>23 DEF Requested, Write, Return
<1>24. CASE ConfirmHead
  BY <1>24 DEF ConfirmHead, At, Goto
<1>25. CASE Complete
  BY <1>25 DEF Complete, Write, Return
<1>26. CASE Wait
  BY <1>26 DEF Wait, At, Write, Return
<1>27. ASSUME NEW a \in {"clarify", "fix"}, NEW k \in Keys, ReserveResume(a, k)
       PROVE Reviewing'
  BY <1>27 DEF ReserveResume, MayBegin, Blocked, Fresh, MayClarify, MayFix, Write,
    Intent, Enter, NeedsFix, FailedReview
<1>28. CASE Fence
  BY <1>28 DEF Fence, Goto
<1>29. CASE Send
  BY <1>29 DEF Send, Effect, Goto
<1>30. CASE Resume
  BY <1>30 DEF Resume, Write, Resumed, Return
<1>31. CASE Revoke
  BY <1>31 DEF Revoke, Write
<1>32. CASE Abandon
  BY <1>32 DEF Abandon, Return
<1>33. CASE Lose
  BY <1>33 DEF Lose, Return
<1>34. CASE Arrive
  BY <1>34 DEF Arrive, Effect
<1>35. CASE Restart
  BY <1>35 DEF Restart, Return
<1>36. CASE Expire
  BY <1>36 DEF Expire
<1>37. CASE Work
  BY <1>37 DEF Work
<1>38. CASE Push
  BY <1>38 DEF Push
<1>39. CASE Exit
  BY <1>39 DEF Exit
<1>40. ASSUME NEW h \in Heads, Judge(h) PROVE Reviewing'
  BY <1>40 DEF Judge
<1>41. CASE UNCHANGED vars
  BY <1>41 DEF vars
<1> QED
  BY SMTT(30), <1>1, <1>2, <1>3, <1>4, <1>5, <1>6, <1>7, <1>8, <1>9, <1>10, <1>11, <1>12,
    <1>13, <1>14, <1>15, <1>16, <1>17, <1>18, <1>19, <1>20, <1>21, <1>22, <1>23,
    <1>24, <1>25, <1>26, <1>27, <1>28, <1>29, <1>30, <1>31, <1>32, <1>33, <1>34,
    <1>35, <1>36, <1>37, <1>38, <1>39, <1>40, <1>41 DEF Next, Operate, Environment

\* An observed exit of the builder stays true until it is resumed.
LEMMA BuilderStep == ASSUME Inv, [Next]_vars PROVE Builder'
<1> USE LimitAssumption DEF Inv, TypeOK, Record, HeadOrNone, Acts, operation,
  world, vars, Agree, Marked, Handed, Late, Builder
<1>1. CASE Uncertain
  BY <1>1 DEF Uncertain, Write
<1>2. CASE Admit
  BY <1>2 DEF Admit, Write, Enter
<1>3. ASSUME NEW a \in {"renew", "handoff"}, BeginDecision(a) PROVE Builder'
  BY <1>3 DEF BeginDecision, MayBegin, MayAsk, Blocked, Enter
<1>4. CASE ReserveCall
  BY <1>4 DEF ReserveCall, Write, Charged, CallLeft, Goto
<1>5. CASE Decide
  BY <1>5 DEF Decide, Write, Goto
<1>6. CASE DecideFails
  BY <1>6 DEF DecideFails, Return
<1>7. CASE Accept
  BY <1>7 DEF Accept, At, Write, Return
<1>8. CASE Renew
  BY <1>8 DEF Renew, At, Write, Return
<1>9. CASE ReserveDispatch
  BY <1>9 DEF ReserveDispatch, At, Write, DispatchIntent, Goto
<1>10. CASE Dispatch
  BY <1>10 DEF Dispatch, Effect, Goto
<1>11. CASE Dispatched
  BY <1>11 DEF Dispatched, Write, Return
<1>12. CASE ReserveCancel
  BY <1>12 DEF ReserveCancel, MayBegin, Blocked, Write, Enter
<1>13. CASE CancelBuilder
  BY <1>13 DEF CancelBuilder, Keep, Goto
<1>14. CASE CancelReview
  BY <1>14 DEF CancelReview, Keep, WithReviewer, Goto
<1>15. CASE Cancelled
  BY <1>15 DEF Cancelled, Write, CancelStatus, Exited, Return
<1>16. ASSUME NEW a \in {"status", "result"}, Refresh(a) PROVE Builder'
  BY <1>16 DEF Refresh, MayBegin, Blocked, Write, Withdrawn, Enter
<1>17. CASE Observe
  BY <1>17 DEF Observe, Keep, Goto
<1>18. CASE Observed
  BY <1>18 DEF Observed, Write, Return
<1>19. CASE ObservedCancelled
  BY <1>19 DEF ObservedCancelled, Write, CancelStatus, WithReviewer, Exited, Return
<1>20. CASE Collect
  BY <1>20 DEF Collect, At, Keep, WithReviewer, Ready
<1>21. CASE ReserveReview
  BY <1>21 DEF ReserveReview, At, MayReview, Unmoved, Write, Goto
<1>22. CASE RequestReview
  BY <1>22 DEF RequestReview, Effect, Goto
<1>23. CASE Requested
  BY <1>23 DEF Requested, Write, Return
<1>24. CASE ConfirmHead
  BY <1>24 DEF ConfirmHead, At, Goto
<1>25. CASE Complete
  BY <1>25 DEF Complete, Write, Return
<1>26. CASE Wait
  BY <1>26 DEF Wait, At, Write, Return
<1>27. ASSUME NEW a \in {"clarify", "fix"}, NEW k \in Keys, ReserveResume(a, k)
       PROVE Builder'
  BY <1>27 DEF ReserveResume, MayBegin, Blocked, Fresh, MayClarify, MayFix, Write,
    Intent, Enter
<1>28. CASE Fence
  BY <1>28 DEF Fence, Goto
<1>29. CASE Send
  BY <1>29 DEF Send, Effect, Goto
<1>30. CASE Resume
  BY <1>30 DEF Resume, Write, Resumed, Return
<1>31. CASE Revoke
  BY <1>31 DEF Revoke, Write
<1>32. CASE Abandon
  BY <1>32 DEF Abandon, Return
<1>33. CASE Lose
  BY <1>33 DEF Lose, Return
<1>34. CASE Arrive
  BY <1>34 DEF Arrive, Effect
<1>35. CASE Restart
  BY <1>35 DEF Restart, Return
<1>36. CASE Expire
  BY <1>36 DEF Expire
<1>37. CASE Work
  BY <1>37 DEF Work
<1>38. CASE Push
  BY <1>38 DEF Push
<1>39. CASE Exit
  BY <1>39 DEF Exit
<1>40. ASSUME NEW h \in Heads, Judge(h) PROVE Builder'
  BY <1>40 DEF Judge
<1>41. CASE UNCHANGED vars
  BY <1>41 DEF vars
<1> QED
  BY SMTT(30), <1>1, <1>2, <1>3, <1>4, <1>5, <1>6, <1>7, <1>8, <1>9, <1>10, <1>11, <1>12,
    <1>13, <1>14, <1>15, <1>16, <1>17, <1>18, <1>19, <1>20, <1>21, <1>22, <1>23,
    <1>24, <1>25, <1>26, <1>27, <1>28, <1>29, <1>30, <1>31, <1>32, <1>33, <1>34,
    <1>35, <1>36, <1>37, <1>38, <1>39, <1>40, <1>41 DEF Next, Operate, Environment

\* A collection keeps the target it verified.
LEMMA CollectingStep == ASSUME Inv, [Next]_vars PROVE Collecting'
<1> USE LimitAssumption DEF Inv, TypeOK, Record, HeadOrNone, Acts, operation,
  world, vars, Agree, Marked, Collecting
<1>1. CASE Uncertain
  BY <1>1 DEF Uncertain, Write
<1>2. CASE Admit
  BY <1>2 DEF Admit, Write, Enter
<1>3. ASSUME NEW a \in {"renew", "handoff"}, BeginDecision(a) PROVE Collecting'
  BY <1>3 DEF BeginDecision, MayBegin, MayAsk, Blocked, Enter
<1>4. CASE ReserveCall
  BY <1>4 DEF ReserveCall, Write, Charged, CallLeft, Goto
<1>5. CASE Decide
  BY <1>5 DEF Decide, Write, Goto
<1>6. CASE DecideFails
  BY <1>6 DEF DecideFails, Return
<1>7. CASE Accept
  BY <1>7 DEF Accept, At, Write, Return
<1>8. CASE Renew
  BY <1>8 DEF Renew, At, Write, Return
<1>9. CASE ReserveDispatch
  BY <1>9 DEF ReserveDispatch, At, Write, DispatchIntent, Goto
<1>10. CASE Dispatch
  BY <1>10 DEF Dispatch, Effect, Goto
<1>11. CASE Dispatched
  BY <1>11 DEF Dispatched, Write, Return
<1>12. CASE ReserveCancel
  BY <1>12 DEF ReserveCancel, MayBegin, Blocked, Write, Enter
<1>13. CASE CancelBuilder
  BY <1>13 DEF CancelBuilder, Keep, Goto
<1>14. CASE CancelReview
  BY <1>14 DEF CancelReview, Keep, WithReviewer, Goto
<1>15. CASE Cancelled
  BY <1>15 DEF Cancelled, Write, CancelStatus, Exited, Return
<1>16. ASSUME NEW a \in {"status", "result"}, Refresh(a) PROVE Collecting'
  BY <1>16 DEF Refresh, MayBegin, Blocked, Write, Withdrawn, Enter
<1>17. CASE Observe
  BY <1>17 DEF Observe, Keep, Goto
<1>18. CASE Observed
  BY <1>18 DEF Observed, Write, Return
<1>19. CASE ObservedCancelled
  BY <1>19 DEF ObservedCancelled, Write, CancelStatus, WithReviewer, Exited, Return
<1>20. CASE Collect
  BY <1>20 DEF Collect, At, Keep, WithReviewer, Ready
<1>21. CASE ReserveReview
  BY <1>21 DEF ReserveReview, At, MayReview, Unmoved, Write, Goto
<1>22. CASE RequestReview
  BY <1>22 DEF RequestReview, Effect, Goto
<1>23. CASE Requested
  BY <1>23 DEF Requested, Write, Return
<1>24. CASE ConfirmHead
  BY <1>24 DEF ConfirmHead, At, Goto
<1>25. CASE Complete
  BY <1>25 DEF Complete, Write, Return
<1>26. CASE Wait
  BY <1>26 DEF Wait, At, Write, Return
<1>27. ASSUME NEW a \in {"clarify", "fix"}, NEW k \in Keys, ReserveResume(a, k)
       PROVE Collecting'
  BY <1>27 DEF ReserveResume, MayBegin, Blocked, Fresh, MayClarify, MayFix, Write,
    Intent, Enter
<1>28. CASE Fence
  BY <1>28 DEF Fence, Goto
<1>29. CASE Send
  BY <1>29 DEF Send, Effect, Goto
<1>30. CASE Resume
  BY <1>30 DEF Resume, Write, Resumed, Return
<1>31. CASE Revoke
  BY <1>31 DEF Revoke, Write
<1>32. CASE Abandon
  BY <1>32 DEF Abandon, Return
<1>33. CASE Lose
  BY <1>33 DEF Lose, Return
<1>34. CASE Arrive
  BY <1>34 DEF Arrive, Effect
<1>35. CASE Restart
  BY <1>35 DEF Restart, Return
<1>36. CASE Expire
  BY <1>36 DEF Expire
<1>37. CASE Work
  BY <1>37 DEF Work
<1>38. CASE Push
  BY <1>38 DEF Push
<1>39. CASE Exit
  BY <1>39 DEF Exit
<1>40. ASSUME NEW h \in Heads, Judge(h) PROVE Collecting'
  BY <1>40 DEF Judge
<1>41. CASE UNCHANGED vars
  BY <1>41 DEF vars
<1> QED
  BY SMTT(30), <1>1, <1>2, <1>3, <1>4, <1>5, <1>6, <1>7, <1>8, <1>9, <1>10, <1>11, <1>12,
    <1>13, <1>14, <1>15, <1>16, <1>17, <1>18, <1>19, <1>20, <1>21, <1>22, <1>23,
    <1>24, <1>25, <1>26, <1>27, <1>28, <1>29, <1>30, <1>31, <1>32, <1>33, <1>34,
    <1>35, <1>36, <1>37, <1>38, <1>39, <1>40, <1>41 DEF Next, Operate, Environment

\* A saved completion is withdrawn before anything else is delegated.
LEMMA CompletionStep == ASSUME Inv, [Next]_vars PROVE Completion'
<1> USE LimitAssumption DEF Inv, TypeOK, Record, HeadOrNone, Acts, operation,
  world, vars, Agree, Marked, Handed, Late, Completion, Collecting
<1>1. CASE Uncertain
  BY <1>1 DEF Uncertain, Write
<1>2. CASE Admit
  BY <1>2 DEF Admit, Write, Enter
<1>3. ASSUME NEW a \in {"renew", "handoff"}, BeginDecision(a) PROVE Completion'
  BY <1>3 DEF BeginDecision, MayBegin, MayAsk, Blocked, Enter
<1>4. CASE ReserveCall
  BY <1>4 DEF ReserveCall, Write, Charged, CallLeft, Goto
<1>5. CASE Decide
  BY <1>5 DEF Decide, Write, Goto
<1>6. CASE DecideFails
  BY <1>6 DEF DecideFails, Return
<1>7. CASE Accept
  BY <1>7 DEF Accept, At, Write, Return
<1>8. CASE Renew
  BY <1>8 DEF Renew, At, Write, Return
<1>9. CASE ReserveDispatch
  BY <1>9 DEF ReserveDispatch, At, Write, DispatchIntent, Goto
<1>10. CASE Dispatch
  BY <1>10 DEF Dispatch, Effect, Goto
<1>11. CASE Dispatched
  BY <1>11 DEF Dispatched, Write, Return
<1>12. CASE ReserveCancel
  BY <1>12 DEF ReserveCancel, MayBegin, Blocked, Write, Enter
<1>13. CASE CancelBuilder
  BY <1>13 DEF CancelBuilder, Keep, Goto
<1>14. CASE CancelReview
  BY <1>14 DEF CancelReview, Keep, WithReviewer, Goto
<1>15. CASE Cancelled
  BY <1>15 DEF Cancelled, Write, CancelStatus, Exited, Return
<1>16. ASSUME NEW a \in {"status", "result"}, Refresh(a) PROVE Completion'
  BY <1>16 DEF Refresh, MayBegin, Blocked, Write, Withdrawn, Enter
<1>17. CASE Observe
  BY <1>17 DEF Observe, Keep, Goto
<1>18. CASE Observed
  BY <1>18 DEF Observed, Write, Return
<1>19. CASE ObservedCancelled
  BY <1>19 DEF ObservedCancelled, Write, CancelStatus, WithReviewer, Exited, Return
<1>20. CASE Collect
  BY <1>20 DEF Collect, At, Keep, WithReviewer, Ready
<1>21. CASE ReserveReview
  BY <1>21 DEF ReserveReview, At, MayReview, Unmoved, Write, Goto
<1>22. CASE RequestReview
  BY <1>22 DEF RequestReview, Effect, Goto
<1>23. CASE Requested
  BY <1>23 DEF Requested, Write, Return
<1>24. CASE ConfirmHead
  BY <1>24 DEF ConfirmHead, At, Goto
<1>25. CASE Complete
  BY <1>25 DEF Complete, Write, Return
<1>26. CASE Wait
  BY <1>26 DEF Wait, At, Write, Return
<1>27. ASSUME NEW a \in {"clarify", "fix"}, NEW k \in Keys, ReserveResume(a, k)
       PROVE Completion'
  BY <1>27 DEF ReserveResume, MayBegin, Blocked, Fresh, MayClarify, MayFix, Write,
    Intent, Enter
<1>28. CASE Fence
  BY <1>28 DEF Fence, Goto
<1>29. CASE Send
  BY <1>29 DEF Send, Effect, Goto
<1>30. CASE Resume
  BY <1>30 DEF Resume, Write, Resumed, Return
<1>31. CASE Revoke
  BY <1>31 DEF Revoke, Write
<1>32. CASE Abandon
  BY <1>32 DEF Abandon, Return
<1>33. CASE Lose
  BY <1>33 DEF Lose, Return
<1>34. CASE Arrive
  BY <1>34 DEF Arrive, Effect
<1>35. CASE Restart
  BY <1>35 DEF Restart, Return
<1>36. CASE Expire
  BY <1>36 DEF Expire
<1>37. CASE Work
  BY <1>37 DEF Work
<1>38. CASE Push
  BY <1>38 DEF Push
<1>39. CASE Exit
  BY <1>39 DEF Exit
<1>40. ASSUME NEW h \in Heads, Judge(h) PROVE Completion'
  BY <1>40 DEF Judge
<1>41. CASE UNCHANGED vars
  BY <1>41 DEF vars
<1> QED
  BY SMTT(30), <1>1, <1>2, <1>3, <1>4, <1>5, <1>6, <1>7, <1>8, <1>9, <1>10, <1>11, <1>12,
    <1>13, <1>14, <1>15, <1>16, <1>17, <1>18, <1>19, <1>20, <1>21, <1>22, <1>23,
    <1>24, <1>25, <1>26, <1>27, <1>28, <1>29, <1>30, <1>31, <1>32, <1>33, <1>34,
    <1>35, <1>36, <1>37, <1>38, <1>39, <1>40, <1>41 DEF Next, Operate, Environment

\* A cancellation is reported when both runtimes are gone for good.
LEMMA CancellationStep == ASSUME Inv, [Next]_vars PROVE Cancellation'
<1> USE LimitAssumption DEF Inv, TypeOK, Record, HeadOrNone, Acts, operation,
  world, vars, Agree, Marked, Held, Handed, Delegating, Late, Cancellation,
  ReviewRunsFor, Reviewing, Builder
<1>1. CASE Uncertain
  BY <1>1 DEF Uncertain, Write
<1>2. CASE Admit
  BY <1>2 DEF Admit, Write, Enter
<1>3. ASSUME NEW a \in {"renew", "handoff"}, BeginDecision(a) PROVE Cancellation'
  BY <1>3 DEF BeginDecision, MayBegin, MayAsk, Blocked, Enter
<1>4. CASE ReserveCall
  BY <1>4 DEF ReserveCall, Write, Charged, CallLeft, Goto
<1>5. CASE Decide
  BY <1>5 DEF Decide, Write, Goto
<1>6. CASE DecideFails
  BY <1>6 DEF DecideFails, Return
<1>7. CASE Accept
  BY <1>7 DEF Accept, At, Write, Return
<1>8. CASE Renew
  BY <1>8 DEF Renew, At, Write, Return
<1>9. CASE ReserveDispatch
  BY <1>9 DEF ReserveDispatch, At, Write, DispatchIntent, Goto
<1>10. CASE Dispatch
  BY <1>10 DEF Dispatch, Effect, Goto
<1>11. CASE Dispatched
  BY <1>11 DEF Dispatched, Write, Return
<1>12. CASE ReserveCancel
  BY <1>12 DEF ReserveCancel, MayBegin, Blocked, Write, Enter
<1>13. CASE CancelBuilder
  BY <1>13 DEF CancelBuilder, Keep, Goto
<1>14. CASE CancelReview
  BY <1>14 DEF CancelReview, Keep, WithReviewer, Goto
<1>15. CASE Cancelled
  BY <1>15 DEF Cancelled, Write, CancelStatus, Exited, Return
<1>16. ASSUME NEW a \in {"status", "result"}, Refresh(a) PROVE Cancellation'
  BY <1>16 DEF Refresh, MayBegin, Blocked, Write, Withdrawn, Enter
<1>17. CASE Observe
  BY <1>17 DEF Observe, Keep, Goto
<1>18. CASE Observed
  BY <1>18 DEF Observed, Write, Return
<1>19. CASE ObservedCancelled
  BY <1>19 DEF ObservedCancelled, Write, CancelStatus, WithReviewer, Exited, Return
<1>20. CASE Collect
  BY <1>20 DEF Collect, At, Keep, WithReviewer, Ready
<1>21. CASE ReserveReview
  BY <1>21 DEF ReserveReview, At, MayReview, Unmoved, Write, Goto
<1>22. CASE RequestReview
  BY <1>22 DEF RequestReview, Effect, Goto
<1>23. CASE Requested
  BY <1>23 DEF Requested, Write, Return
<1>24. CASE ConfirmHead
  BY <1>24 DEF ConfirmHead, At, Goto
<1>25. CASE Complete
  BY <1>25 DEF Complete, Write, Return
<1>26. CASE Wait
  BY <1>26 DEF Wait, At, Write, Return
<1>27. ASSUME NEW a \in {"clarify", "fix"}, NEW k \in Keys, ReserveResume(a, k)
       PROVE Cancellation'
  BY <1>27 DEF ReserveResume, MayBegin, Blocked, Fresh, MayClarify, MayFix, Write,
    Intent, Enter
<1>28. CASE Fence
  BY <1>28 DEF Fence, Goto
<1>29. CASE Send
  BY <1>29 DEF Send, Effect, Goto
<1>30. CASE Resume
  BY <1>30 DEF Resume, Write, Resumed, Return
<1>31. CASE Revoke
  BY <1>31 DEF Revoke, Write
<1>32. CASE Abandon
  BY <1>32 DEF Abandon, Return
<1>33. CASE Lose
  BY <1>33 DEF Lose, Return
<1>34. CASE Arrive
  BY <1>34 DEF Arrive, Effect
<1>35. CASE Restart
  BY <1>35 DEF Restart, Return
<1>36. CASE Expire
  BY <1>36 DEF Expire
<1>37. CASE Work
  BY <1>37 DEF Work
<1>38. CASE Push
  BY <1>38 DEF Push
<1>39. CASE Exit
  BY <1>39 DEF Exit
<1>40. ASSUME NEW h \in Heads, Judge(h) PROVE Cancellation'
  BY <1>40 DEF Judge
<1>41. CASE UNCHANGED vars
  BY <1>41 DEF vars
<1> QED
  BY SMTT(30), <1>1, <1>2, <1>3, <1>4, <1>5, <1>6, <1>7, <1>8, <1>9, <1>10, <1>11, <1>12,
    <1>13, <1>14, <1>15, <1>16, <1>17, <1>18, <1>19, <1>20, <1>21, <1>22, <1>23,
    <1>24, <1>25, <1>26, <1>27, <1>28, <1>29, <1>30, <1>31, <1>32, <1>33, <1>34,
    <1>35, <1>36, <1>37, <1>38, <1>39, <1>40, <1>41 DEF Next, Operate, Environment

\* Every step keeps the invariant.
LEMMA InvStep == Inv /\ [Next]_vars => Inv'
<1> SUFFICES ASSUME Inv, [Next]_vars PROVE Inv'
  OBVIOUS
<1>1. TypeOK' /\ Agree' /\ Marked' /\ Held' /\ Handed'
  BY TypeStep, AgreeStep, MarkedStep, HeldStep, HandedStep
<1>2. Calls' /\ Writer' /\ Messages' /\ Spending' /\ Requests'
  BY CallsStep, WriterStep, MessagesStep, SpendingStep, RequestsStep
<1>3. Late' /\ Reviewing' /\ Builder' /\ Collecting' /\ Completion' /\ Cancellation'
  BY LateStep, ReviewingStep, BuilderStep, CollectingStep, CompletionStep, CancellationStep
<1> QED
  BY <1>1, <1>2, <1>3 DEF Inv

LEMMA Invariance == Spec => []Inv
<1>1. Init => Inv
  BY InitInv
<1>2. Inv /\ [Next]_vars => Inv'
  BY InvStep
<1> QED
  BY <1>1, <1>2, PTL DEF Spec

(***************************************************************************)
(* Every variable keeps its type.                                          *)
(***************************************************************************)
THEOREM TypeCorrect == Spec => []TypeOK
<1>1. Inv => TypeOK
  BY DEF Inv
<1> QED
  BY <1>1, Invariance, PTL

(***************************************************************************)
(* ReserveCall saves the charge before Decide or DecideFails makes the     *)
(* call, so no crash can hide one from the limit.                          *)
(***************************************************************************)
THEOREM CallsCharged == Spec => []CallsAreCharged
<1>1. Inv => CallsAreCharged
  BY DEF Inv, Calls, CallsAreCharged
<1> QED
  BY <1>1, Invariance, PTL

(***************************************************************************)
(* The builder of a work is dispatched at most once, whatever is repeated, *)
(* lost or restarted.                                                      *)
(***************************************************************************)
THEOREM SingleWriter == Spec => []OneWriter
<1>1. Inv => OneWriter
  <2> SUFFICES ASSUME Inv PROVE OneWriter
    OBVIOUS
  <2>1. sent.dispatch \in {0, 1}
    BY DEF Inv, Writer
  <2> QED
    BY <2>1 DEF OneWriter
<1> QED
  BY <1>1, Invariance, PTL

(***************************************************************************)
(* A request key reaches the builder at most once, and the keys that did   *)
(* are within the answers and fixes admitted.                              *)
(***************************************************************************)
THEOREM MessagesBounded == Spec => []MessagesAreBounded
<1> DEFINE M == {k \in Keys : sent.messages[k] > 0}
<1>1. ASSUME Inv PROVE MessagesAreBounded
  <2>1. \A k \in Keys : sent.messages[k] \in {0, 1}
    BY <1>1 DEF Inv, Messages
  <2>2. M \subseteq Spent(disk.requests)
    <3> SUFFICES ASSUME NEW k \in M PROVE disk.requests[k] # "new"
      BY DEF Spent
    <3>1. sent.messages[k] # 0
      BY <2>1
    <3> QED
      BY <1>1, <3>1 DEF Inv, Messages
  <2>3. /\ Cardinality(Spent(disk.requests)) \in Nat /\ IsFiniteSet(Spent(disk.requests))
        /\ Cardinality(Spent(disk.requests)) = disk.answers + disk.fixes
    BY <1>1, SpentIsCounted DEF Inv, Spending
  <2>4. /\ Cardinality(M) <= Cardinality(Spent(disk.requests))
        /\ Cardinality(M) \in Nat
    BY <2>2, <2>3, FS_Subset, FS_CardinalityType
  <2>5. disk.answers \in 0 .. Answers /\ disk.fixes \in 0 .. Fixes
    BY <1>1 DEF Inv, TypeOK, Record
  <2>6. Cardinality(M) <= Answers + Fixes
    <3> HIDE DEF M
    <3> QED
      BY <2>3, <2>4, <2>5, LimitAssumption
  <2>7. \A k \in Keys : sent.messages[k] <= 1
    BY <2>1
  <2> QED
    BY <2>6, <2>7 DEF MessagesAreBounded
<1> QED
  BY <1>1, Invariance, PTL

(***************************************************************************)
(* A record at rest tells exactly what has left, which is what makes an    *)
(* operation repeated after a crash or a restart safe.                     *)
(***************************************************************************)
THEOREM RecordIsComplete == Spec => []RecordTellsAll
<1> DEFINE M == {k \in Keys : sent.messages[k] > 0}
<1>1. ASSUME Inv, pc = "idle", disk.pending = "none"
      PROVE  /\ sent.dispatch = (IF disk.started THEN 1 ELSE 0)
             /\ disk.round = Cardinality(M)
             /\ sent.reviews[disk.round] = (IF disk.reviewTarget = "none" THEN 0 ELSE 1)
  <2>1. sent.dispatch = (IF disk.started THEN 1 ELSE 0)
    BY <1>1 DEF Inv, Writer
  <2>2. disk.round = Cardinality(M)
    <3>1. \A k \in Keys : disk.requests[k] \in {"new", "done"}
      <4>1. disk.requests \in [Keys -> {"new", "intent", "done"}]
        BY <1>1 DEF Inv, TypeOK, Record
      <4> QED
        BY <1>1, <4>1 DEF Inv, Messages
    <3>2. \A k \in Keys : sent.messages[k] > 0 <=> disk.requests[k] = "done"
      BY <1>1, <3>1 DEF Inv, Messages
    <3>3. M = Done(disk.requests)
      BY <3>2 DEF Done
    <3> QED
      BY <1>1, <3>3 DEF Inv, Spending
  <2>3. sent.reviews[disk.round] = (IF disk.reviewTarget = "none" THEN 0 ELSE 1)
    BY <1>1 DEF Inv, Requests
  <2> QED
    BY <2>1, <2>2, <2>3
<1>2. Inv => RecordTellsAll
  BY <1>1 DEF RecordTellsAll
<1> QED
  BY <1>2, Invariance, PTL

(***************************************************************************)
(* A review runs only while the builder is gone.                           *)
(***************************************************************************)
THEOREM ReviewWaitsForBuilder == Spec => []NoReviewWhileBuilding
<1>1. Inv => NoReviewWhileBuilding
  BY DEF Inv, Reviewing, ReviewRunsFor, NoReviewWhileBuilding
<1> QED
  BY <1>1, Invariance, PTL

(***************************************************************************)
(* The completion that is saved is of the reviewed head, which has passed, *)
(* and the builder is gone.                                                *)
(***************************************************************************)
THEOREM CompletionIsReviewed == Spec => []CompleteIsReviewed
<1>1. Inv => CompleteIsReviewed
  BY DEF Inv, Completion, Reviewing, CompleteIsReviewed
<1> QED
  BY <1>1, Invariance, PTL

(***************************************************************************)
(* A work reported cancelled has stopped for good.                         *)
(***************************************************************************)
THEOREM CancellationIsStop == Spec => []CancelledIsStopped
<1>1. Inv => CancelledIsStopped
  BY DEF Inv, TypeOK, Late, Cancellation, ReviewRunsFor, CancelledIsStopped
<1> QED
  BY <1>1, Invariance, PTL

(***************************************************************************)
(* After a saved cancellation or revocation, or under a runtime the claim  *)
(* does not name, nothing leaves.                                          *)
(***************************************************************************)
THEOREM StoppedIsQuiet == Spec => QuietAfterStop
<1>1. ASSUME Inv, [Next]_vars, Stopped PROVE UNCHANGED sent
  <2>1. pc \notin {"runtime", "dispatch", "request", "send"}
    BY <1>1 DEF Inv, Held, Delegating, Stopped
  <2>2. CASE Operate
    BY <2>1, <2>2
       DEF Operate, Uncertain, Admit, BeginDecision, ReserveCall, Decide, DecideFails,
           Accept, Renew, ReserveDispatch, Dispatch, Dispatched, ReserveCancel,
           CancelBuilder, CancelReview, Cancelled, Refresh, Observe, Observed,
           ObservedCancelled, Collect, ReserveReview, RequestReview, Requested,
           ConfirmHead, Complete, Wait, ReserveResume, Fence, Send, Resume, Revoke
  <2>3. CASE Environment
    BY <2>1, <2>3 DEF Environment, Abandon, Lose, Arrive, Restart, Expire, Work, Push,
                      Exit, Judge
  <2> QED
    BY <1>1, <2>2, <2>3 DEF Next, vars
<1>2. Inv /\ [Next]_vars => (Stopped => UNCHANGED sent)
  BY <1>1
<1>3. QuietAfterStop <=> [][Stopped => UNCHANGED sent]_vars
  BY DEF QuietAfterStop
<1> QED
  BY <1>2, <1>3, Invariance, PTL DEF Spec

(***************************************************************************)
(* What is spent is on record before it is spent.                          *)
(***************************************************************************)
THEOREM SpendingRecorded == Spec => []SpendingIsRecorded
<1>1. CallsAreCharged /\ OneWriter /\ MessagesAreBounded /\ RecordTellsAll
        => SpendingIsRecorded
  BY DEF SpendingIsRecorded
<1> QED
  BY <1>1, CallsCharged, SingleWriter, MessagesBounded, RecordIsComplete, PTL

(***************************************************************************)
(* A review, a completion and a cancellation are of a builder that is gone.*)
(***************************************************************************)
THEOREM ReviewFinishedWork == Spec => []ReviewIsOfFinishedWork
<1>1. NoReviewWhileBuilding /\ CompleteIsReviewed /\ CancelledIsStopped
        => ReviewIsOfFinishedWork
  BY DEF ReviewIsOfFinishedWork
<1> QED
  BY <1>1, ReviewWaitsForBuilder, CompletionIsReviewed, CancellationIsStop, PTL

(***************************************************************************)
(* The managed service of a Board (BoardService), for any definitions and  *)
(* any number of operations, upgrades and faults.  The invariant says that *)
(* until its first change an operation leaves the host as it found it      *)
(* (Found), and that it takes a definition away or puts another in its     *)
(* place only while launchd holds no job (Unregistered).                   *)
(***************************************************************************)
\* An operation, its fields, and the host.
OpShape ==
  op = [pc |-> op.pc, kind |-> op.kind, want |-> op.want, replace |-> op.replace, prev |-> op.prev,
        load |-> op.load, pid |-> op.pid, text |-> op.text, ver |-> op.ver, ok |-> op.ok,
        status |-> op.status, proved |-> op.proved]
OpFields ==
  /\ op.prev \in Defs \cup {None, Junk} /\ op.text \in Defs \cup {None}
  /\ op.load \in {"loaded", "absent", "unknown"} /\ op.ok \in BOOLEAN
  /\ op.proved \in {"nothing", "new", "previous", "absent"}
HostTyped ==
  /\ plist \in Defs \cup {None, Junk} /\ job \in Defs \cup {None} /\ code \in 0..MaxCode
  /\ up => job # None

\* Until the first step that changes the host it is as the operation found it,
\* and the definition it read is the one that was there.
FileUntouched == {"read", "none", "compare", "gate same", "owner", "decide", "kick", "gate kick",
                  "backup", "out", "held", "write", "reload", "rm out", "rm held"}
HostUntouched == {"read", "none", "compare", "gate same", "owner", "decide", "kick", "backup"}
Found ==
  /\ op.pc \in FileUntouched => plist = before.disk
  /\ op.pc \in HostUntouched => job = before.job
  /\ op.pc \notin {"idle", "read", "done"} => op.prev = before.disk

\* What an operation at work carries.
Working ==
  /\ op.pc # "idle" => op.want \in Defs
  /\ op.pc = "back write" => op.text \in Defs
  /\ op.pc # "done" => op.proved = "nothing"

\* The definition is taken away or replaced only while launchd holds no job.
Unregistered ==
  /\ op.pc \in {"back delete", "back write", "rm delete", "rm port"} => job = None
  /\ op.pc = "rm held" /\ op.ok => job = None

ServiceInv ==
  /\ OpShape /\ OpFields /\ HostTyped /\ Found /\ Working /\ Unregistered
  /\ NothingIsStranded /\ ReportIsTrue /\ FailureRestores

LEMMA ReadServiceKeeps == ASSUME ServiceAssumption, ServiceInv, ReadService PROVE ServiceInv'
<1> USE DEF ServiceInv, OpShape, ReadService, OpAt, OpIs, Looks, launchd, Known, Told
<1>1. OpShape'
  OBVIOUS
<1>2. OpFields'
  BY DEF OpFields, HostTyped
<1>3. HostTyped'
  BY DEF HostTyped
<1>4. Found'
  BY DEF Found, FileUntouched, HostUntouched, OpFields
<1>5. Working'
  BY DEF Working, OpFields
<1>6. Unregistered'
  BY DEF Unregistered, HostTyped, OpFields
<1>7. NothingIsStranded'
  BY DEF NothingIsStranded, HostTyped, Unregistered, Working, OpFields, ServiceAssumption
<1>8. ReportIsTrue'
  BY DEF ReportIsTrue, HostTyped, Unregistered, Working, Found, FileUntouched, OpFields
<1>9. FailureRestores'
  BY DEF FailureRestores, Refusals, HostTyped, Found, FileUntouched, HostUntouched, OpFields,
         Working
<1> QED BY <1>1, <1>2, <1>3, <1>4, <1>5, <1>6, <1>7, <1>8, <1>9 DEF ServiceInv

LEMMA MismatchKeeps == ASSUME ServiceAssumption, ServiceInv, Mismatch PROVE ServiceInv'
<1> USE DEF ServiceInv, OpShape, Mismatch, OpAt, Ends, Looks, OpIs, launchd
<1>1. OpShape'
  OBVIOUS
<1>2. OpFields'
  BY DEF OpFields, HostTyped
<1>3. HostTyped'
  BY DEF HostTyped
<1>4. Found'
  BY DEF Found, FileUntouched, HostUntouched, OpFields
<1>5. Working'
  BY DEF Working, OpFields
<1>6. Unregistered'
  BY DEF Unregistered, HostTyped, OpFields
<1>7. NothingIsStranded'
  BY DEF NothingIsStranded, HostTyped, Unregistered, Working, OpFields, ServiceAssumption
<1>8. ReportIsTrue'
  BY DEF ReportIsTrue, HostTyped, Unregistered, Working, Found, FileUntouched, OpFields
<1>9. FailureRestores'
  BY DEF FailureRestores, Refusals, HostTyped, Found, FileUntouched, HostUntouched, OpFields,
         Working
<1> QED BY <1>1, <1>2, <1>3, <1>4, <1>5, <1>6, <1>7, <1>8, <1>9 DEF ServiceInv

LEMMA NotInstalledKeeps == ASSUME ServiceAssumption, ServiceInv, NotInstalled PROVE ServiceInv'
<1> USE DEF ServiceInv, OpShape, NotInstalled, OpAt, Ends, Looks, OpIs, launchd
<1>1. OpShape'
  OBVIOUS
<1>2. OpFields'
  BY DEF OpFields, HostTyped
<1>3. HostTyped'
  BY DEF HostTyped
<1>4. Found'
  BY DEF Found, FileUntouched, HostUntouched, OpFields
<1>5. Working'
  BY DEF Working, OpFields
<1>6. Unregistered'
  BY DEF Unregistered, HostTyped, OpFields
<1>7. NothingIsStranded'
  BY DEF NothingIsStranded, HostTyped, Unregistered, Working, OpFields, ServiceAssumption
<1>8. ReportIsTrue'
  BY DEF ReportIsTrue, HostTyped, Unregistered, Working, Found, FileUntouched, OpFields
<1>9. FailureRestores'
  BY DEF FailureRestores, Refusals, HostTyped, Found, FileUntouched, HostUntouched, OpFields,
         Working
<1> QED BY <1>1, <1>2, <1>3, <1>4, <1>5, <1>6, <1>7, <1>8, <1>9 DEF ServiceInv

LEMMA CompareKeeps == ASSUME ServiceAssumption, ServiceInv, Compare PROVE ServiceInv'
<1> USE DEF ServiceInv, OpShape, Compare, OpAt, OpGoes, Ends, Looks, OpIs, launchd, Refuses
<1>1. OpShape'
  OBVIOUS
<1>2. OpFields'
  BY DEF OpFields, HostTyped
<1>3. HostTyped'
  BY DEF HostTyped
<1>4. Found'
  BY DEF Found, FileUntouched, HostUntouched, OpFields
<1>5. Working'
  BY DEF Working, OpFields
<1>6. Unregistered'
  BY DEF Unregistered, HostTyped, OpFields
<1>7. NothingIsStranded'
  BY DEF NothingIsStranded, HostTyped, Unregistered, Working, OpFields, ServiceAssumption
<1>8. ReportIsTrue'
  BY DEF ReportIsTrue, HostTyped, Unregistered, Working, Found, FileUntouched, OpFields
<1>9. FailureRestores'
  BY DEF FailureRestores, Refusals, HostTyped, Found, FileUntouched, HostUntouched, OpFields,
         Working
<1> QED BY <1>1, <1>2, <1>3, <1>4, <1>5, <1>6, <1>7, <1>8, <1>9 DEF ServiceInv

LEMMA GateSameKeeps == ASSUME ServiceAssumption, ServiceInv, GateSame PROVE ServiceInv'
<1> USE DEF ServiceInv, OpShape, GateSame, OpAt, Ends, Looks, OpIs, launchd, Gate, Serves
<1>1. OpShape'
  OBVIOUS
<1>2. OpFields'
  BY DEF OpFields, HostTyped
<1>3. HostTyped'
  BY DEF HostTyped
<1>4. Found'
  BY DEF Found, FileUntouched, HostUntouched, OpFields
<1>5. Working'
  BY DEF Working, OpFields
<1>6. Unregistered'
  BY DEF Unregistered, HostTyped, OpFields
<1>7. NothingIsStranded'
  BY DEF NothingIsStranded, HostTyped, Unregistered, Working, OpFields, ServiceAssumption
<1>8. ReportIsTrue'
  BY DEF ReportIsTrue, HostTyped, Unregistered, Working, Found, FileUntouched, OpFields
<1>9. FailureRestores'
  BY DEF FailureRestores, Refusals, HostTyped, Found, FileUntouched, HostUntouched, OpFields,
         Working
<1> QED BY <1>1, <1>2, <1>3, <1>4, <1>5, <1>6, <1>7, <1>8, <1>9 DEF ServiceInv

LEMMA OwnerKeeps == ASSUME ServiceAssumption, ServiceInv, Owner PROVE ServiceInv'
<1> USE DEF ServiceInv, OpShape, Owner, OpAt, OpGoes, Ends, Looks, OpIs, launchd
<1>1. OpShape'
  OBVIOUS
<1>2. OpFields'
  BY DEF OpFields, HostTyped
<1>3. HostTyped'
  BY DEF HostTyped
<1>4. Found'
  BY DEF Found, FileUntouched, HostUntouched, OpFields
<1>5. Working'
  BY DEF Working, OpFields
<1>6. Unregistered'
  BY DEF Unregistered, HostTyped, OpFields
<1>7. NothingIsStranded'
  BY DEF NothingIsStranded, HostTyped, Unregistered, Working, OpFields, ServiceAssumption
<1>8. ReportIsTrue'
  BY DEF ReportIsTrue, HostTyped, Unregistered, Working, Found, FileUntouched, OpFields
<1>9. FailureRestores'
  BY DEF FailureRestores, Refusals, HostTyped, Found, FileUntouched, HostUntouched, OpFields,
         Working
<1> QED BY <1>1, <1>2, <1>3, <1>4, <1>5, <1>6, <1>7, <1>8, <1>9 DEF ServiceInv

LEMMA DecideRestartKeeps == ASSUME ServiceAssumption, ServiceInv, DecideRestart PROVE ServiceInv'
<1> USE DEF ServiceInv, OpShape, DecideRestart, OpAt, OpIs, OpGoes, Ends, Looks, launchd, Refuses,
            Drifted
<1>1. OpShape'
  OBVIOUS
<1>2. OpFields'
  BY DEF OpFields, HostTyped
<1>3. HostTyped'
  BY DEF HostTyped
<1>4. Found'
  BY DEF Found, FileUntouched, HostUntouched, OpFields
<1>5. Working'
  BY DEF Working, OpFields
<1>6. Unregistered'
  BY DEF Unregistered, HostTyped, OpFields
<1>7. NothingIsStranded'
  BY DEF NothingIsStranded, HostTyped, Unregistered, Working, OpFields, ServiceAssumption
<1>8. ReportIsTrue'
  BY DEF ReportIsTrue, HostTyped, Unregistered, Working, Found, FileUntouched, OpFields
<1>9. FailureRestores'
  BY DEF FailureRestores, Refusals, HostTyped, Found, FileUntouched, HostUntouched, OpFields,
         Working
<1> QED BY <1>1, <1>2, <1>3, <1>4, <1>5, <1>6, <1>7, <1>8, <1>9 DEF ServiceInv

LEMMA KickKeeps == ASSUME ServiceAssumption, ServiceInv, Kick PROVE ServiceInv'
<1>1. /\ \/ job' = job /\ job # None
         \/ job' = plist /\ plist \in Defs
         \/ job' = job /\ up' = up
      /\ plist' = plist /\ code' = code
  BY DEF Kick, OpAt, Kickstart, Bootstrap, Replies, Runs, Same, launchd
<1>2. HostTyped'
  BY <1>1 DEF ServiceInv, HostTyped, ServiceAssumption
<1> USE DEF ServiceInv, OpShape, Kick, OpAt, Kickstart, Bootstrap, Replies, Runs, Same, launchd
<1>3. OpShape'
  OBVIOUS
<1>4. OpFields'
  BY DEF OpFields, HostTyped
<1>5. Found'
  BY DEF Found, FileUntouched, HostUntouched, OpFields
<1>6. Working'
  BY DEF Working, OpFields
<1>7. Unregistered'
  BY DEF Unregistered, HostTyped, OpFields
<1>8. NothingIsStranded'
  BY DEF NothingIsStranded, HostTyped, Unregistered, Working, OpFields, ServiceAssumption
<1>9. ReportIsTrue'
  BY DEF ReportIsTrue, HostTyped, Unregistered, Working, Found, FileUntouched, OpFields
<1>10. FailureRestores'
  BY DEF FailureRestores, Refusals, HostTyped, Found, FileUntouched, HostUntouched, OpFields,
         Working
<1> QED BY <1>1, <1>2, <1>3, <1>4, <1>5, <1>6, <1>7, <1>8, <1>9, <1>10 DEF ServiceInv

LEMMA GateKickKeeps == ASSUME ServiceAssumption, ServiceInv, GateKick PROVE ServiceInv'
<1>1. /\ op.pc = "gate kick" /\ op'.pc = "done" /\ op'.prev = op.prev
      /\ UNCHANGED <<plist, job, before>>
  BY DEF ServiceInv, OpShape, GateKick, OpAt, Ends, Proves, Looks, OpIs, launchd, Gate, Serves,
         Moved
<1>2. Found'
  BY <1>1 DEF ServiceInv, Found, FileUntouched, HostUntouched
<1> USE DEF ServiceInv, OpShape, GateKick, OpAt, Ends, Proves, Looks, OpIs, launchd, Gate, Serves,
            Moved
<1>3. OpShape'
  OBVIOUS
<1>4. OpFields'
  BY DEF OpFields, HostTyped
<1>5. HostTyped'
  BY DEF HostTyped
<1>6. Working'
  BY DEF Working, OpFields
<1>7. Unregistered'
  BY DEF Unregistered, HostTyped, OpFields
<1>8. NothingIsStranded'
  BY DEF NothingIsStranded, HostTyped, Unregistered, Working, OpFields, ServiceAssumption
<1>9. ReportIsTrue'
  BY DEF ReportIsTrue, HostTyped, Unregistered, Working, Found, FileUntouched, OpFields
<1>10. FailureRestores'
  BY DEF FailureRestores, Refusals, HostTyped, Found, FileUntouched, HostUntouched, OpFields,
         Working
<1> QED BY <1>2, <1>3, <1>4, <1>5, <1>6, <1>7, <1>8, <1>9, <1>10 DEF ServiceInv

LEMMA BackupKeeps == ASSUME ServiceAssumption, ServiceInv, Backup PROVE ServiceInv'
<1> USE DEF ServiceInv, OpShape, Backup, OpAt, OpIs, OpGoes, Ends, Looks, launchd, Readable
<1>1. OpShape'
  OBVIOUS
<1>2. OpFields'
  BY DEF OpFields, HostTyped
<1>3. HostTyped'
  BY DEF HostTyped
<1>4. Found'
  BY DEF Found, FileUntouched, HostUntouched, OpFields
<1>5. Working'
  BY DEF Working, OpFields
<1>6. Unregistered'
  BY DEF Unregistered, HostTyped, OpFields
<1>7. NothingIsStranded'
  BY DEF NothingIsStranded, HostTyped, Unregistered, Working, OpFields, ServiceAssumption
<1>8. ReportIsTrue'
  BY DEF ReportIsTrue, HostTyped, Unregistered, Working, Found, FileUntouched, OpFields
<1>9. FailureRestores'
  BY DEF FailureRestores, Refusals, HostTyped, Found, FileUntouched, HostUntouched, OpFields,
         Working
<1> QED BY <1>1, <1>2, <1>3, <1>4, <1>5, <1>6, <1>7, <1>8, <1>9 DEF ServiceInv

LEMMA OutKeeps == ASSUME ServiceAssumption, ServiceInv, Out PROVE ServiceInv'
<1>1. /\ (job' = None /\ up' = FALSE) \/ (job' = job /\ up' = up)
      /\ plist' = plist /\ code' = code
  BY DEF Out, OpAt, Bootout, Replies, Runs, Same, launchd
<1>2. HostTyped'
  BY <1>1 DEF ServiceInv, HostTyped
<1> USE DEF ServiceInv, OpShape, Out, OpAt, Bootout, Replies, Runs, Same, launchd
<1>3. OpShape'
  OBVIOUS
<1>4. OpFields'
  BY DEF OpFields, HostTyped
<1>5. Found'
  BY DEF Found, FileUntouched, HostUntouched, OpFields
<1>6. Working'
  BY DEF Working, OpFields
<1>7. Unregistered'
  BY DEF Unregistered, HostTyped, OpFields
<1>8. NothingIsStranded'
  BY DEF NothingIsStranded, HostTyped, Unregistered, Working, OpFields, ServiceAssumption
<1>9. ReportIsTrue'
  BY DEF ReportIsTrue, HostTyped, Unregistered, Working, Found, FileUntouched, OpFields
<1>10. FailureRestores'
  BY DEF FailureRestores, Refusals, HostTyped, Found, FileUntouched, HostUntouched, OpFields,
         Working
<1> QED BY <1>1, <1>2, <1>3, <1>4, <1>5, <1>6, <1>7, <1>8, <1>9, <1>10 DEF ServiceInv

LEMMA UnloadedKeeps == ASSUME ServiceAssumption, ServiceInv, Unloaded PROVE ServiceInv'
<1>1. /\ op.pc = "held" /\ op'.pc \in {"done", "write"} /\ op'.prev = op.prev
      /\ UNCHANGED <<plist, job, before>>
  BY DEF ServiceInv, OpShape, Unloaded, OpAt, OpGoes, Ends, Proves, Looks, OpIs, launchd, Told,
         Serves, Readable, Version
<1>2. Found'
  BY <1>1 DEF ServiceInv, Found, FileUntouched, HostUntouched
<1> USE DEF ServiceInv, OpShape, Unloaded, OpAt, OpGoes, Ends, Proves, Looks, OpIs, launchd, Told,
            Serves, Readable, Version
<1>3. OpShape'
  OBVIOUS
<1>4. OpFields'
  BY DEF OpFields, HostTyped
<1>5. HostTyped'
  BY DEF HostTyped
<1>6. Working'
  BY DEF Working, OpFields
<1>7. Unregistered'
  BY DEF Unregistered, HostTyped, OpFields
<1>8. NothingIsStranded'
  BY DEF NothingIsStranded, HostTyped, Unregistered, Working, OpFields, ServiceAssumption
<1>9. ReportIsTrue'
  BY DEF ReportIsTrue, HostTyped, Unregistered, Working, Found, FileUntouched, OpFields
<1>10. FailureRestores'
  BY DEF FailureRestores, Refusals, HostTyped, Found, FileUntouched, HostUntouched, OpFields,
         Working
<1> QED BY <1>2, <1>3, <1>4, <1>5, <1>6, <1>7, <1>8, <1>9, <1>10 DEF ServiceInv

LEMMA WriteDefinitionKeeps == ASSUME ServiceAssumption, ServiceInv, WriteDefinition PROVE ServiceInv'
<1> USE DEF ServiceInv, OpShape, WriteDefinition, OpAt, OpGoes, Ends, OpIs, launchd, Same
<1>1. OpShape'
  OBVIOUS
<1>2. OpFields'
  BY DEF OpFields, HostTyped
<1>3. HostTyped'
  BY DEF HostTyped, Working
<1>4. Found'
  BY DEF Found, FileUntouched, HostUntouched, OpFields
<1>5. Working'
  BY DEF Working, OpFields
<1>6. Unregistered'
  BY DEF Unregistered, HostTyped, OpFields
<1>7. NothingIsStranded'
  BY DEF NothingIsStranded, HostTyped, Unregistered, Working, OpFields, ServiceAssumption
<1>8. ReportIsTrue'
  BY DEF ReportIsTrue, HostTyped, Unregistered, Working, Found, FileUntouched, OpFields
<1>9. FailureRestores'
  BY DEF FailureRestores, Refusals, HostTyped, Found, FileUntouched, HostUntouched, OpFields,
         Working
<1> QED BY <1>1, <1>2, <1>3, <1>4, <1>5, <1>6, <1>7, <1>8, <1>9 DEF ServiceInv

LEMMA ReloadKeeps == ASSUME ServiceAssumption, ServiceInv, Reload PROVE ServiceInv'
<1>1. /\ (job' = plist /\ plist \in Defs) \/ (job' = job /\ up' = up)
      /\ plist' = plist /\ code' = code
  BY DEF Reload, OpAt, Bootstrap, Replies, Runs, Same, launchd
<1>2. HostTyped'
  BY <1>1 DEF ServiceInv, HostTyped, ServiceAssumption
<1> USE DEF ServiceInv, OpShape, Reload, OpAt, Bootstrap, Replies, Runs, Same, launchd
<1>3. OpShape'
  OBVIOUS
<1>4. OpFields'
  BY DEF OpFields, HostTyped
<1>5. Found'
  BY DEF Found, FileUntouched, HostUntouched, OpFields
<1>6. Working'
  BY DEF Working, OpFields
<1>7. Unregistered'
  BY DEF Unregistered, HostTyped, OpFields
<1>8. NothingIsStranded'
  BY DEF NothingIsStranded, HostTyped, Unregistered, Working, OpFields, ServiceAssumption
<1>9. ReportIsTrue'
  BY DEF ReportIsTrue, HostTyped, Unregistered, Working, Found, FileUntouched, OpFields
<1>10. FailureRestores'
  BY DEF FailureRestores, Refusals, HostTyped, Found, FileUntouched, HostUntouched, OpFields,
         Working
<1> QED BY <1>1, <1>2, <1>3, <1>4, <1>5, <1>6, <1>7, <1>8, <1>9, <1>10 DEF ServiceInv

LEMMA BootKeeps == ASSUME ServiceAssumption, ServiceInv, Boot PROVE ServiceInv'
<1>1. /\ (job' = plist /\ plist \in Defs) \/ (job' = job /\ up' = up)
      /\ plist' = plist /\ code' = code
  BY DEF Boot, OpAt, Bootstrap, Replies, Runs, Same, launchd
<1>2. HostTyped'
  BY <1>1 DEF ServiceInv, HostTyped, ServiceAssumption
<1> USE DEF ServiceInv, OpShape, Boot, OpAt, Bootstrap, Replies, Runs, Same, launchd
<1>3. OpShape'
  OBVIOUS
<1>4. OpFields'
  BY DEF OpFields, HostTyped
<1>5. Found'
  BY DEF Found, FileUntouched, HostUntouched, OpFields
<1>6. Working'
  BY DEF Working, OpFields
<1>7. Unregistered'
  BY DEF Unregistered, HostTyped, OpFields
<1>8. NothingIsStranded'
  BY DEF NothingIsStranded, HostTyped, Unregistered, Working, OpFields, ServiceAssumption
<1>9. ReportIsTrue'
  BY DEF ReportIsTrue, HostTyped, Unregistered, Working, Found, FileUntouched, OpFields
<1>10. FailureRestores'
  BY DEF FailureRestores, Refusals, HostTyped, Found, FileUntouched, HostUntouched, OpFields,
         Working
<1> QED BY <1>1, <1>2, <1>3, <1>4, <1>5, <1>6, <1>7, <1>8, <1>9, <1>10 DEF ServiceInv

LEMMA BootedKeeps == ASSUME ServiceAssumption, ServiceInv, Booted PROVE ServiceInv'
<1> USE DEF ServiceInv, OpShape, Booted, OpAt, OpGoes, Looks, OpIs, launchd, Told
<1>1. OpShape'
  OBVIOUS
<1>2. OpFields'
  BY DEF OpFields, HostTyped
<1>3. HostTyped'
  BY DEF HostTyped
<1>4. Found'
  BY DEF Found, FileUntouched, HostUntouched, OpFields
<1>5. Working'
  BY DEF Working, OpFields
<1>6. Unregistered'
  BY DEF Unregistered, HostTyped, OpFields
<1>7. NothingIsStranded'
  BY DEF NothingIsStranded, HostTyped, Unregistered, Working, OpFields, ServiceAssumption
<1>8. ReportIsTrue'
  BY DEF ReportIsTrue, HostTyped, Unregistered, Working, Found, FileUntouched, OpFields
<1>9. FailureRestores'
  BY DEF FailureRestores, Refusals, HostTyped, Found, FileUntouched, HostUntouched, OpFields,
         Working
<1> QED BY <1>1, <1>2, <1>3, <1>4, <1>5, <1>6, <1>7, <1>8, <1>9 DEF ServiceInv

LEMMA GateNewKeeps == ASSUME ServiceAssumption, ServiceInv, GateNew PROVE ServiceInv'
<1>1. /\ op.pc = "gate new" /\ op'.pc \in {"done", "back out"} /\ op'.prev = op.prev
      /\ UNCHANGED <<plist, job, before>>
  BY DEF ServiceInv, OpShape, GateNew, OpAt, OpGoes, Proves, Looks, OpIs, launchd, Gate, Serves,
         Accomplished
<1>2. Found'
  BY <1>1 DEF ServiceInv, Found, FileUntouched, HostUntouched
<1> USE DEF ServiceInv, OpShape, GateNew, OpAt, OpGoes, Proves, Looks, OpIs, launchd, Gate, Serves,
            Accomplished
<1>3. OpShape'
  OBVIOUS
<1>4. OpFields'
  BY DEF OpFields, HostTyped
<1>5. HostTyped'
  BY DEF HostTyped
<1>6. Working'
  BY DEF Working, OpFields
<1>7. Unregistered'
  BY DEF Unregistered, HostTyped, OpFields
<1>8. NothingIsStranded'
  BY DEF NothingIsStranded, HostTyped, Unregistered, Working, OpFields, ServiceAssumption
<1>9. ReportIsTrue'
  <2>1. op'.pc = "done" =>
          op'.proved = "new" /\ op'.want = op.want /\ plist = op.want /\ job = op.want
    OBVIOUS
  <2> HIDE DEF GateNew
  <2> QED BY <1>1, <2>1 DEF ReportIsTrue
<1>10. FailureRestores'
  BY DEF FailureRestores, Refusals, HostTyped, Found, FileUntouched, HostUntouched, OpFields,
         Working
<1> QED BY <1>2, <1>3, <1>4, <1>5, <1>6, <1>7, <1>8, <1>9, <1>10 DEF ServiceInv

LEMMA BackOutKeeps == ASSUME ServiceAssumption, ServiceInv, BackOut PROVE ServiceInv'
<1>1. /\ (job' = None /\ up' = FALSE) \/ (job' = job /\ up' = up)
      /\ plist' = plist /\ code' = code
  BY DEF BackOut, OpAt, Bootout, Replies, Runs, Same, launchd
<1>2. HostTyped'
  BY <1>1 DEF ServiceInv, HostTyped
<1> USE DEF ServiceInv, OpShape, BackOut, OpAt, Bootout, Replies, Runs, Same, launchd
<1>3. OpShape'
  OBVIOUS
<1>4. OpFields'
  BY DEF OpFields, HostTyped
<1>5. Found'
  BY DEF Found, FileUntouched, HostUntouched, OpFields
<1>6. Working'
  BY DEF Working, OpFields
<1>7. Unregistered'
  BY DEF Unregistered, HostTyped, OpFields
<1>8. NothingIsStranded'
  BY DEF NothingIsStranded, HostTyped, Unregistered, Working, OpFields, ServiceAssumption
<1>9. ReportIsTrue'
  BY DEF ReportIsTrue, HostTyped, Unregistered, Working, Found, FileUntouched, OpFields
<1>10. FailureRestores'
  BY DEF FailureRestores, Refusals, HostTyped, Found, FileUntouched, HostUntouched, OpFields,
         Working
<1> QED BY <1>1, <1>2, <1>3, <1>4, <1>5, <1>6, <1>7, <1>8, <1>9, <1>10 DEF ServiceInv

LEMMA BackHeldKeeps == ASSUME ServiceAssumption, ServiceInv, BackHeld PROVE ServiceInv'
<1> USE DEF ServiceInv, OpShape, BackHeld, OpAt, OpIs, OpGoes, Looks, launchd, Told, Released
<1>1. OpShape'
  OBVIOUS
<1>2. OpFields'
  BY DEF OpFields, HostTyped
<1>3. HostTyped'
  BY DEF HostTyped
<1>4. Found'
  BY DEF Found, FileUntouched, HostUntouched, OpFields
<1>5. Working'
  BY DEF Working, OpFields
<1>6. Unregistered'
  BY DEF Unregistered, HostTyped, OpFields
<1>7. NothingIsStranded'
  BY DEF NothingIsStranded, HostTyped, Unregistered, Working, OpFields, ServiceAssumption
<1>8. ReportIsTrue'
  BY DEF ReportIsTrue, HostTyped, Unregistered, Working, Found, FileUntouched, OpFields
<1>9. FailureRestores'
  BY DEF FailureRestores, Refusals, HostTyped, Found, FileUntouched, HostUntouched, OpFields,
         Working
<1> QED BY <1>1, <1>2, <1>3, <1>4, <1>5, <1>6, <1>7, <1>8, <1>9 DEF ServiceInv

LEMMA BackDeleteKeeps == ASSUME ServiceAssumption, ServiceInv, BackDelete PROVE ServiceInv'
<1> USE DEF ServiceInv, OpShape, BackDelete, OpAt, OpIs, launchd, Same
<1>1. OpShape'
  OBVIOUS
<1>2. OpFields'
  BY DEF OpFields, HostTyped
<1>3. HostTyped'
  BY DEF HostTyped
<1>4. Found'
  BY DEF Found, FileUntouched, HostUntouched, OpFields
<1>5. Working'
  BY DEF Working, OpFields
<1>6. Unregistered'
  BY DEF Unregistered, HostTyped, OpFields
<1>7. NothingIsStranded'
  BY DEF NothingIsStranded, HostTyped, Unregistered, Working, OpFields, ServiceAssumption
<1>8. ReportIsTrue'
  BY DEF ReportIsTrue, HostTyped, Unregistered, Working, Found, FileUntouched, OpFields
<1>9. FailureRestores'
  BY DEF FailureRestores, Refusals, HostTyped, Found, FileUntouched, HostUntouched, OpFields,
         Working
<1> QED BY <1>1, <1>2, <1>3, <1>4, <1>5, <1>6, <1>7, <1>8, <1>9 DEF ServiceInv

LEMMA BackWriteKeeps == ASSUME ServiceAssumption, ServiceInv, BackWrite PROVE ServiceInv'
<1> USE DEF ServiceInv, OpShape, BackWrite, OpAt, OpGoes, OpIs, launchd, Same
<1>1. OpShape'
  OBVIOUS
<1>2. OpFields'
  BY DEF OpFields, HostTyped
<1>3. HostTyped'
  BY DEF HostTyped, OpFields, Working
<1>4. Found'
  BY DEF Found, FileUntouched, HostUntouched, OpFields
<1>5. Working'
  BY DEF Working, OpFields
<1>6. Unregistered'
  BY DEF Unregistered, HostTyped, OpFields
<1>7. NothingIsStranded'
  BY DEF NothingIsStranded, HostTyped, Unregistered, Working, OpFields, ServiceAssumption
<1>8. ReportIsTrue'
  BY DEF ReportIsTrue, HostTyped, Unregistered, Working, Found, FileUntouched, OpFields
<1>9. FailureRestores'
  BY DEF FailureRestores, Refusals, HostTyped, Found, FileUntouched, HostUntouched, OpFields,
         Working
<1> QED BY <1>1, <1>2, <1>3, <1>4, <1>5, <1>6, <1>7, <1>8, <1>9 DEF ServiceInv

LEMMA BackBootKeeps == ASSUME ServiceAssumption, ServiceInv, BackBoot PROVE ServiceInv'
<1>1. /\ (job' = plist /\ plist \in Defs) \/ (job' = job /\ up' = up)
      /\ plist' = plist /\ code' = code
  BY DEF BackBoot, OpAt, Bootstrap, Replies, Runs, Same, launchd
<1>2. HostTyped'
  BY <1>1 DEF ServiceInv, HostTyped, ServiceAssumption
<1> USE DEF ServiceInv, OpShape, BackBoot, OpAt, Bootstrap, Replies, Runs, Same, launchd
<1>3. OpShape'
  OBVIOUS
<1>4. OpFields'
  BY DEF OpFields, HostTyped
<1>5. Found'
  BY DEF Found, FileUntouched, HostUntouched, OpFields
<1>6. Working'
  BY DEF Working, OpFields
<1>7. Unregistered'
  BY DEF Unregistered, HostTyped, OpFields
<1>8. NothingIsStranded'
  BY DEF NothingIsStranded, HostTyped, Unregistered, Working, OpFields, ServiceAssumption
<1>9. ReportIsTrue'
  BY DEF ReportIsTrue, HostTyped, Unregistered, Working, Found, FileUntouched, OpFields
<1>10. FailureRestores'
  BY DEF FailureRestores, Refusals, HostTyped, Found, FileUntouched, HostUntouched, OpFields,
         Working
<1> QED BY <1>1, <1>2, <1>3, <1>4, <1>5, <1>6, <1>7, <1>8, <1>9, <1>10 DEF ServiceInv

LEMMA JudgeRollbackKeeps == ASSUME ServiceAssumption, ServiceInv, JudgeRollback PROVE ServiceInv'
<1>1. /\ op.pc = "judge" /\ op'.pc \in {"done", "gate prev"} /\ op'.prev = op.prev
      /\ UNCHANGED <<plist, job, before>>
  BY DEF ServiceInv, OpShape, JudgeRollback, OpAt, OpGoes, Ends, Proves, Looks, OpIs, launchd,
         Told, Readable
<1>2. Found'
  BY <1>1 DEF ServiceInv, Found, FileUntouched, HostUntouched
<1> USE DEF ServiceInv, OpShape, JudgeRollback, OpAt, OpGoes, Ends, Proves, Looks, OpIs, launchd,
            Told, Readable
<1>3. OpShape'
  OBVIOUS
<1>4. OpFields'
  BY DEF OpFields, HostTyped
<1>5. HostTyped'
  BY DEF HostTyped
<1>6. Working'
  BY DEF Working, OpFields
<1>7. Unregistered'
  BY DEF Unregistered, HostTyped, OpFields
<1>8. NothingIsStranded'
  BY DEF NothingIsStranded, HostTyped, Unregistered, Working, OpFields, ServiceAssumption
<1>9. ReportIsTrue'
  BY DEF ReportIsTrue, HostTyped, Unregistered, Working, Found, FileUntouched, OpFields
<1>10. FailureRestores'
  BY DEF FailureRestores, Refusals, HostTyped, Found, FileUntouched, HostUntouched, OpFields,
         Working
<1> QED BY <1>2, <1>3, <1>4, <1>5, <1>6, <1>7, <1>8, <1>9, <1>10 DEF ServiceInv

LEMMA GatePrevKeeps == ASSUME ServiceAssumption, ServiceInv, GatePrev PROVE ServiceInv'
<1>1. /\ op.pc = "gate prev" /\ op'.pc = "done" /\ op'.prev = op.prev
      /\ UNCHANGED <<plist, job, before>>
  BY DEF ServiceInv, OpShape, GatePrev, OpAt, Ends, Proves, Looks, OpIs, launchd, Gate, Serves,
         Readable, Evidence
<1>2. Found'
  BY <1>1 DEF ServiceInv, Found, FileUntouched, HostUntouched
<1> USE DEF ServiceInv, OpShape, GatePrev, OpAt, Ends, Proves, Looks, OpIs, launchd, Gate, Serves,
            Readable, Evidence
<1>3. OpShape'
  OBVIOUS
<1>4. OpFields'
  BY DEF OpFields, HostTyped
<1>5. HostTyped'
  BY DEF HostTyped
<1>6. Working'
  BY DEF Working, OpFields
<1>7. Unregistered'
  BY DEF Unregistered, HostTyped, OpFields
<1>8. NothingIsStranded'
  BY DEF NothingIsStranded, HostTyped, Unregistered, Working, OpFields, ServiceAssumption
<1>9. ReportIsTrue'
  BY DEF ReportIsTrue, HostTyped, Unregistered, Working, Found, FileUntouched, OpFields
<1>10. FailureRestores'
  BY DEF FailureRestores, Refusals, HostTyped, Found, FileUntouched, HostUntouched, OpFields,
         Working
<1> QED BY <1>2, <1>3, <1>4, <1>5, <1>6, <1>7, <1>8, <1>9, <1>10 DEF ServiceInv

LEMMA RmOutKeeps == ASSUME ServiceAssumption, ServiceInv, RmOut PROVE ServiceInv'
<1>1. /\ (job' = None /\ up' = FALSE) \/ (job' = job /\ up' = up)
      /\ plist' = plist /\ code' = code
  BY DEF RmOut, OpAt, Bootout, Replies, Runs, Same, launchd
<1>2. HostTyped'
  BY <1>1 DEF ServiceInv, HostTyped
<1> USE DEF ServiceInv, OpShape, RmOut, OpAt, Bootout, Replies, Runs, Same, launchd
<1>3. OpShape'
  OBVIOUS
<1>4. OpFields'
  BY DEF OpFields, HostTyped
<1>5. Found'
  BY DEF Found, FileUntouched, HostUntouched, OpFields
<1>6. Working'
  BY DEF Working, OpFields
<1>7. Unregistered'
  BY DEF Unregistered, HostTyped, OpFields
<1>8. NothingIsStranded'
  BY DEF NothingIsStranded, HostTyped, Unregistered, Working, OpFields, ServiceAssumption
<1>9. ReportIsTrue'
  BY DEF ReportIsTrue, HostTyped, Unregistered, Working, Found, FileUntouched, OpFields
<1>10. FailureRestores'
  BY DEF FailureRestores, Refusals, HostTyped, Found, FileUntouched, HostUntouched, OpFields,
         Working
<1> QED BY <1>1, <1>2, <1>3, <1>4, <1>5, <1>6, <1>7, <1>8, <1>9, <1>10 DEF ServiceInv

LEMMA RmHeldKeeps == ASSUME ServiceAssumption, ServiceInv, RmHeld PROVE ServiceInv'
<1> USE DEF ServiceInv, OpShape, RmHeld, OpAt, OpGoes, Ends, Looks, OpIs, launchd, Told
<1>1. OpShape'
  OBVIOUS
<1>2. OpFields'
  BY DEF OpFields, HostTyped
<1>3. HostTyped'
  BY DEF HostTyped
<1>4. Found'
  BY DEF Found, FileUntouched, HostUntouched, OpFields
<1>5. Working'
  BY DEF Working, OpFields
<1>6. Unregistered'
  BY DEF Unregistered, HostTyped, OpFields
<1>7. NothingIsStranded'
  BY DEF NothingIsStranded, HostTyped, Unregistered, Working, OpFields, ServiceAssumption
<1>8. ReportIsTrue'
  BY DEF ReportIsTrue, HostTyped, Unregistered, Working, Found, FileUntouched, OpFields
<1>9. FailureRestores'
  BY DEF FailureRestores, Refusals, HostTyped, Found, FileUntouched, HostUntouched, OpFields,
         Working
<1> QED BY <1>1, <1>2, <1>3, <1>4, <1>5, <1>6, <1>7, <1>8, <1>9 DEF ServiceInv

LEMMA RmDeleteKeeps == ASSUME ServiceAssumption, ServiceInv, RmDelete PROVE ServiceInv'
<1> USE DEF ServiceInv, OpShape, RmDelete, OpAt, OpGoes, OpIs, launchd, Same
<1>1. OpShape'
  OBVIOUS
<1>2. OpFields'
  BY DEF OpFields, HostTyped
<1>3. HostTyped'
  BY DEF HostTyped
<1>4. Found'
  BY DEF Found, FileUntouched, HostUntouched, OpFields
<1>5. Working'
  BY DEF Working, OpFields
<1>6. Unregistered'
  BY DEF Unregistered, HostTyped, OpFields
<1>7. NothingIsStranded'
  BY DEF NothingIsStranded, HostTyped, Unregistered, Working, OpFields, ServiceAssumption
<1>8. ReportIsTrue'
  BY DEF ReportIsTrue, HostTyped, Unregistered, Working, Found, FileUntouched, OpFields
<1>9. FailureRestores'
  BY DEF FailureRestores, Refusals, HostTyped, Found, FileUntouched, HostUntouched, OpFields,
         Working
<1> QED BY <1>1, <1>2, <1>3, <1>4, <1>5, <1>6, <1>7, <1>8, <1>9 DEF ServiceInv

LEMMA RmPortKeeps == ASSUME ServiceAssumption, ServiceInv, RmPort PROVE ServiceInv'
<1>1. /\ op.pc = "rm port" /\ op'.pc = "done" /\ op'.prev = op.prev
      /\ UNCHANGED <<plist, job, before>>
  BY DEF ServiceInv, OpShape, RmPort, OpAt, Ends, Proves, Looks, OpIs, launchd
<1>2. Found'
  BY <1>1 DEF ServiceInv, Found, FileUntouched, HostUntouched
<1> USE DEF ServiceInv, OpShape, RmPort, OpAt, Ends, Proves, Looks, OpIs, launchd
<1>3. OpShape'
  OBVIOUS
<1>4. OpFields'
  BY DEF OpFields, HostTyped
<1>5. HostTyped'
  BY DEF HostTyped
<1>6. Working'
  BY DEF Working, OpFields
<1>7. Unregistered'
  BY DEF Unregistered, HostTyped, OpFields
<1>8. NothingIsStranded'
  BY DEF NothingIsStranded, HostTyped, Unregistered, Working, OpFields, ServiceAssumption
<1>9. ReportIsTrue'
  BY DEF ReportIsTrue, HostTyped, Unregistered, Working, Found, FileUntouched, OpFields
<1>10. FailureRestores'
  BY DEF FailureRestores, Refusals, HostTyped, Found, FileUntouched, HostUntouched, OpFields,
         Working
<1> QED BY <1>2, <1>3, <1>4, <1>5, <1>6, <1>7, <1>8, <1>9, <1>10 DEF ServiceInv

LEMMA BeginOperationKeeps == ASSUME ServiceAssumption, ServiceInv, BeginOperation PROVE ServiceInv'
<1> USE DEF ServiceInv, OpShape, BeginOperation, OpIs, Idle
<1>1. OpShape'
  OBVIOUS
<1>2. OpFields'
  BY DEF OpFields, HostTyped
<1>3. HostTyped'
  BY DEF HostTyped
<1>4. Found'
  BY DEF Found, FileUntouched, HostUntouched, OpFields
<1>5. Working'
  BY DEF Working, OpFields
<1>6. Unregistered'
  BY DEF Unregistered, HostTyped, OpFields
<1>7. NothingIsStranded'
  BY DEF NothingIsStranded, HostTyped, Unregistered, Working, OpFields, ServiceAssumption
<1>8. ReportIsTrue'
  BY DEF ReportIsTrue, HostTyped, Unregistered, Working, Found, FileUntouched, OpFields
<1>9. FailureRestores'
  BY DEF FailureRestores, Refusals, HostTyped, Found, FileUntouched, HostUntouched, OpFields,
         Working
<1> QED BY <1>1, <1>2, <1>3, <1>4, <1>5, <1>6, <1>7, <1>8, <1>9 DEF ServiceInv

LEMMA KeepAliveKeeps == ASSUME ServiceAssumption, ServiceInv, KeepAlive PROVE ServiceInv'
<1> USE DEF ServiceInv, OpShape, KeepAlive
<1>1. OpShape'
  OBVIOUS
<1>2. OpFields'
  BY DEF OpFields, HostTyped
<1>3. HostTyped'
  BY DEF HostTyped
<1>4. Found'
  BY DEF Found, FileUntouched, HostUntouched, OpFields
<1>5. Working'
  BY DEF Working, OpFields
<1>6. Unregistered'
  BY DEF Unregistered, HostTyped, OpFields
<1>7. NothingIsStranded'
  BY DEF NothingIsStranded, HostTyped, Unregistered, Working, OpFields, ServiceAssumption
<1>8. ReportIsTrue'
  BY DEF ReportIsTrue, HostTyped, Unregistered, Working, Found, FileUntouched, OpFields
<1>9. FailureRestores'
  BY DEF FailureRestores, Refusals, HostTyped, Found, FileUntouched, HostUntouched, OpFields,
         Working
<1> QED BY <1>1, <1>2, <1>3, <1>4, <1>5, <1>6, <1>7, <1>8, <1>9 DEF ServiceInv

LEMMA DiesKeeps == ASSUME ServiceAssumption, ServiceInv, Dies PROVE ServiceInv'
<1> USE DEF ServiceInv, OpShape, Dies
<1>1. OpShape'
  OBVIOUS
<1>2. OpFields'
  BY DEF OpFields, HostTyped
<1>3. HostTyped'
  BY DEF HostTyped
<1>4. Found'
  BY DEF Found, FileUntouched, HostUntouched, OpFields
<1>5. Working'
  BY DEF Working, OpFields
<1>6. Unregistered'
  BY DEF Unregistered, HostTyped, OpFields
<1>7. NothingIsStranded'
  BY DEF NothingIsStranded, HostTyped, Unregistered, Working, OpFields, ServiceAssumption
<1>8. ReportIsTrue'
  BY DEF ReportIsTrue, HostTyped, Unregistered, Working, Found, FileUntouched, OpFields
<1>9. FailureRestores'
  BY DEF FailureRestores, Refusals, HostTyped, Found, FileUntouched, HostUntouched, OpFields,
         Working
<1> QED BY <1>1, <1>2, <1>3, <1>4, <1>5, <1>6, <1>7, <1>8, <1>9 DEF ServiceInv

LEMMA IntrudeKeeps == ASSUME ServiceAssumption, ServiceInv, Intrude PROVE ServiceInv'
<1> USE DEF ServiceInv, OpShape, Intrude, launchd
<1>1. OpShape'
  OBVIOUS
<1>2. OpFields'
  BY DEF OpFields, HostTyped
<1>3. HostTyped'
  BY DEF HostTyped
<1>4. Found'
  BY DEF Found, FileUntouched, HostUntouched, OpFields
<1>5. Working'
  BY DEF Working, OpFields
<1>6. Unregistered'
  BY DEF Unregistered, HostTyped, OpFields
<1>7. NothingIsStranded'
  BY DEF NothingIsStranded, HostTyped, Unregistered, Working, OpFields, ServiceAssumption
<1>8. ReportIsTrue'
  BY DEF ReportIsTrue, HostTyped, Unregistered, Working, Found, FileUntouched, OpFields
<1>9. FailureRestores'
  BY DEF FailureRestores, Refusals, HostTyped, Found, FileUntouched, HostUntouched, OpFields,
         Working
<1> QED BY <1>1, <1>2, <1>3, <1>4, <1>5, <1>6, <1>7, <1>8, <1>9 DEF ServiceInv

LEMMA LoginKeeps == ASSUME ServiceAssumption, ServiceInv, Login PROVE ServiceInv'
<1> USE DEF ServiceInv, OpShape, Login, Quiet, Idle
<1>1. OpShape'
  OBVIOUS
<1>2. OpFields'
  BY DEF OpFields, HostTyped
<1>3. HostTyped'
  BY DEF HostTyped
<1>4. Found'
  BY DEF Found, FileUntouched, HostUntouched, OpFields
<1>5. Working'
  BY DEF Working, OpFields
<1>6. Unregistered'
  BY DEF Unregistered, HostTyped, OpFields
<1>7. NothingIsStranded'
  BY DEF NothingIsStranded, HostTyped, Unregistered, Working, OpFields, ServiceAssumption
<1>8. ReportIsTrue'
  BY DEF ReportIsTrue, HostTyped, Unregistered, Working, Found, FileUntouched, OpFields
<1>9. FailureRestores'
  BY DEF FailureRestores, Refusals, HostTyped, Found, FileUntouched, HostUntouched, OpFields,
         Working
<1> QED BY <1>1, <1>2, <1>3, <1>4, <1>5, <1>6, <1>7, <1>8, <1>9 DEF ServiceInv

LEMMA UpgradeKeeps == ASSUME ServiceAssumption, ServiceInv, Upgrade PROVE ServiceInv'
<1> USE DEF ServiceInv, OpShape, Upgrade, launchd, Quiet, Idle
<1>1. MaxCode \in Nat
  BY DEF ServiceAssumption
<1>2. OpShape'
  OBVIOUS
<1>3. OpFields'
  BY DEF OpFields, HostTyped
<1>4. HostTyped'
  BY <1>1 DEF HostTyped
<1>5. Found'
  BY DEF Found, FileUntouched, HostUntouched, OpFields
<1>6. Working'
  BY DEF Working, OpFields
<1>7. Unregistered'
  BY DEF Unregistered, HostTyped, OpFields
<1>8. NothingIsStranded'
  BY DEF NothingIsStranded, HostTyped, Unregistered, Working, OpFields, ServiceAssumption
<1>9. ReportIsTrue'
  BY DEF ReportIsTrue, HostTyped, Unregistered, Working, Found, FileUntouched, OpFields
<1>10. FailureRestores'
  BY DEF FailureRestores, Refusals, HostTyped, Found, FileUntouched, HostUntouched, OpFields,
         Working
<1> QED BY <1>1, <1>2, <1>3, <1>4, <1>5, <1>6, <1>7, <1>8, <1>9, <1>10 DEF ServiceInv

LEMMA CorruptKeeps == ASSUME ServiceAssumption, ServiceInv, Corrupt PROVE ServiceInv'
<1> USE DEF ServiceInv, OpShape, Corrupt, launchd, Quiet, Idle
<1>1. OpShape'
  OBVIOUS
<1>2. OpFields'
  BY DEF OpFields, HostTyped
<1>3. HostTyped'
  BY DEF HostTyped, ServiceAssumption
<1>4. Found'
  BY DEF Found, FileUntouched, HostUntouched, OpFields
<1>5. Working'
  BY DEF Working, OpFields
<1>6. Unregistered'
  BY DEF Unregistered, HostTyped, OpFields
<1>7. NothingIsStranded'
  BY DEF NothingIsStranded, HostTyped, Unregistered, Working, OpFields, ServiceAssumption
<1>8. ReportIsTrue'
  BY DEF ReportIsTrue, HostTyped, Unregistered, Working, Found, FileUntouched, OpFields
<1>9. FailureRestores'
  BY DEF FailureRestores, Refusals, HostTyped, Found, FileUntouched, HostUntouched, OpFields,
         Working
<1> QED BY <1>1, <1>2, <1>3, <1>4, <1>5, <1>6, <1>7, <1>8, <1>9 DEF ServiceInv

LEMMA OpKilledKeeps == ASSUME ServiceAssumption, ServiceInv, OpKilled PROVE ServiceInv'
<1> USE DEF ServiceInv, OpShape, OpKilled, launchd, Idle
<1>1. OpShape'
  OBVIOUS
<1>2. OpFields'
  BY DEF OpFields, HostTyped
<1>3. HostTyped'
  BY DEF HostTyped
<1>4. Found'
  BY DEF Found, FileUntouched, HostUntouched, OpFields
<1>5. Working'
  BY DEF Working, OpFields
<1>6. Unregistered'
  BY DEF Unregistered, HostTyped, OpFields
<1>7. NothingIsStranded'
  BY DEF NothingIsStranded, HostTyped, Unregistered, Working, OpFields, ServiceAssumption
<1>8. ReportIsTrue'
  BY DEF ReportIsTrue, HostTyped, Unregistered, Working, Found, FileUntouched, OpFields
<1>9. FailureRestores'
  BY DEF FailureRestores, Refusals, HostTyped, Found, FileUntouched, HostUntouched, OpFields,
         Working
<1> QED BY <1>1, <1>2, <1>3, <1>4, <1>5, <1>6, <1>7, <1>8, <1>9 DEF ServiceInv

LEMMA ServiceStep == ASSUME ServiceAssumption, ServiceInv, [ServiceNext]_serviceVars PROVE ServiceInv'
<1>1. CASE Operation
  BY <1>1, ReadServiceKeeps, MismatchKeeps, NotInstalledKeeps, CompareKeeps, GateSameKeeps,
     OwnerKeeps, DecideRestartKeeps, KickKeeps, GateKickKeeps, BackupKeeps, OutKeeps,
     UnloadedKeeps, WriteDefinitionKeeps, ReloadKeeps, BootKeeps, BootedKeeps, GateNewKeeps,
     BackOutKeeps, BackHeldKeeps, BackDeleteKeeps, BackWriteKeeps, BackBootKeeps,
     JudgeRollbackKeeps, GatePrevKeeps, RmOutKeeps, RmHeldKeeps, RmDeleteKeeps, RmPortKeeps DEF Operation
<1>2. CASE UNCHANGED serviceVars
  <2>1. plist' = plist /\ job' = job /\ up' = up /\ code' = code /\ op' = op /\ before' = before
    BY <1>2 DEF serviceVars, launchd
  <2> USE <2>1 DEF ServiceInv
  <2>2. OpShape'
    BY DEF OpShape
  <2>3. OpFields'
    BY DEF OpFields
  <2>4. HostTyped'
    BY DEF HostTyped
  <2>5. Found'
    BY DEF Found, FileUntouched, HostUntouched
  <2>6. Working'
    BY DEF Working
  <2>7. Unregistered'
    BY DEF Unregistered
  <2>8. NothingIsStranded'
    BY DEF NothingIsStranded
  <2>9. ReportIsTrue'
    BY DEF ReportIsTrue
  <2>10. FailureRestores'
    BY DEF FailureRestores, Refusals
  <2> QED BY <2>2, <2>3, <2>4, <2>5, <2>6, <2>7, <2>8, <2>9, <2>10
<1>3. ASSUME ServiceNext, ~Operation PROVE ServiceInv'
  BY <1>3, BeginOperationKeeps, KeepAliveKeeps, DiesKeeps, IntrudeKeeps, LoginKeeps, UpgradeKeeps,
     CorruptKeeps, OpKilledKeeps DEF ServiceNext
<1> QED BY <1>1, <1>2, <1>3

\* The invariant of the service, for any definitions and bounds.
THEOREM ServiceInductive == ServiceAssumption => (ServiceSpec => []ServiceInv)
<1> SUFFICES ASSUME ServiceAssumption PROVE ServiceSpec => []ServiceInv
  OBVIOUS
<1>1. ServiceInit => ServiceInv
  BY DEF ServiceAssumption, ServiceInit, Idle, ServiceInv, OpShape, OpFields, HostTyped, Found,
         Working,
         FileUntouched, HostUntouched, Unregistered, NothingIsStranded, ReportIsTrue, FailureRestores
<1> QED BY <1>1, ServiceStep, PTL DEF ServiceSpec

(* Whatever command of launchd fails, answers wrongly or stays unanswered  *)
(* and whoever is killed: a job launchd holds keeps its definition, what   *)
(* an operation reports proved is so, and one that failed left the         *)
(* definition as it found it (board_service.py).                           *)
THEOREM KeptService == ServiceAssumption => (ServiceSpec => []ServiceIsKept)
<1>1. ServiceInv => ServiceIsKept
  BY DEF ServiceInv, ServiceIsKept, ServiceTypeOK, OpFields, HostTyped
<1> QED BY <1>1, ServiceInductive, PTL

(***************************************************************************)
(* An audit of a pull request (AuditReview), for any heads, revisions and  *)
(* number of runs.  The invariant says what a run has read by each step    *)
(* and at which revision (Sighted), what the context it goes on with is    *)
(* worth (Contexted), that what it left is sound (Left), and that its      *)
(* comment stands before it may report success (Loud).                     *)
(***************************************************************************)
\* A run and its fields; the pull request and the clone.
RunShape ==
  run = [pc |-> run.pc, n |-> run.n, mode |-> run.mode, want |-> run.want, head |-> run.head,
         since |-> run.since, rev |-> run.rev, pinned |-> run.pinned, seen |-> run.seen,
         asked |-> run.asked, ctx |-> run.ctx, meta |-> run.meta, text |-> run.text,
         held |-> run.held, fixture |-> run.fixture, verdict |-> run.verdict, end |-> run.end,
         exit |-> run.exit]
RunFields ==
  /\ run.head \in Pushed /\ run.rev \in Bases /\ run.exit \in 0..3 /\ run.verdict \in Verdicts
  /\ run.ctx \in {"none", "ready", "unready"}
PullTyped ==
  /\ prhead \in Pushed /\ base \in Bases /\ tracking \in 0..base /\ have \subseteq Pushed
  /\ granted \subseteq Revs /\ input \in Input \cup {Nothing}
  /\ runs \in 0..MaxRuns /\ mishaps \in 0..MaxMishaps

\* What a run has read was read at the revision it pinned.
Unread == {"fetch", "base", "pin", "authority"}
UnderReview == {"context", "tree", "lost", "review", "structure", "recheck", "finish", "save", "post"}
Sighted ==
  /\ run.since \in 0..base
  /\ run.pc = "pin" => run.since <= tracking
  /\ run.pinned => run.since <= run.rev /\ run.rev <= base
  /\ run.pc \in Unread => run.seen = {}
  /\ run.pc = "lineage" /\ run.pinned => run.seen = {run.rev}
  /\ run.pc \in UnderReview => run.pinned /\ run.seen = {run.rev}

\* The context a record was concluded on is the one that was asked for: r is
\* a run or what it left.
Rests(r) ==
  /\ r.asked => r.meta # Nothing /\ r.meta.required
  /\ r.want # Nothing => r.meta # Nothing /\ r.meta.rev = r.want
  /\ r.meta # Nothing => r.meta.head = r.head /\ r.meta.kind # "required_unavailable"
  /\ (r.meta # Nothing /\ r.meta.kind = "full") => r.text = r.meta.rev
Contexted ==
  /\ run.pc \in {"fetch", "base", "pin", "authority", "lineage", "context"} => run.meta = Nothing
  /\ run.pc \in {"tree", "lost", "review", "structure", "recheck", "finish"} =>
       /\ run.ctx # "unready" => Rests(run)
       /\ run.ctx = "none" => run.meta = Nothing
  /\ run.pc \in {"save", "post"} /\ run.verdict \in Terminal => run.end = run.head /\ Rests(run)

\* What a run leaves behind, and that its comment stands when it succeeds.
RecordShape(c) ==
  c = [by |-> c.by, head |-> c.head, end |-> c.end, verdict |-> c.verdict, since |-> c.since,
       seen |-> c.seen, asked |-> c.asked, want |-> c.want, meta |-> c.meta, text |-> c.text,
       prose |-> c.prose, clean |-> c.clean, bound |-> c.bound]
Sound(c) ==
  /\ RecordShape(c)
  /\ c.verdict \in Terminal => c.head = c.end /\ Rests(c)
  /\ c.text # Nothing => ~c.prose
Sighting(c, b) == \E rev \in c.since..b : c.seen = {rev}
Left ==
  /\ \A c \in comments \cup saved : Sound(c) /\ Sighting(c, base)
  /\ \A c \in comments : c.verdict \in Terminal => c.clean
CommentStands(n, h) == \E c \in comments : c.by = n /\ c.verdict # "UNKNOWN" /\ c.head = h
Loud ==
  (run.pc = "bind" \/ (run.pc = "close" /\ run.mode = "post")) /\ run.verdict # "UNKNOWN" =>
    CommentStands(run.n, run.head)

ReviewInv == RunShape /\ RunFields /\ PullTyped /\ Sighted /\ Contexted /\ Left /\ Loud /\ FailsLoudly

LEMMA ReviewBounds ==
  ASSUME ReviewAssumption
  PROVE  MaxHead \in Nat /\ MaxBase \in Nat /\ MaxRuns \in Nat /\ MaxMishaps \in Nat
BY DEF ReviewAssumption

\* What was read at a revision of the base stays so when the base moves.
LEMMA SightingStays ==
  ASSUME NEW c, NEW b \in Nat, NEW d \in Nat, b <= d, Sighting(c, b)
  PROVE  Sighting(c, d)
BY DEF Sighting

LEMMA LeftStays ==
  ASSUME ReviewAssumption, ReviewInv, saved' = saved, comments' = comments,
         base' \in Nat, base <= base'
  PROVE  Left'
<1>1. base \in Nat
  BY ReviewBounds DEF ReviewInv, PullTyped, Bases
<1>2. ASSUME NEW c \in comments \cup saved PROVE Sighting(c, base')
  BY <1>1, SightingStays DEF ReviewInv, Left
<1> QED BY <1>2 DEF ReviewInv, Left

\* Naming itself changes nothing else of a comment.
LEMMA BoundKeeps ==
  ASSUME NEW c, RecordShape(c), NEW d, d = Bound(c)
  PROVE  /\ RecordShape(d) /\ d.by = c.by /\ d.head = c.head /\ d.end = c.end
         /\ d.verdict = c.verdict /\ d.since = c.since /\ d.seen = c.seen /\ d.asked = c.asked
         /\ d.want = c.want /\ d.meta = c.meta /\ d.text = c.text /\ d.prose = c.prose
         /\ d.clean = c.clean
BY DEF Bound, RecordShape

LEMMA BoundSound ==
  ASSUME NEW c, NEW b, Sound(c), Sighting(c, b)
  PROVE  /\ Sound(Bound(c)) /\ Sighting(Bound(c), b)
         /\ Bound(c).verdict = c.verdict /\ Bound(c).clean = c.clean
         /\ Bound(c).by = c.by /\ Bound(c).head = c.head
<1>1. RecordShape(c)
  BY DEF Sound
<1> QED BY <1>1, BoundKeeps DEF Sound, Sighting, Rests

\* What a run leaves is sound: at saving its own verdict, at posting its final one.
LEMMA BodySound ==
  ASSUME ReviewAssumption, ReviewInv, run.pc \in {"save", "post"}, NEW v, v \in Terminal => v = run.verdict
  PROVE  /\ Sound(Body(v)) /\ Sighting(Body(v), base)
         /\ Body(v).by = run.n /\ Body(v).head = run.head /\ Body(v).verdict = v
         /\ Body(v).clean = ~Quarantined
<1> DEFINE c == Body(v)
<1>1. /\ RecordShape(c) /\ c.by = run.n /\ c.head = run.head /\ c.verdict = v /\ c.end = run.end
      /\ c.since = run.since /\ c.seen = run.seen /\ c.asked = run.asked /\ c.want = run.want
      /\ c.meta = run.meta /\ c.text = run.text /\ c.clean = ~Quarantined
      /\ c.prose = (run.held /\ run.text = Nothing)
  BY DEF Body, RecordShape
<1> HIDE DEF c
<1>2. v \in Terminal => c.head = c.end /\ Rests(c)
  BY <1>1 DEF ReviewInv, Contexted, Rests
<1>3. Sighting(c, base)
  <2>1. run.seen = {run.rev} /\ run.rev \in run.since..base
    BY ReviewBounds DEF ReviewInv, Sighted, UnderReview, PullTyped, RunFields, Bases
  <2> QED BY <1>1, <2>1 DEF Sighting
<1>4. c.text # Nothing => ~c.prose
  BY <1>1
<1> QED BY <1>1, <1>2, <1>3, <1>4 DEF Sound, c

\* What no step of a run changes once it has begun.
Steady ==
  /\ run'.n = run.n /\ run'.mode = run.mode /\ run'.head = run.head /\ run'.since = run.since
  /\ run'.want = run.want /\ run'.exit = run.exit

\* A run that ends keeps the rest, if it reports success with its comment only.
LEMMA ExitKeeps ==
  ASSUME ReviewAssumption, ReviewInv, NEW x \in 0..3, Exits(x), base' = base, PullTyped', Left',
         x # 0 \/ run.mode # "post" \/ CommentStands(run.n, run.head)'
  PROVE  ReviewInv'
<1>1. /\ RunShape' /\ run'.pc = "done" /\ run'.n = run.n /\ run'.mode = run.mode
      /\ run'.head = run.head /\ run'.since = 0 /\ run'.rev = 0 /\ run'.pinned = FALSE
      /\ run'.ctx = "none" /\ run'.verdict = "UNKNOWN" /\ run'.exit = x
  BY DEF Exits, Becomes, FreshRun, RunShape
<1>2. RunFields'
  BY <1>1, ReviewBounds DEF ReviewInv, RunFields, Bases, Verdicts
<1>3. Sighted'
  BY <1>1, ReviewBounds DEF ReviewInv, PullTyped, Bases, Sighted, Unread, UnderReview
<1>4. Contexted' /\ Loud'
  BY <1>1 DEF Contexted, Loud
<1>5. FailsLoudly'
  BY <1>1 DEF FailsLoudly, CommentStands
<1> QED BY <1>1, <1>2, <1>3, <1>4, <1>5 DEF ReviewInv

LEMMA RaisesKeeps ==
  ASSUME ReviewAssumption, ReviewInv, UNCHANGED prworld, Raises
  PROVE  ReviewInv'
<1>1. Exits(1) /\ base' = base
  BY DEF Raises, prworld
<1>2. PullTyped'
  BY ReviewBounds DEF Raises, prworld, Quietly, Fails, Exits, Becomes, ReviewInv, PullTyped
<1>3. Left'
  BY ReviewBounds, LeftStays DEF Raises, prworld, Quietly, ReviewInv, PullTyped, Bases
<1> QED BY <1>1, <1>2, <1>3, ExitKeeps

LEMMA BeginKeeps == ASSUME ReviewAssumption, ReviewInv, Begin PROVE ReviewInv'
<1> USE DEF Begin, FreshRun, prworld
<1> USE ReviewBounds
<1>1. RunShape'
  BY DEF ReviewInv, RunShape
<1>2. RunFields'
  BY DEF ReviewInv, RunShape, RunFields, PullTyped, Pushed, Bases, Verdicts, Terminal
<1>3. PullTyped'
  BY DEF ReviewInv, RunFields, PullTyped, Pushed, Bases, Over
<1>4. Sighted'
  BY DEF ReviewInv, RunShape, RunFields, PullTyped, Sighted, Unread, UnderReview, Bases, Terminal
<1>5. Contexted'
  BY DEF ReviewInv, RunShape, Contexted, Rests, Terminal
<1>6. Left'
  BY LeftStays DEF ReviewInv, PullTyped, Bases
<1>7. Loud'
  BY DEF ReviewInv, RunShape, RunFields, Loud, CommentStands, Verdicts, Terminal
<1>8. FailsLoudly'
  BY DEF ReviewInv, RunShape, RunFields, Loud, FailsLoudly, CommentStands, Verdicts, Terminal
<1> QED BY <1>1, <1>2, <1>3, <1>4, <1>5, <1>6, <1>7, <1>8 DEF ReviewInv

LEMMA FetchHeadKeeps == ASSUME ReviewAssumption, ReviewInv, FetchHead PROVE ReviewInv'
<1> USE DEF RunAt
<1> SUFFICES ASSUME ~Raises PROVE ReviewInv'
  BY RaisesKeeps DEF FetchHead
<1> USE DEF FetchHead, RunAt, Goes, Fine, Exits, Quietly, Fails, Becomes, FreshRun, prworld
<1> USE ReviewBounds
<1>1. RunShape'
  BY DEF ReviewInv, RunShape
<1>2. RunFields'
  BY DEF ReviewInv, RunShape, RunFields, PullTyped, Pushed, Bases, Verdicts, Terminal
<1>3. PullTyped'
  BY DEF ReviewInv, RunFields, PullTyped, Pushed, Bases
<1>4. Sighted'
  BY DEF ReviewInv, RunShape, RunFields, PullTyped, Sighted, Unread, UnderReview, Bases, Terminal
<1>5. Contexted'
  BY DEF ReviewInv, RunShape, Contexted, Rests, Terminal
<1>6. Left'
  BY LeftStays DEF ReviewInv, PullTyped, Bases
<1>7. Loud'
  BY DEF ReviewInv, RunShape, RunFields, Loud, CommentStands, Verdicts, Terminal
<1>8. FailsLoudly'
  BY DEF ReviewInv, RunShape, RunFields, Loud, FailsLoudly, CommentStands, Verdicts, Terminal
<1> QED BY <1>1, <1>2, <1>3, <1>4, <1>5, <1>6, <1>7, <1>8 DEF ReviewInv

LEMMA FetchBaseKeeps == ASSUME ReviewAssumption, ReviewInv, FetchBase PROVE ReviewInv'
<1> USE DEF RunAt
<1> SUFFICES ASSUME ~Raises PROVE ReviewInv'
  BY RaisesKeeps DEF FetchBase
<1> USE DEF FetchBase, RunAt, Goes, Fine, Exits, Quietly, Fails, Becomes, FreshRun, prworld
<1> USE ReviewBounds
<1>1. RunShape'
  BY DEF ReviewInv, RunShape
<1>2. RunFields'
  BY DEF ReviewInv, RunShape, RunFields, PullTyped, Pushed, Bases, Verdicts, Terminal
<1>3. PullTyped'
  BY DEF ReviewInv, RunFields, PullTyped, Pushed, Bases
<1>4. Sighted'
  BY DEF ReviewInv, RunShape, RunFields, PullTyped, Sighted, Unread, UnderReview, Bases, Terminal
<1>5. Contexted'
  BY DEF ReviewInv, RunShape, Contexted, Rests, Terminal
<1>6. Left'
  BY LeftStays DEF ReviewInv, PullTyped, Bases
<1>7. Loud'
  BY DEF ReviewInv, RunShape, RunFields, Loud, CommentStands, Verdicts, Terminal
<1>8. FailsLoudly'
  BY DEF ReviewInv, RunShape, RunFields, Loud, FailsLoudly, CommentStands, Verdicts, Terminal
<1> QED BY <1>1, <1>2, <1>3, <1>4, <1>5, <1>6, <1>7, <1>8 DEF ReviewInv

LEMMA PinKeeps == ASSUME ReviewAssumption, ReviewInv, Pin PROVE ReviewInv'
<1>1. /\ RunShape' /\ Steady /\ run.pc = "pin" /\ run'.pc = "authority"
      /\ run'.seen = run.seen /\ run'.ctx = run.ctx /\ run'.verdict = run.verdict /\ run'.meta = run.meta
      /\ \/ run'.pinned = TRUE /\ run'.rev = tracking
         \/ run'.pinned = run.pinned /\ run'.rev = run.rev
  <2> USE DEF ReviewInv, RunShape, Steady
  <2>1. CASE run' = [run EXCEPT !.pc = "authority", !.rev = tracking, !.pinned = TRUE]
    BY <2>1 DEF Pin, RunAt
  <2>2. CASE run' = [run EXCEPT !.pc = "authority"]
    BY <2>2 DEF Pin, RunAt
  <2> QED BY <2>1, <2>2 DEF Pin, Becomes, Goes
<1>2. /\ UNCHANGED <<prhead, base, input, granted, have, tracking, runs, saved, comments>>
      /\ mishaps' = mishaps \/ (mishaps < MaxMishaps /\ mishaps' = mishaps + 1)
  BY DEF Pin, RunAt, prworld, Quietly, Becomes, Goes, Fine, Fails
<1>3. PullTyped'
  BY <1>2, ReviewBounds DEF ReviewInv, PullTyped
<1>4. tracking \in Nat /\ tracking <= base /\ base \in Nat /\ base <= MaxBase /\ MaxBase \in Nat
  BY ReviewBounds DEF ReviewInv, PullTyped, Bases
<1>5. RunFields'
  BY <1>1, <1>4 DEF ReviewInv, RunFields, Bases, Steady
<1>6. Sighted'
  BY <1>1, <1>2, <1>4 DEF ReviewInv, Sighted, Unread, UnderReview, Steady
<1>7. Contexted' /\ Loud' /\ FailsLoudly'
  BY <1>1 DEF ReviewInv, Contexted, Loud, FailsLoudly
<1>8. Left'
  BY <1>2, <1>4, LeftStays
<1> QED BY <1>1, <1>3, <1>5, <1>6, <1>7, <1>8 DEF ReviewInv

LEMMA AuthorityKeeps == ASSUME ReviewAssumption, ReviewInv, Authority PROVE ReviewInv'
<1> USE DEF Authority, RunAt, Becomes, Quietly, Fine, Read, Base, prworld
<1> USE ReviewBounds
<1>1. RunShape'
  BY DEF ReviewInv, RunShape
<1>2. RunFields'
  BY DEF ReviewInv, RunShape, RunFields, PullTyped, Pushed, Bases, Verdicts, Terminal
<1>3. PullTyped'
  BY DEF ReviewInv, RunFields, PullTyped, Pushed, Bases
<1>4. Sighted'
  BY DEF ReviewInv, RunShape, RunFields, PullTyped, Sighted, Unread, UnderReview, Bases, Terminal
<1>5. Contexted'
  BY DEF ReviewInv, RunShape, Contexted, Rests, Terminal
<1>6. Left'
  BY LeftStays DEF ReviewInv, PullTyped, Bases
<1>7. Loud'
  BY DEF ReviewInv, RunShape, RunFields, Loud, CommentStands, Verdicts, Terminal
<1>8. FailsLoudly'
  BY DEF ReviewInv, RunShape, RunFields, Loud, FailsLoudly, CommentStands, Verdicts, Terminal
<1> QED BY <1>1, <1>2, <1>3, <1>4, <1>5, <1>6, <1>7, <1>8 DEF ReviewInv

LEMMA LineageKeeps == ASSUME ReviewAssumption, ReviewInv, Lineage PROVE ReviewInv'
<1>1. UNCHANGED <<prhead, base, input, granted, have, tracking, runs, saved, comments, mishaps>>
  BY DEF Lineage, RunAt, prworld, Quietly, Becomes, Exits, Fine
<1>2. PullTyped' /\ base \in Nat
  BY <1>1, ReviewBounds DEF ReviewInv, PullTyped, Bases
<1>3. Left'
  BY <1>1, <1>2, LeftStays
<1>4. CASE Exits(1)
  BY <1>1, <1>2, <1>3, <1>4, ExitKeeps
<1>5. CASE run.pinned /\ run.pc = "lineage" /\ Becomes([Read(run) EXCEPT !.pc = "context"])
  <2>1. /\ RunShape' /\ Steady /\ run'.pc = "context" /\ run'.rev = run.rev
        /\ run'.pinned = run.pinned /\ run'.seen = run.seen \cup {run.rev}
        /\ run'.ctx = run.ctx /\ run'.verdict = run.verdict /\ run'.meta = run.meta
    BY <1>5 DEF ReviewInv, Becomes, Read, Base, RunShape, Steady
  <2>2. RunFields'
    BY <2>1 DEF ReviewInv, RunFields, Steady
  <2>3. Sighted'
    BY <1>1, <1>5, <2>1 DEF ReviewInv, Sighted, Unread, UnderReview, Steady
  <2>4. Contexted' /\ Loud' /\ FailsLoudly'
    BY <1>5, <2>1 DEF ReviewInv, Contexted, Loud, FailsLoudly
  <2> QED BY <1>2, <1>3, <2>1, <2>2, <2>3, <2>4 DEF ReviewInv
<1> QED BY <1>4, <1>5 DEF Lineage, RunAt

LEMMA PrepareKeeps == ASSUME ReviewAssumption, ReviewInv, Prepare PROVE ReviewInv'
<1>1. /\ UNCHANGED <<prhead, base, input, granted, have, tracking, runs, saved, comments>>
      /\ mishaps' = mishaps \/ (mishaps < MaxMishaps /\ mishaps' = mishaps + 1)
  BY DEF Prepare, RunAt, prworld, Quietly, Becomes, Fine, Fails
<1>2. PullTyped' /\ base \in Nat
  BY <1>1, ReviewBounds DEF ReviewInv, PullTyped, Bases
<1>3. Left'
  BY <1>1, <1>2, LeftStays
<1>4. PICK asks \in BOOLEAN : run' = Prepared(asks) \/ run' = Unreadable(asks)
  <2>1. run' = Prepared(Base \in Required) \/ run' = Prepared(FALSE) \/ run' = Unreadable(Base \in Required)
    BY DEF Prepare, Becomes
  <2>2. (Base \in Required) \in BOOLEAN
    OBVIOUS
  <2> HIDE DEF Prepared, Unreadable
  <2> QED BY <2>1, <2>2, Zenon
<1>5. run.pc = "context" /\ run.pinned /\ run.seen = {run.rev}
  BY DEF ReviewInv, Prepare, RunAt, Sighted, UnderReview
<1> DEFINE r == [Read(run) EXCEPT !.pc = "tree", !.asked = asks]
<1>6. r = [pc |-> "tree", n |-> run.n, mode |-> run.mode, want |-> run.want, head |-> run.head,
           since |-> run.since, rev |-> run.rev, pinned |-> run.pinned, seen |-> {run.rev},
           asked |-> asks, ctx |-> run.ctx, meta |-> run.meta, text |-> run.text,
           held |-> run.held, fixture |-> run.fixture, verdict |-> run.verdict, end |-> run.end,
           exit |-> run.exit]
  <2>1. run.seen \cup {Base} = {run.rev}
    BY <1>5 DEF Base
  <2>2. Read(run) = [run EXCEPT !.seen = {run.rev}]
    BY <2>1 DEF Read
  <2>3. r = [run EXCEPT !.seen = {run.rev}, !.pc = "tree", !.asked = asks]
    BY <2>2
  <2>4. RunShape
    BY DEF ReviewInv
  <2> HIDE DEF r
  <2> QED BY <2>3, <2>4 DEF RunShape
<1>7. \/ run' = [r EXCEPT !.ctx = "unready"]
      \/ /\ ~asks /\ run.want = Nothing
         /\ run' = [r EXCEPT !.ctx = "none"]
      \/ /\ input # Nothing /\ Delivered(asks)
         /\ run' = [r EXCEPT !.ctx = "ready", !.meta = input,
                             !.text = IF input.kind = "full" THEN input.rev ELSE Nothing]
      \/ run' = [r EXCEPT !.ctx = "unready", !.meta = input]
  BY <1>4 DEF Prepared, Unreadable
<1> HIDE DEF r
<1>8. /\ RunShape' /\ Steady /\ run'.pc = "tree" /\ run'.rev = run.rev /\ run'.pinned = run.pinned
      /\ run'.seen = {run.rev} /\ run'.verdict = run.verdict /\ run'.asked = asks
      /\ \/ run'.ctx = "unready"
         \/ /\ run'.ctx = "none" /\ ~asks /\ run.want = Nothing
            /\ run'.meta = run.meta /\ run'.text = run.text
         \/ /\ run'.ctx = "ready" /\ input # Nothing /\ Delivered(asks) /\ run'.meta = input
            /\ run'.text = IF input.kind = "full" THEN input.rev ELSE Nothing
  <2> USE DEF RunShape, Steady
  <2>1. CASE run' = [r EXCEPT !.ctx = "unready"]
    BY <1>6, <2>1
  <2>2. CASE ~asks /\ run.want = Nothing /\ run' = [r EXCEPT !.ctx = "none"]
    BY <1>6, <2>2
  <2>3. CASE /\ input # Nothing /\ Delivered(asks)
             /\ run' = [r EXCEPT !.ctx = "ready", !.meta = input,
                                 !.text = IF input.kind = "full" THEN input.rev ELSE Nothing]
    BY <1>6, <2>3
  <2>4. CASE run' = [r EXCEPT !.ctx = "unready", !.meta = input]
    BY <1>6, <2>4
  <2> QED BY <1>7, <2>1, <2>2, <2>3, <2>4
<1>9. RunFields'
  BY <1>8 DEF ReviewInv, RunFields, Steady
<1>10. Sighted'
  BY <1>1, <1>5, <1>8 DEF ReviewInv, Sighted, Unread, UnderReview, Steady
<1>11. Contexted'
  <2>1. CASE run'.ctx = "unready"
    BY <1>8, <2>1 DEF Contexted
  <2>2. CASE run'.ctx = "none"
    BY <1>5, <1>8, <2>2 DEF ReviewInv, Contexted, Rests, Steady
  <2>3. CASE run'.ctx = "ready"
    BY <1>8, <2>3 DEF Contexted, Rests, Delivered, Steady
  <2> QED BY <1>8, <2>1, <2>2, <2>3
<1>12. Loud' /\ FailsLoudly'
  BY <1>8 DEF Loud, FailsLoudly
<1> QED BY <1>2, <1>3, <1>8, <1>9, <1>10, <1>11, <1>12 DEF ReviewInv

LEMMA TreeKeeps == ASSUME ReviewAssumption, ReviewInv, Tree PROVE ReviewInv'
<1> USE DEF Tree, RunAt, Goes, Quietly, Fails, Fine, Becomes, prworld
<1> USE ReviewBounds
<1>1. RunShape'
  BY DEF ReviewInv, RunShape
<1>2. RunFields'
  BY DEF ReviewInv, RunShape, RunFields, PullTyped, Pushed, Bases, Verdicts, Terminal
<1>3. PullTyped'
  BY DEF ReviewInv, RunFields, PullTyped, Pushed, Bases
<1>4. Sighted'
  BY DEF ReviewInv, RunShape, RunFields, PullTyped, Sighted, Unread, UnderReview, Bases, Terminal
<1>5. Contexted'
  BY DEF ReviewInv, RunShape, Contexted, Rests, Terminal
<1>6. Left'
  BY LeftStays DEF ReviewInv, PullTyped, Bases
<1>7. Loud'
  BY DEF ReviewInv, RunShape, RunFields, Loud, CommentStands, Verdicts, Terminal
<1>8. FailsLoudly'
  BY DEF ReviewInv, RunShape, RunFields, Loud, FailsLoudly, CommentStands, Verdicts, Terminal
<1> QED BY <1>1, <1>2, <1>3, <1>4, <1>5, <1>6, <1>7, <1>8 DEF ReviewInv

LEMMA LostKeeps == ASSUME ReviewAssumption, ReviewInv, Lost PROVE ReviewInv'
<1> SUFFICES ASSUME ~Raises PROVE ReviewInv'
  BY RaisesKeeps DEF Lost, RunAt
<1>1. UNCHANGED <<prhead, base, input, granted, have, tracking, runs, saved, comments, mishaps>>
  BY DEF Lost, RunAt, prworld, Quietly, Becomes, Exits, Fine
<1>2. PullTyped' /\ base \in Nat
  BY <1>1, ReviewBounds DEF ReviewInv, PullTyped, Bases
<1>3. Left'
  BY <1>1, <1>2, LeftStays
<1>4. CASE Exits(1)
  BY <1>1, <1>2, <1>3, <1>4, ExitKeeps
<1>5. CASE run.pc = "lost" /\ Becomes([run EXCEPT !.pc = "save", !.verdict = "STALE", !.end = prhead,
                                             !.meta = Nothing, !.text = Nothing])
  <2>1. /\ RunShape' /\ Steady /\ run'.pc = "save" /\ run'.rev = run.rev
        /\ run'.pinned = run.pinned /\ run'.seen = run.seen
        /\ run'.ctx = run.ctx /\ run'.verdict = "STALE"
    BY <1>5 DEF ReviewInv, Becomes, RunShape, Steady
  <2>2. RunFields'
    BY <2>1 DEF ReviewInv, RunFields, Steady, Verdicts
  <2>3. Sighted'
    BY <1>1, <1>5, <2>1 DEF ReviewInv, Sighted, Unread, UnderReview, Steady
  <2>4. Contexted' /\ Loud' /\ FailsLoudly'
    BY <2>1 DEF Contexted, Loud, FailsLoudly, Terminal
  <2> QED BY <1>2, <1>3, <2>1, <2>2, <2>3, <2>4 DEF ReviewInv
<1> QED BY <1>4, <1>5 DEF Lost, RunAt

LEMMA ReviewKeeps == ASSUME ReviewAssumption, ReviewInv, Review PROVE ReviewInv'
<1> SUFFICES ASSUME ~Raises PROVE ReviewInv'
  BY RaisesKeeps DEF Review, RunAt
<1>1. UNCHANGED <<prhead, base, input, granted, have, tracking, runs, saved, comments, mishaps>>
  BY DEF Review, RunAt, prworld, Quietly, Becomes, Fine
<1>2. PullTyped' /\ base \in Nat
  BY <1>1, ReviewBounds DEF ReviewInv, PullTyped, Bases
<1>3. Left'
  BY <1>1, <1>2, LeftStays
<1>4. run.pc = "review" /\ run.pinned /\ run.seen = {run.rev}
  BY DEF ReviewInv, Review, RunAt, Sighted, UnderReview
<1>5. \/ run' = [run EXCEPT !.seen = run.seen \cup {run.rev}, !.pc = "structure", !.held = TRUE]
      \/ run' = [run EXCEPT !.pc = "recheck", !.ctx = "unready"]
  BY <1>4 DEF Review, Becomes, HeldRun, Read, Base, ReviewInv, RunShape
<1>6. /\ RunShape' /\ Steady /\ run'.pc \in {"structure", "recheck"} /\ run'.rev = run.rev
      /\ run'.pinned = run.pinned /\ run'.seen = {run.rev} /\ run'.verdict = run.verdict
      /\ run'.asked = run.asked /\ run'.meta = run.meta /\ run'.text = run.text
      /\ run'.ctx \in {run.ctx, "unready"}
  <2> USE DEF ReviewInv, RunShape, Steady
  <2>1. CASE run' = [run EXCEPT !.seen = run.seen \cup {run.rev}, !.pc = "structure", !.held = TRUE]
    BY <1>4, <2>1
  <2>2. CASE run' = [run EXCEPT !.pc = "recheck", !.ctx = "unready"]
    BY <1>4, <2>2
  <2> QED BY <1>5, <2>1, <2>2
<1>7. RunFields'
  BY <1>6 DEF ReviewInv, RunFields, Steady
<1>8. Sighted'
  BY <1>1, <1>4, <1>6 DEF ReviewInv, Sighted, Unread, UnderReview, Steady
<1>9. Contexted'
  BY <1>4, <1>6 DEF ReviewInv, Contexted, Rests, Steady
<1>10. Loud' /\ FailsLoudly'
  BY <1>6 DEF Loud, FailsLoudly
<1> QED BY <1>2, <1>3, <1>6, <1>7, <1>8, <1>9, <1>10 DEF ReviewInv

LEMMA StructureKeeps == ASSUME ReviewAssumption, ReviewInv, Structure PROVE ReviewInv'
<1> SUFFICES ASSUME ~Raises PROVE ReviewInv'
  BY RaisesKeeps DEF Structure, RunAt
<1>1. /\ UNCHANGED <<prhead, base, input, granted, have, tracking, runs, saved, comments, mishaps>>
      /\ run.pc = "structure"
  BY DEF Structure, RunAt, prworld, Quietly, Becomes, Fine
<1>2. PullTyped' /\ base \in Nat
  BY <1>1, ReviewBounds DEF ReviewInv, PullTyped, Bases
<1>3. Left'
  BY <1>1, <1>2, LeftStays
<1>4. PICK v \in Terminal \cup {"UNKNOWN"}, fixture \in BOOLEAN :
        run' = [run EXCEPT !.pc = "recheck", !.verdict = v, !.fixture = fixture]
  BY DEF Structure, Becomes
<1>5. /\ RunShape' /\ Steady /\ run'.pc = "recheck" /\ run'.rev = run.rev /\ run'.pinned = run.pinned
      /\ run'.seen = run.seen /\ run'.verdict = v /\ run'.asked = run.asked
      /\ run'.meta = run.meta /\ run'.text = run.text /\ run'.ctx = run.ctx
  BY <1>4 DEF ReviewInv, RunShape, Steady
<1>6. RunFields'
  BY <1>5 DEF ReviewInv, RunFields, Steady, Terminal, Verdicts
<1>7. Sighted'
  BY <1>1, <1>5 DEF ReviewInv, Sighted, Unread, UnderReview, Steady
<1>8. Contexted'
  BY <1>1, <1>5 DEF ReviewInv, Contexted, Rests, Steady
<1>9. Loud' /\ FailsLoudly'
  BY <1>5 DEF Loud, FailsLoudly
<1> QED BY <1>2, <1>3, <1>5, <1>6, <1>7, <1>8, <1>9 DEF ReviewInv

LEMMA RecheckKeeps == ASSUME ReviewAssumption, ReviewInv, Recheck PROVE ReviewInv'
<1> USE DEF RunAt
<1> SUFFICES ASSUME ~Raises PROVE ReviewInv'
  BY RaisesKeeps DEF Recheck
<1> USE DEF Recheck, RunAt, Becomes, Quietly, Fine, Exits, Fails, FreshRun, prworld
<1> USE ReviewBounds
<1>1. RunShape'
  BY DEF ReviewInv, RunShape
<1>2. RunFields'
  BY DEF ReviewInv, RunShape, RunFields, PullTyped, Pushed, Bases, Verdicts, Terminal
<1>3. PullTyped'
  BY DEF ReviewInv, RunFields, PullTyped, Pushed, Bases
<1>4. Sighted'
  BY DEF ReviewInv, RunShape, RunFields, PullTyped, Sighted, Unread, UnderReview, Bases, Terminal
<1>5. Contexted'
  <2>1. /\ run.pc = "recheck" /\ run'.pc = "finish" /\ Steady
        /\ run'.asked = run.asked /\ run'.meta = run.meta /\ run'.text = run.text
        /\ run'.ctx = run.ctx
    BY DEF ReviewInv, RunShape, Steady
  <2> HIDE DEF Recheck
  <2> QED BY <2>1 DEF ReviewInv, Contexted, Rests, Steady
<1>6. Left'
  BY LeftStays DEF ReviewInv, PullTyped, Bases
<1>7. Loud'
  BY DEF ReviewInv, RunShape, RunFields, Loud, CommentStands, Verdicts, Terminal
<1>8. FailsLoudly'
  BY DEF ReviewInv, RunShape, RunFields, Loud, FailsLoudly, CommentStands, Verdicts, Terminal
<1> QED BY <1>1, <1>2, <1>3, <1>4, <1>5, <1>6, <1>7, <1>8 DEF ReviewInv

LEMMA FinishKeeps == ASSUME ReviewAssumption, ReviewInv, Finish PROVE ReviewInv'
<1>1. /\ UNCHANGED <<prhead, base, input, granted, have, tracking, runs, saved, comments>>
      /\ mishaps' = mishaps \/ (mishaps < MaxMishaps /\ mishaps' = mishaps + 1)
  BY DEF Finish, RunAt, prworld, Quietly, Closes, Becomes, Fine, Fails
<1>2. PullTyped' /\ base \in Nat
  BY <1>1, ReviewBounds DEF ReviewInv, PullTyped, Bases
<1>3. Left'
  BY <1>1, <1>2, LeftStays
<1>4. run.pc = "finish"
  BY DEF Finish, RunAt
<1>5. PICK ok \in BOOLEAN : Closes(ok) /\ (ok => run.ctx = "ready")
  BY DEF Finish, Confirmed
<1>6. /\ RunShape' /\ Steady /\ run'.rev = run.rev /\ run'.pinned = run.pinned
      /\ run'.seen = run.seen /\ run'.verdict = Concluded(ok) /\ run'.end = run.end
      /\ run'.asked = run.asked /\ run'.meta = run.meta /\ run'.text = run.text
      /\ run'.ctx = run.ctx
      /\ run'.pc = IF run.mode = "dry" THEN "close" ELSE "save"
  BY <1>5 DEF ReviewInv, Closes, Becomes, RunShape, Steady
<1>7. /\ Concluded(ok) \in Verdicts
      /\ Concluded(ok) \in Terminal => run.end = run.head /\ run.ctx # "unready"
  BY <1>5 DEF ReviewInv, Concluded, RunFields, Verdicts, Terminal
<1>8. RunFields'
  BY <1>6, <1>7 DEF ReviewInv, RunFields, Steady
<1>9. Sighted'
  BY <1>1, <1>4, <1>6 DEF ReviewInv, Sighted, Unread, UnderReview, Steady
<1>10. Contexted'
  BY <1>4, <1>6, <1>7 DEF ReviewInv, Contexted, Rests, Steady
<1>11. Loud' /\ FailsLoudly'
  BY <1>6 DEF Loud, FailsLoudly, Steady
<1> QED BY <1>2, <1>3, <1>6, <1>8, <1>9, <1>10, <1>11 DEF ReviewInv

LEMMA SaveKeeps == ASSUME ReviewAssumption, ReviewInv, Save PROVE ReviewInv'
<1> USE DEF Save, RunAt, Goes, Fails, Fine, Becomes, prworld
<1> USE ReviewBounds
<1>1. RunShape'
  BY DEF ReviewInv, RunShape
<1>2. RunFields'
  BY DEF ReviewInv, RunShape, RunFields, PullTyped, Pushed, Bases, Verdicts, Terminal
<1>3. PullTyped'
  BY DEF ReviewInv, RunFields, PullTyped, Pushed, Bases
<1>4. Sighted'
  BY DEF ReviewInv, RunShape, RunFields, PullTyped, Sighted, Unread, UnderReview, Bases, Terminal
<1>5. Contexted'
  BY DEF ReviewInv, RunShape, Contexted, Rests, Terminal
<1>a. Sound(Body(run.verdict)) /\ Sighting(Body(run.verdict), base)
  BY BodySound
<1>6. Left'
  BY <1>a DEF ReviewInv, Left
<1>7. Loud'
  BY DEF ReviewInv, RunShape, RunFields, Loud, CommentStands, Verdicts, Terminal, Silent,
         Quarantined
<1>8. FailsLoudly'
  BY DEF ReviewInv, RunShape, RunFields, Loud, FailsLoudly, CommentStands, Verdicts, Terminal
<1> QED BY <1>1, <1>2, <1>3, <1>4, <1>5, <1>6, <1>7, <1>8 DEF ReviewInv

\* The final verdict of a run is its own, or unknown, and one of a head is of no test.
LEMMA FinalSound ==
  ASSUME ReviewAssumption, ReviewInv, run.pc = "post"
  PROVE  /\ Sound(Body(Final)) /\ Sighting(Body(Final), base)
         /\ Body(Final).by = run.n /\ Body(Final).head = run.head /\ Body(Final).verdict = Final
         /\ Final \in Terminal => Body(Final).clean
         /\ Final \in Verdicts
<1>1. /\ Final \in Terminal => Final = run.verdict /\ ~Quarantined
      /\ Final \in Verdicts
  BY DEF Final, Terminal, Verdicts, ReviewInv, RunFields
<1> QED BY <1>1, BodySound

LEMMA PostKeeps == ASSUME ReviewAssumption, ReviewInv, Post PROVE ReviewInv'
<1>1. /\ UNCHANGED <<prhead, base, input, granted, have, tracking, runs, saved, mishaps>>
      /\ comments' = comments \cup {Body(Final)} /\ run.pc = "post"
  BY DEF Post, RunAt, prworld, Becomes, Fine
<1>2. PullTyped'
  BY <1>1, ReviewBounds DEF ReviewInv, PullTyped
<1>3. Left'
  BY <1>1, FinalSound DEF ReviewInv, Left
<1>4. /\ RunShape' /\ Steady /\ run'.pc = "bind" /\ run'.rev = run.rev
      /\ run'.pinned = run.pinned /\ run'.seen = run.seen
      /\ run'.ctx = run.ctx /\ run'.verdict = Final
  BY DEF Post, ReviewInv, Becomes, RunShape, Steady
<1>5. RunFields'
  BY <1>1, <1>4, FinalSound DEF ReviewInv, RunFields, Steady
<1>6. Sighted'
  BY <1>1, <1>4 DEF ReviewInv, Sighted, Unread, UnderReview, Steady
<1>7. Loud'
  BY <1>1, <1>4, FinalSound DEF Loud, CommentStands, Steady
<1>8. Contexted' /\ FailsLoudly'
  BY <1>4 DEF Contexted, FailsLoudly
<1> QED BY <1>2, <1>3, <1>4, <1>5, <1>6, <1>7, <1>8 DEF ReviewInv

LEMMA PostFailsKeeps == ASSUME ReviewAssumption, ReviewInv, PostFails PROVE ReviewInv'
<1> SUFFICES ASSUME ~Raises PROVE ReviewInv'
  BY RaisesKeeps DEF PostFails, RunAt
<1>1. /\ UNCHANGED <<prhead, base, input, granted, have, tracking, runs, saved>>
      /\ comments' = comments \cup {Body(Final)} /\ run.pc = "post"
      /\ mishaps < MaxMishaps /\ mishaps' = mishaps + 1
  BY DEF PostFails, RunAt, prworld, Exits, Becomes, Fails
<1>2. PullTyped'
  BY <1>1, ReviewBounds DEF ReviewInv, PullTyped
<1>3. Left'
  BY <1>1, FinalSound DEF ReviewInv, Left
<1>4. Exits(1)
  BY DEF PostFails
<1> QED BY <1>1, <1>2, <1>3, <1>4, ExitKeeps

LEMMA BindKeeps == ASSUME ReviewAssumption, ReviewInv, Bind PROVE ReviewInv'
<1> SUFFICES ASSUME ~Raises PROVE ReviewInv'
  BY RaisesKeeps DEF Bind, RunAt
<1>1. /\ UNCHANGED <<prhead, base, input, granted, have, tracking, runs, saved, mishaps>>
      /\ comments' = {IF c.by = run.n THEN Bound(c) ELSE c : c \in comments} /\ run.pc = "bind"
  BY DEF Bind, RunAt, prworld, Goes, Becomes, Fine
<1>2. PullTyped'
  BY <1>1, ReviewBounds DEF ReviewInv, PullTyped
<1>3. \A d \in comments :
        /\ Sound(Bound(d)) /\ Sighting(Bound(d), base) /\ Bound(d).verdict = d.verdict
        /\ Bound(d).clean = d.clean /\ Bound(d).by = d.by /\ Bound(d).head = d.head
  BY BoundSound DEF ReviewInv, Left
<1>4. \A c \in comments' : c \in comments \/ \E d \in comments : c = Bound(d)
  BY <1>1
<1>5. Left'
  BY <1>1, <1>3, <1>4 DEF ReviewInv, Left
<1>6. ASSUME CommentStands(run.n, run.head)
      PROVE  \E c \in comments' : c.by = run.n /\ c.verdict # "UNKNOWN" /\ c.head = run.head
  <2>1. PICK c \in comments : c.by = run.n /\ c.verdict # "UNKNOWN" /\ c.head = run.head
    BY <1>6 DEF CommentStands
  <2>2. Bound(c) \in comments'
    BY <1>1, <2>1
  <2> QED BY <1>3, <2>1, <2>2
<1>7. /\ RunShape' /\ Steady /\ run'.pc = "close" /\ run'.rev = run.rev
      /\ run'.pinned = run.pinned /\ run'.seen = run.seen
      /\ run'.ctx = run.ctx /\ run'.verdict = run.verdict
  BY DEF Bind, ReviewInv, Goes, Becomes, RunShape, Steady
<1>8. RunFields'
  BY <1>7 DEF ReviewInv, RunFields, Steady
<1>9. Sighted'
  BY <1>1, <1>7 DEF ReviewInv, Sighted, Unread, UnderReview, Steady
<1>10. Loud'
  BY <1>1, <1>6, <1>7 DEF ReviewInv, Loud, CommentStands, Steady
<1>11. Contexted' /\ FailsLoudly'
  BY <1>7 DEF Contexted, FailsLoudly
<1> QED BY <1>2, <1>5, <1>7, <1>8, <1>9, <1>10, <1>11 DEF ReviewInv

LEMMA CloseKeeps == ASSUME ReviewAssumption, ReviewInv, Close PROVE ReviewInv'
<1>1. /\ UNCHANGED <<prhead, base, input, granted, have, tracking, runs, saved, comments, mishaps>>
      /\ run.pc = "close"
  BY DEF Close, RunAt, prworld, Quietly, Exits, Becomes, Fine
<1>2. PullTyped' /\ base \in Nat
  BY <1>1, ReviewBounds DEF ReviewInv, PullTyped, Bases
<1>3. Left'
  BY <1>1, <1>2, LeftStays
<1>4. PICK x \in {0, 2} : Exits(x) /\ (x = 0 => run.verdict # "UNKNOWN")
  BY DEF Close, Code
<1>5. x # 0 \/ run.mode # "post" \/ CommentStands(run.n, run.head)'
  <2>1. x = 0 /\ run.mode = "post" =>
          \E c \in comments : c.by = run.n /\ c.verdict # "UNKNOWN" /\ c.head = run.head
    BY <1>1, <1>4 DEF ReviewInv, Loud, CommentStands
  <2>2. run'.n = run.n /\ run'.head = run.head
    BY <1>4 DEF Exits, Becomes, FreshRun
  <2> QED BY <1>1, <2>1, <2>2 DEF CommentStands
<1> QED BY <1>1, <1>2, <1>3, <1>4, <1>5, ExitKeeps

LEMMA RepostKeeps == ASSUME ReviewAssumption, ReviewInv, Repost PROVE ReviewInv'
<1> USE DEF Repost, prworld
<1> USE ReviewBounds
<1>0. run' = run
  OBVIOUS
<1>1. RunShape'
  BY DEF ReviewInv, RunShape
<1>2. RunFields'
  BY DEF ReviewInv, RunShape, RunFields, PullTyped, Pushed, Bases, Verdicts, Terminal
<1>3. PullTyped'
  BY DEF ReviewInv, RunFields, PullTyped, Pushed, Bases
<1>4. Sighted'
  BY DEF ReviewInv, RunShape, RunFields, PullTyped, Sighted, Unread, UnderReview, Bases, Terminal
<1>5. Contexted'
  BY DEF ReviewInv, RunShape, Contexted, Rests, Terminal
<1>a. PICK a \in saved : a.clean /\ comments' = comments \cup {Bound(a)}
  BY DEF Repostable
<1>b. Sound(Bound(a)) /\ Sighting(Bound(a), base) /\ Bound(a).clean = a.clean
  BY BoundSound DEF ReviewInv, Left
<1>6. Left'
  BY <1>a, <1>b DEF ReviewInv, Left
<1>7. Loud'
  BY <1>a DEF ReviewInv, RunShape, RunFields, Loud, CommentStands, Verdicts, Terminal
<1>8. FailsLoudly'
  BY <1>a DEF ReviewInv, RunShape, RunFields, Loud, FailsLoudly, CommentStands, Verdicts, Terminal
<1> QED BY <1>1, <1>2, <1>3, <1>4, <1>5, <1>6, <1>7, <1>8 DEF ReviewInv

LEMMA PushHeadKeeps == ASSUME ReviewAssumption, ReviewInv, PushHead PROVE ReviewInv'
<1> USE DEF PushHead, Aside
<1> USE ReviewBounds
<1>0. run' = run
  OBVIOUS
<1>1. RunShape'
  BY DEF ReviewInv, RunShape
<1>2. RunFields'
  BY DEF ReviewInv, RunShape, RunFields, PullTyped, Pushed, Bases, Verdicts, Terminal
<1>3. PullTyped'
  BY DEF ReviewInv, RunFields, PullTyped, Pushed, Bases
<1>4. Sighted'
  BY DEF ReviewInv, RunShape, RunFields, PullTyped, Sighted, Unread, UnderReview, Bases, Terminal
<1>5. Contexted'
  BY DEF ReviewInv, RunShape, Contexted, Rests, Terminal
<1>6. Left'
  BY LeftStays DEF ReviewInv, PullTyped, Bases
<1>7. Loud'
  BY DEF ReviewInv, RunShape, RunFields, Loud, CommentStands, Verdicts, Terminal
<1>8. FailsLoudly'
  BY DEF ReviewInv, RunShape, RunFields, Loud, FailsLoudly, CommentStands, Verdicts, Terminal
<1> QED BY <1>1, <1>2, <1>3, <1>4, <1>5, <1>6, <1>7, <1>8 DEF ReviewInv

LEMMA MergeKeeps == ASSUME ReviewAssumption, ReviewInv, Merge PROVE ReviewInv'
<1> USE DEF Merge, Aside
<1> USE ReviewBounds
<1>0. run' = run
  OBVIOUS
<1>1. RunShape'
  BY DEF ReviewInv, RunShape
<1>2. RunFields'
  BY DEF ReviewInv, RunShape, RunFields, PullTyped, Pushed, Bases, Verdicts, Terminal
<1>3. PullTyped'
  BY DEF ReviewInv, RunFields, PullTyped, Pushed, Bases
<1>4. Sighted'
  BY DEF ReviewInv, RunShape, RunFields, PullTyped, Sighted, Unread, UnderReview, Bases, Terminal
<1>5. Contexted'
  BY DEF ReviewInv, RunShape, Contexted, Rests, Terminal
<1>6. Left'
  BY LeftStays DEF ReviewInv, PullTyped, Bases
<1>7. Loud'
  BY DEF ReviewInv, RunShape, RunFields, Loud, CommentStands, Verdicts, Terminal
<1>8. FailsLoudly'
  BY DEF ReviewInv, RunShape, RunFields, Loud, FailsLoudly, CommentStands, Verdicts, Terminal
<1> QED BY <1>1, <1>2, <1>3, <1>4, <1>5, <1>6, <1>7, <1>8 DEF ReviewInv

LEMMA FetchElsewhereKeeps == ASSUME ReviewAssumption, ReviewInv, FetchElsewhere PROVE ReviewInv'
<1> USE DEF FetchElsewhere, Aside, prworld
<1> USE ReviewBounds
<1>0. run' = run
  OBVIOUS
<1>1. RunShape'
  BY DEF ReviewInv, RunShape
<1>2. RunFields'
  BY DEF ReviewInv, RunShape, RunFields, PullTyped, Pushed, Bases, Verdicts, Terminal
<1>3. PullTyped'
  BY DEF ReviewInv, RunFields, PullTyped, Pushed, Bases
<1>4. Sighted'
  BY DEF ReviewInv, RunShape, RunFields, PullTyped, Sighted, Unread, UnderReview, Bases, Terminal
<1>5. Contexted'
  BY DEF ReviewInv, RunShape, Contexted, Rests, Terminal
<1>6. Left'
  BY LeftStays DEF ReviewInv, PullTyped, Bases
<1>7. Loud'
  BY DEF ReviewInv, RunShape, RunFields, Loud, CommentStands, Verdicts, Terminal
<1>8. FailsLoudly'
  BY DEF ReviewInv, RunShape, RunFields, Loud, FailsLoudly, CommentStands, Verdicts, Terminal
<1> QED BY <1>1, <1>2, <1>3, <1>4, <1>5, <1>6, <1>7, <1>8 DEF ReviewInv

LEMMA DeclareKeeps == ASSUME ReviewAssumption, ReviewInv, Declare PROVE ReviewInv'
<1> USE DEF Declare, Aside
<1> USE ReviewBounds
<1>0. run' = run
  OBVIOUS
<1>1. RunShape'
  BY DEF ReviewInv, RunShape
<1>2. RunFields'
  BY DEF ReviewInv, RunShape, RunFields, PullTyped, Pushed, Bases, Verdicts, Terminal
<1>3. PullTyped'
  BY DEF ReviewInv, RunFields, PullTyped, Pushed, Bases
<1>4. Sighted'
  BY DEF ReviewInv, RunShape, RunFields, PullTyped, Sighted, Unread, UnderReview, Bases, Terminal
<1>5. Contexted'
  BY DEF ReviewInv, RunShape, Contexted, Rests, Terminal
<1>6. Left'
  BY LeftStays DEF ReviewInv, PullTyped, Bases
<1>7. Loud'
  BY DEF ReviewInv, RunShape, RunFields, Loud, CommentStands, Verdicts, Terminal
<1>8. FailsLoudly'
  BY DEF ReviewInv, RunShape, RunFields, Loud, FailsLoudly, CommentStands, Verdicts, Terminal
<1> QED BY <1>1, <1>2, <1>3, <1>4, <1>5, <1>6, <1>7, <1>8 DEF ReviewInv

LEMMA RevokeContextKeeps == ASSUME ReviewAssumption, ReviewInv, RevokeContext PROVE ReviewInv'
<1> USE DEF RevokeContext, Aside
<1> USE ReviewBounds
<1>0. run' = run
  OBVIOUS
<1>1. RunShape'
  BY DEF ReviewInv, RunShape
<1>2. RunFields'
  BY DEF ReviewInv, RunShape, RunFields, PullTyped, Pushed, Bases, Verdicts, Terminal
<1>3. PullTyped'
  BY DEF ReviewInv, RunFields, PullTyped, Pushed, Bases
<1>4. Sighted'
  BY DEF ReviewInv, RunShape, RunFields, PullTyped, Sighted, Unread, UnderReview, Bases, Terminal
<1>5. Contexted'
  BY DEF ReviewInv, RunShape, Contexted, Rests, Terminal
<1>6. Left'
  BY LeftStays DEF ReviewInv, PullTyped, Bases
<1>7. Loud'
  BY DEF ReviewInv, RunShape, RunFields, Loud, CommentStands, Verdicts, Terminal
<1>8. FailsLoudly'
  BY DEF ReviewInv, RunShape, RunFields, Loud, FailsLoudly, CommentStands, Verdicts, Terminal
<1> QED BY <1>1, <1>2, <1>3, <1>4, <1>5, <1>6, <1>7, <1>8 DEF ReviewInv

LEMMA KilledKeeps == ASSUME ReviewAssumption, ReviewInv, Killed PROVE ReviewInv'
<1> USE DEF Killed, Fails, FreshRun, prworld
<1> USE ReviewBounds
<1>1. RunShape'
  BY DEF ReviewInv, RunShape
<1>2. RunFields'
  BY DEF ReviewInv, RunShape, RunFields, PullTyped, Pushed, Bases, Verdicts, Terminal
<1>3. PullTyped'
  BY DEF ReviewInv, RunFields, PullTyped, Pushed, Bases
<1>4. Sighted'
  BY DEF ReviewInv, RunShape, RunFields, PullTyped, Sighted, Unread, UnderReview, Bases, Terminal
<1>5. Contexted'
  BY DEF ReviewInv, RunShape, Contexted, Rests, Terminal
<1>6. Left'
  BY LeftStays DEF ReviewInv, PullTyped, Bases
<1>7. Loud'
  BY DEF ReviewInv, RunShape, RunFields, Loud, CommentStands, Verdicts, Terminal
<1>8. FailsLoudly'
  BY DEF ReviewInv, RunShape, RunFields, Loud, FailsLoudly, CommentStands, Verdicts, Terminal
<1> QED BY <1>1, <1>2, <1>3, <1>4, <1>5, <1>6, <1>7, <1>8 DEF ReviewInv

LEMMA ReviewStep == ASSUME ReviewAssumption, ReviewInv, [ReviewNext]_reviewVars PROVE ReviewInv'
<1>1. CASE Audit
  BY <1>1, FetchHeadKeeps, FetchBaseKeeps, PinKeeps, AuthorityKeeps, LineageKeeps, PrepareKeeps,
     TreeKeeps, LostKeeps, ReviewKeeps, StructureKeeps, RecheckKeeps, FinishKeeps, SaveKeeps,
     PostKeeps, PostFailsKeeps, BindKeeps, CloseKeeps DEF Audit
<1>2. CASE UNCHANGED reviewVars
  <2>1. /\ UNCHANGED <<prhead, base, input, granted, have, tracking, runs, saved, comments, mishaps>>
        /\ run' = run
    BY <1>2 DEF reviewVars, prworld
  <2> USE <2>1 DEF ReviewInv
  <2>2. RunShape'
    BY DEF RunShape
  <2>3. RunFields'
    BY DEF RunFields
  <2>4. PullTyped'
    BY DEF PullTyped
  <2>5. Sighted'
    BY DEF Sighted
  <2>6. Contexted'
    BY DEF Contexted, Rests
  <2>7. Left'
    BY DEF Left
  <2>8. Loud'
    BY DEF Loud, CommentStands
  <2>9. FailsLoudly'
    BY DEF FailsLoudly
  <2> QED BY <2>2, <2>3, <2>4, <2>5, <2>6, <2>7, <2>8, <2>9
<1>3. ASSUME ReviewNext, ~Audit PROVE ReviewInv'
  BY <1>3, BeginKeeps, RepostKeeps, PushHeadKeeps, MergeKeeps, FetchElsewhereKeeps, DeclareKeeps,
     RevokeContextKeeps, KilledKeeps DEF ReviewNext
<1> QED BY <1>1, <1>2, <1>3

\* The invariant of a review, for any revisions and bounds.
THEOREM ReviewInductive == ReviewAssumption => (ReviewSpec => []ReviewInv)
<1> SUFFICES ASSUME ReviewAssumption PROVE ReviewSpec => []ReviewInv
  OBVIOUS
<1>1. ReviewInit => ReviewInv
  <2> SUFFICES ASSUME ReviewInit PROVE ReviewInv
    OBVIOUS
  <2> USE DEF ReviewInit
  <2>1. RunShape
    BY DEF RunShape, FreshRun
  <2>2. RunFields /\ PullTyped
    BY ReviewBounds DEF RunFields, PullTyped, Pushed, Bases, Verdicts, FreshRun
  <2>3. Sighted /\ Contexted
    BY ReviewBounds DEF Sighted, Unread, UnderReview, Contexted, FreshRun, Bases
  <2>4. Left /\ Loud /\ FailsLoudly
    BY DEF Left, Loud, FailsLoudly, FreshRun
  <2> QED BY <2>1, <2>2, <2>3, <2>4 DEF ReviewInv
<1> QED BY <1>1, ReviewStep, PTL DEF ReviewSpec

\* A run is concluded on the context that stands at that step: only Finish
\* passes from there to saving, and it asked for the confirmation before.
LEMMA FinishStands ==
  ASSUME ReviewInv, [ReviewNext]_reviewVars
  PROVE  ConcludesOnStanding
<1> SUFFICES ASSUME run.pc = "finish", run'.pc = "save", run'.verdict \in Terminal, run.meta # Nothing
             PROVE  input = run.meta /\ (run.text # Nothing => run.text \in granted)
  BY DEF ConcludesOnStanding
<1>1. CASE Finish
  <2>1. PICK ok \in BOOLEAN : Closes(ok) /\ (ok => Confirmed)
    BY <1>1 DEF Finish, Confirmed
  <2>2. run'.verdict = Concluded(ok)
    BY <2>1 DEF ReviewInv, RunShape, Closes, Becomes
  <2>3. run.ctx # "none"
    BY DEF ReviewInv, Contexted
  <2>4. ok
    BY <2>2, <2>3 DEF Concluded, Terminal
  <2> QED BY <2>1, <2>4 DEF Confirmed
<1>2. CASE Begin \/ Killed
  BY <1>2 DEF Begin, Killed, FreshRun, Over
<1>3. CASE UNCHANGED reviewVars \/ Repost \/ PushHead \/ Merge \/ FetchElsewhere \/ Declare \/ RevokeContext
  <2>1. run' = run
    BY <1>3 DEF reviewVars, Repost, PushHead, Merge, FetchElsewhere, Declare, RevokeContext, Aside
  <2> QED BY <2>1
<1>4. CASE \/ FetchHead \/ FetchBase \/ Pin \/ Authority \/ Lineage \/ Prepare \/ Tree \/ Lost
           \/ Review \/ Structure \/ Recheck \/ Save \/ Post \/ PostFails \/ Bind \/ Close
  BY <1>4 DEF FetchHead, FetchBase, Pin, Authority, Lineage, Prepare, Tree, Lost, Review, Structure,
              Recheck, Save, Post, PostFails, Bind, Close, RunAt
<1> QED BY <1>1, <1>2, <1>3, <1>4 DEF ReviewNext, Audit

(* While heads are pushed, the base moves and context is declared again or *)
(* withdrawn: an audit reads one revision of the base, concludes on its    *)
(* own head and on the context that still stands, keeps private text out   *)
(* of what it publishes and reports no success without its comment         *)
(* (codex_audit_pr.py, context_audit.py).                                  *)
THEOREM GroundedReviews == ReviewAssumption => (ReviewSpec => ReviewsAreGrounded)
<1> SUFFICES ASSUME ReviewAssumption PROVE ReviewSpec => ReviewsAreGrounded
  OBVIOUS
<1>1. ReviewInv => ReviewTypeOK /\ OneRevision /\ VerdictIsGrounded /\ PrivateStaysPrivate
                    /\ FailsLoudly
  <2> HAVE ReviewInv
  <2>1. ReviewTypeOK /\ FailsLoudly
    BY DEF ReviewInv, RunFields, PullTyped, ReviewTypeOK
  <2>2. OneRevision
    BY DEF ReviewInv, Left, Sighting, OneRevision
  <2>3. VerdictIsGrounded
    BY DEF ReviewInv, Left, Sound, Rests, VerdictIsGrounded
  <2>4. PrivateStaysPrivate
    BY DEF ReviewInv, Left, Sound, PrivateStaysPrivate
  <2> QED BY <2>1, <2>2, <2>3, <2>4
<1>2. ReviewInv /\ [ReviewNext]_reviewVars => [ConcludesOnStanding]_reviewVars
  BY FinishStands
<1> QED BY <1>1, <1>2, ReviewInductive, PTL DEF ReviewSpec, ReviewsAreGrounded
=============================================================================
