------------------------------ MODULE Supervisor ------------------------------
(***************************************************************************)
(* The supervisor adapter of src/code_mower/supervisor.py with the v2      *)
(* checkpoint operations of supervisor_checkpoint.py: one durable          *)
(* reservation per tenant, repository and work, under which a decision     *)
(* runtime is asked, one builder is dispatched and resumed, and an         *)
(* independent review is requested, until completion or cancellation.      *)
(*                                                                         *)
(* Every operation holds the reservation's lock from its first read to its *)
(* last write, so operations follow one another; what interleaves with     *)
(* their steps is the builder, the review, the pull request, the clock,    *)
(* and their own end at any point.  A step is a durable write or an        *)
(* external call.  `mem` is the record an operation works on, `disk` the   *)
(* saved one; whatever makes an operation stop early (a crash, a lost      *)
(* answer, a failed check, a refused decision) loses `mem` and keeps       *)
(* `disk`: Abandon.  A v1 record is the case Answers = Fixes = 0,          *)
(* Reviews = 1.                                                            *)
(***************************************************************************)
EXTENDS Naturals, FiniteSets

CONSTANTS Heads,          \* heads the pull request of the work can have
          Keys,           \* request keys of clarify and fix
          RuntimeCalls,   \* the admitted limits
          Answers,
          Fixes,
          Reviews,
          Generations     \* bound: runtime generations, one per restart

ASSUME LimitAssumption ==
  /\ RuntimeCalls \in Nat /\ Answers \in Nat /\ Fixes \in Nat /\ Reviews \in Nat
  /\ Generations \in Nat \ {0}
  /\ "none" \notin Heads /\ "none" \notin Keys
  /\ IsFiniteSet(Keys)

VARIABLES
  disk,      \* the saved reservation
  mem,       \* the reservation as the running operation has changed it
  act,       \* the running operation, "none" when the lock is free
  pc,        \* where it is
  key,       \* its request key
  passed,    \* the review verdict its collection has read
  gen,       \* generation of the decision runtime
  expired,   \* the claim has run out, or its grant or lease was taken away
  life,      \* the builder: "none", "running", "waiting" for its user, "ended"
  head,      \* current head of the verified pull request, "none" before it
  verdict,   \* per head: "none", "running", "passed", "failed" or "cancelled"
  sent,      \* what has left: runtime calls, dispatches, messages, review requests
  late       \* the call whose answer was lost and which is still under way, or "none"

operation == <<act, pc, key, passed>>
world == <<gen, expired, life, head, verdict, late>>
vars == <<disk, mem, act, pc, key, passed, gen, expired, life, head, verdict,
          sent, late>>

Acts == {"admit", "renew", "handoff", "status", "result", "cancel", "clarify", "fix"}
Rounds == 0 .. Cardinality(Keys)
HeadOrNone == Heads \cup {"none"}

Record ==
  [admitted : BOOLEAN, claim : 0 .. Generations, calls : 0 .. RuntimeCalls,
   pending : {"none", "runtime", "dispatch", "cancel", "review", "clarify", "fix"},
   started : BOOLEAN, revoked : BOOLEAN, cancel : BOOLEAN,
   target : HeadOrNone, reviewTarget : HeadOrNone,
   round : Rounds, answers : 0 .. Answers, fixes : 0 .. Fixes, reviews : 0 .. Reviews,
   requests : [Keys -> {"new", "intent", "done"}],
   builder : {"none", "unknown", "running", "waiting", "ended"},
   reviewer : {"none", "active", "ended"},
   state : {"open", "complete", "cancelled"}]

NewRecord ==
  [admitted |-> FALSE, claim |-> 0, calls |-> 0, pending |-> "none",
   started |-> FALSE, revoked |-> FALSE, cancel |-> FALSE,
   target |-> "none", reviewTarget |-> "none",
   round |-> 0, answers |-> 0, fixes |-> 0, reviews |-> 0,
   requests |-> [k \in Keys |-> "new"],
   builder |-> "none", reviewer |-> "none", state |-> "open"]

TypeOK ==
  /\ disk \in Record /\ mem \in Record
  /\ act \in Acts \cup {"none"}
  /\ pc \in {"idle", "decide", "runtime", "decided", "dispatch", "dispatched",
             "cancelBuilder", "cancelReview", "cancelled", "observe", "observed",
             "request", "requested", "confirm", "resume", "send", "sent"}
  /\ key \in Keys \cup {"none"}
  /\ passed \in BOOLEAN
  /\ gen \in 1 .. Generations /\ expired \in BOOLEAN
  /\ life \in {"none", "running", "waiting", "ended"}
  /\ head \in HeadOrNone
  /\ verdict \in [Heads -> {"none", "running", "passed", "failed", "cancelled"}]
  /\ sent \in [calls : Nat, dispatch : Nat, messages : [Keys -> Nat],
               reviews : [Rounds -> Nat]]
  /\ late \in {"none", "dispatch", "request", "send"}

Init ==
  /\ disk = NewRecord /\ mem = NewRecord
  /\ act = "none" /\ pc = "idle" /\ key = "none" /\ passed = FALSE
  /\ gen = 1 /\ expired = FALSE
  /\ life = "none" /\ head = "none" /\ verdict = [h \in Heads |-> "none"]
  /\ sent = [calls |-> 0, dispatch |-> 0, messages |-> [k \in Keys |-> 0],
             reviews |-> [r \in Rounds |-> 0]]
  /\ late = "none"
-----------------------------------------------------------------------------
\* locked.write(record): the write is atomic and durable before the next step.
Write(r) == disk' = r /\ mem' = r

\* The change stays in the operation's copy until its next write.
Keep(r) == mem' = r /\ UNCHANGED disk

At(a, p) == act = a /\ pc = p

Goto(p) == pc' = p /\ UNCHANGED <<act, key, passed>>

Enter(a, k, p) == act' = a /\ key' = k /\ pc' = p /\ passed' = FALSE

\* The operation returns and the lock is free.
Return == act' = "none" /\ key' = "none" /\ pc' = "idle" /\ passed' = FALSE

\* A call to the builder or to the review broker leaves.
Leaving(call) ==
  CASE call = "dispatch" -> [sent EXCEPT !.dispatch = @ + 1]
    [] call = "send"     -> [sent EXCEPT !.messages[key] = @ + 1]
    [] call = "request"  -> [sent EXCEPT !.reviews[disk.round] = @ + 1]

\* What it does when it arrives.
Effect(call) ==
  IF call = "request"
  THEN verdict' = [verdict EXCEPT ![disk.reviewTarget] = "running"] /\ UNCHANGED life
  ELSE life' = "running" /\ UNCHANGED verdict

\* _check: the exact claim, not revoked, of this runtime generation, not
\* expired, and still authorized under the same lease.
Live == disk.claim = gen /\ ~disk.revoked /\ ~expired

\* The observation of the review runtime that audits the requested head.
WithReviewer(r, v) ==
  [r EXCEPT !.reviewer = CASE r.reviewTarget = "none" -> @
                           [] r.reviewTarget # "none" /\ v[r.reviewTarget] \in {"none", "running"} -> "active"
                           [] OTHER -> "ended"]

\* A pending marker stops every operation but the cancellation of an
\* unanswered decision, which cannot have delegated anything.
Blocked(a) == disk.pending # "none" /\ ~(a = "cancel" /\ disk.pending = "runtime")

MayBegin(a) == pc = "idle" /\ Live /\ ~Blocked(a)

\* _uncertain: the answer to a re-entry while a call is unaccounted for, and
\* to a request whose intent was saved and whose outcome was not.
Uncertain ==
  /\ pc = "idle" /\ Live /\ disk.pending # "none"
  /\ Write([disk EXCEPT !.state = "open"])
  /\ UNCHANGED <<operation, world, sent>>
-----------------------------------------------------------------------------
\* admit: the reservation is saved before the runtime is asked.
Admit ==
  /\ pc = "idle" /\ ~disk.admitted /\ ~expired
  /\ Write([disk EXCEPT !.admitted = TRUE])
  /\ Enter("admit", "none", "decide")
  /\ UNCHANGED <<world, sent>>

\* renew and handoff ask the runtime first.  A renewal is refused once the
\* work is cancelled, a handoff once it is handed off or cancelled.
NotHandedOff(a) == a = "handoff" => ~disk.started
MayAsk(a) == ~disk.cancel /\ (a = "handoff" => ~disk.started)

BeginDecision(a) ==
  /\ MayBegin(a) /\ MayAsk(a)
  /\ Enter(a, "none", "decide")
  /\ UNCHANGED <<disk, mem, world, sent>>

\* _decide: the call is charged and marked before it is made.
CallRemains(r) == r.calls <= RuntimeCalls
CallLeft(r) == r.calls < RuntimeCalls
Charged(r) == [r EXCEPT !.calls = @ + 1, !.pending = "runtime"]

ReserveCall ==
  /\ pc = "decide" /\ CallLeft(mem)
  /\ Write(Charged(mem))
  /\ Goto("runtime")
  /\ UNCHANGED <<world, sent>>

\* The runtime answers with a valid decision, and the mark is cleared.
Decide ==
  /\ pc = "runtime"
  /\ sent' = [sent EXCEPT !.calls = @ + 1]
  /\ Write([mem EXCEPT !.pending = "none"])
  /\ Goto("decided")
  /\ UNCHANGED world

\* The runtime was asked and its answer is lost or invalid.
DecideFails ==
  /\ pc = "runtime"
  /\ sent' = [sent EXCEPT !.calls = @ + 1]
  /\ mem' = disk
  /\ Return
  /\ UNCHANGED <<disk, world>>

\* admit, the decision was to accept: the claim is issued.
Accept ==
  /\ At("admit", "decided") /\ ~expired
  /\ Write([mem EXCEPT !.claim = gen])
  /\ Return
  /\ UNCHANGED <<world, sent>>

\* renew: only the expiry moves, and expiry may come at any time here.
Renew ==
  /\ At("renew", "decided") /\ Live
  /\ Write(mem)
  /\ Return
  /\ UNCHANGED <<world, sent>>
-----------------------------------------------------------------------------
\* handoff, the decision was to dispatch: the intent is saved first.
DispatchIntent(r) == [r EXCEPT !.pending = "dispatch", !.builder = "unknown", !.state = "open"]

ReserveDispatch ==
  /\ At("handoff", "decided") /\ Live
  /\ Write(DispatchIntent(mem))
  /\ Goto("dispatch")
  /\ UNCHANGED <<world, sent>>

Dispatch ==
  /\ pc = "dispatch"
  /\ Effect(pc) /\ sent' = Leaving(pc)
  /\ Goto("dispatched")
  /\ UNCHANGED <<disk, mem, gen, expired, head, late>>

Dispatched ==
  /\ pc = "dispatched" /\ Live
  /\ Write([mem EXCEPT !.started = TRUE, !.pending = "none", !.builder = life])
  /\ Return
  /\ UNCHANGED <<world, sent>>
-----------------------------------------------------------------------------
\* cancel: saved before anything is stopped, and only once.
ReserveCancel ==
  /\ MayBegin("cancel") /\ ~disk.cancel
  /\ Write([disk EXCEPT !.cancel = TRUE, !.pending = "cancel", !.state = "open"])
  /\ Enter("cancel", "none", IF disk.started THEN "cancelBuilder" ELSE "cancelled")
  /\ UNCHANGED <<world, sent>>

\* The builder may exit at once, later or never: accepting is not exiting.
CancelBuilder ==
  /\ pc = "cancelBuilder"
  /\ life' \in {life, "ended"}
  /\ Keep([mem EXCEPT !.builder = life'])
  /\ Goto(IF mem.reviewTarget = "none" THEN "cancelled" ELSE "cancelReview")
  /\ UNCHANGED <<gen, expired, head, verdict, sent, late>>

CancelReview ==
  /\ pc = "cancelReview" /\ Live
  /\ verdict' \in {verdict} \cup
       {[verdict EXCEPT ![h] = "cancelled"] :
          h \in {g \in Heads : g = mem.reviewTarget /\ verdict[g] = "running"}}
  /\ Keep(WithReviewer(mem, verdict'))
  /\ Goto("cancelled")
  /\ UNCHANGED <<gen, expired, life, head, sent, late>>

\* _cancel_status: cancelled only when both runtimes never started or ended.
Exited(r) == r.builder \in {"none", "ended"} /\ r.reviewer \in {"none", "ended"}
CancelStatus(r) == [r EXCEPT !.state = IF Exited(r) THEN "cancelled" ELSE "open"]

Cancelled ==
  /\ pc = "cancelled" /\ Live
  /\ Write(CancelStatus([mem EXCEPT !.pending = "none"]))
  /\ Return
  /\ UNCHANGED <<world, sent>>
-----------------------------------------------------------------------------
\* status and result: the old verdict is withdrawn before the refresh.
TargetWithdrawn(r) == [r EXCEPT !.target = "none"]
Withdrawn(r) == [r EXCEPT !.target = "none", !.state = "open"]

Refresh(a) ==
  /\ MayBegin(a) /\ disk.started
  /\ Write(Withdrawn(disk))
  /\ Enter(a, "none", "observe")
  /\ UNCHANGED <<world, sent>>

\* The builder is observed; result also verifies the pull request, whose
\* target is missing while the work has no verified head.
Observe ==
  /\ pc = "observe"
  /\ \E t \in {"none"} \cup (IF act = "result" THEN {head} ELSE {}) :
       Keep([mem EXCEPT !.builder = life, !.target = t])
  /\ Goto("observed")
  /\ UNCHANGED <<world, sent>>

\* status returns what it saw; so does a result with nothing to review yet.
Ready(r) == r.target # "none" /\ r.builder = "ended"

Observed ==
  /\ pc = "observed" /\ Live /\ ~mem.cancel
  /\ act = "status" \/ ~Ready(mem)
  /\ Write(mem)
  /\ Return
  /\ UNCHANGED <<world, sent>>

\* After a cancellation a refresh may find both runtimes gone.
ObservedCancelled ==
  /\ pc = "observed" /\ Live /\ mem.cancel
  /\ Write(CancelStatus(WithReviewer(mem, verdict)))
  /\ Return
  /\ UNCHANGED <<world, sent>>

\* _collect up to its decision: the requested review must be of the target.
Collect ==
  /\ At("result", "observed") /\ Live /\ ~mem.cancel /\ Ready(mem)
  /\ mem.reviewTarget \in {"none", mem.target}
  /\ Keep(WithReviewer(mem, verdict))
  /\ passed' = (mem.reviewTarget # "none" /\ verdict[mem.target] = "passed")
  /\ pc' = "decide"
  /\ UNCHANGED <<act, key, world, sent>>

\* The builder is observed again after the runtime's decision.
Unmoved == head = mem.target /\ life = "ended"

\* The decision was to review: one request a round, within the allowance.
MayReview(r) == r.reviewTarget = "none" /\ r.reviews < Reviews

ReserveReview ==
  /\ At("result", "decided") /\ Live /\ Unmoved /\ MayReview(mem)
  /\ Write([mem EXCEPT !.reviews = @ + 1, !.pending = "review", !.reviewTarget = mem.target])
  /\ Goto("request")
  /\ UNCHANGED <<world, sent>>

RequestReview ==
  /\ pc = "request"
  /\ Effect(pc) /\ sent' = Leaving(pc)
  /\ Goto("requested")
  /\ UNCHANGED <<disk, mem, gen, expired, head, late>>

Requested ==
  /\ pc = "requested" /\ Live
  /\ Write([mem EXCEPT !.pending = "none", !.reviewer = "active"])
  /\ Return
  /\ UNCHANGED <<world, sent>>

\* The decision was to complete: the head and the builder are read again,
\* then the review, before the verdict is saved.
ConfirmHead ==
  /\ At("result", "decided") /\ Live /\ passed /\ Unmoved
  /\ Goto("confirm")
  /\ UNCHANGED <<disk, mem, world, sent>>

Complete ==
  /\ pc = "confirm" /\ Live /\ verdict[mem.target] = "passed"
  /\ Write([mem EXCEPT !.state = "complete"])
  /\ Return
  /\ UNCHANGED <<world, sent>>

\* The decision was to wait, or for the owner to act.
Wait ==
  /\ At("result", "decided") /\ Live
  /\ Write(mem)
  /\ Return
  /\ UNCHANGED <<world, sent>>
-----------------------------------------------------------------------------
\* What clarify and fix require of the saved record, ...
MayClarify(r) == /\ r.answers < Answers
                 /\ r.target = "none" /\ r.reviewTarget = "none"
MayFix(r) == /\ r.fixes < Fixes /\ r.reviews < Reviews
             /\ r.target # "none" /\ r.target = r.reviewTarget

\* ... and of the builder, the head and the review, which are observed before
\* the intent is saved and again immediately before the message.
AsksItsUser == life = "waiting"
FailedReview(t) == verdict[t] = "failed"
NeedsFix(t) == life = "ended" /\ head = t /\ FailedReview(t)

Fresh(k) == disk.requests[k] = "new"

\* The saved intent spends the allowance and withdraws the verified target.
Intent(r, a, k) ==
  [r EXCEPT !.requests[k] = "intent", !.pending = a, !.target = "none",
            !.answers = @ + (IF a = "clarify" THEN 1 ELSE 0),
            !.fixes = @ + (IF a = "fix" THEN 1 ELSE 0),
            !.builder = "unknown", !.reviewer = "none", !.state = "open"]

ReserveResume(a, k) ==
  /\ MayBegin(a) /\ Fresh(k) /\ disk.started /\ ~disk.cancel
  /\ \/ a = "clarify" /\ MayClarify(disk) /\ disk.builder = "waiting" /\ AsksItsUser
     \/ a = "fix" /\ MayFix(disk) /\ disk.builder = "ended" /\ NeedsFix(disk.target)
  /\ Write(Intent(disk, a, k))
  /\ Enter(a, k, "resume")
  /\ UNCHANGED <<world, sent>>

\* message_fence: the last look before the message.
Fence ==
  /\ pc = "resume" /\ Live
  /\ \/ act = "clarify" /\ AsksItsUser
     \/ act = "fix" /\ NeedsFix(mem.reviewTarget)
  /\ Goto("send")
  /\ UNCHANGED <<disk, mem, world, sent>>

Send ==
  /\ pc = "send"
  /\ Effect(pc) /\ sent' = Leaving(pc)
  /\ Goto("sent")
  /\ UNCHANGED <<disk, mem, gen, expired, head, late>>

\* The next round begins without a target and without a review.
ResumedSameRound(r) == [r EXCEPT !.pending = "none", !.reviewTarget = "none",
                                 !.requests[key] = "done", !.builder = life]
Resumed(r) == [r EXCEPT !.round = @ + 1, !.pending = "none", !.reviewTarget = "none",
                        !.requests[key] = "done", !.builder = life]

Resume ==
  /\ pc = "sent" /\ Live
  /\ Write(Resumed(mem))
  /\ Return
  /\ UNCHANGED <<world, sent>>
-----------------------------------------------------------------------------
\* revoke: waits for the lock like every other operation.
Revoke ==
  /\ pc = "idle" /\ disk.claim # 0 /\ ~disk.revoked
  /\ Write([disk EXCEPT !.revoked = TRUE])
  /\ UNCHANGED <<operation, world, sent>>

Abandon ==
  /\ pc # "idle"
  /\ mem' = disk
  /\ Return
  /\ UNCHANGED <<disk, world, sent>>

\* The call left and its answer is lost; it takes effect later, or never.
Lose ==
  /\ pc \in {"dispatch", "request", "send"}
  /\ sent' = Leaving(pc)
  /\ late' \in {pc, "none"}
  /\ mem' = disk
  /\ Return
  /\ UNCHANGED <<disk, gen, expired, life, head, verdict>>

Arrive ==
  /\ late # "none"
  /\ Effect(late)
  /\ late' = "none"
  /\ UNCHANGED <<disk, mem, operation, gen, expired, head, sent>>

\* The host restarts with a new runtime connection.
Restart ==
  /\ gen < Generations
  /\ gen' = gen + 1
  /\ mem' = disk
  /\ Return
  /\ UNCHANGED <<disk, expired, life, head, verdict, sent, late>>

Expire ==
  /\ disk.admitted /\ ~expired
  /\ expired' = TRUE
  /\ UNCHANGED <<disk, mem, operation, gen, life, head, verdict, sent, late>>
-----------------------------------------------------------------------------
\* The builder works, asks its user or exits; anyone may push to its branch.
Work ==
  /\ life = "running"
  /\ life' \in {"waiting", "ended"}
  /\ UNCHANGED <<disk, mem, operation, gen, expired, head, verdict, sent, late>>

Push ==
  /\ life = "running" \/ head # "none"
  /\ head' \in Heads
  /\ UNCHANGED <<disk, mem, operation, gen, expired, life, verdict, sent, late>>

\* A builder that was told to stop, or gave up waiting, exits by itself.
Exit ==
  /\ life = "waiting"
  /\ life' = "ended"
  /\ UNCHANGED <<disk, mem, operation, gen, expired, head, verdict, sent, late>>

Judge(h) ==
  /\ verdict[h] = "running"
  /\ \E v \in {"passed", "failed", "cancelled"} : verdict' = [verdict EXCEPT ![h] = v]
  /\ UNCHANGED <<disk, mem, operation, gen, expired, life, head, sent, late>>

Operate ==
  \/ Uncertain \/ Admit \/ (\E a \in {"renew", "handoff"} : BeginDecision(a))
  \/ ReserveCall \/ Decide \/ DecideFails \/ Accept \/ Renew
  \/ ReserveDispatch \/ Dispatch \/ Dispatched
  \/ ReserveCancel \/ CancelBuilder \/ CancelReview \/ Cancelled
  \/ (\E a \in {"status", "result"} : Refresh(a))
  \/ Observe \/ Observed \/ ObservedCancelled \/ Collect
  \/ ReserveReview \/ RequestReview \/ Requested \/ ConfirmHead \/ Complete \/ Wait
  \/ (\E a \in {"clarify", "fix"}, k \in Keys : ReserveResume(a, k))
  \/ Fence \/ Send \/ Resume \/ Revoke

Environment ==
  \/ Abandon \/ Lose \/ Arrive \/ Restart \/ Expire
  \/ Work \/ Push \/ Exit \/ (\E h \in Heads : Judge(h))

Next == Operate \/ Environment

Spec == Init /\ [][Next]_vars
-----------------------------------------------------------------------------
(***************************************************************************)
(* Every call of the runtime was charged against its limit before it was   *)
(* made, those whose answer was lost included.                             *)
(***************************************************************************)
CallsAreCharged == sent.calls <= disk.calls

(***************************************************************************)
(* One writer per work: whatever is repeated, interrupted or restarted,    *)
(* the builder is dispatched at most once.                                 *)
(***************************************************************************)
OneWriter == sent.dispatch <= 1

(***************************************************************************)
(* No request key is sent to the builder twice, and all keys together stay *)
(* within the allowances fixed at admission.                               *)
(***************************************************************************)
MessagesAreBounded ==
  /\ \A k \in Keys : sent.messages[k] <= 1
  /\ Cardinality({k \in Keys : sent.messages[k] > 0}) <= Answers + Fixes

(***************************************************************************)
(* When no operation runs and nothing is pending, the record says exactly  *)
(* what has left: the dispatch, one message per finished round, and        *)
(* whether this round's review was requested, which it was at most once.   *)
(***************************************************************************)
RecordTellsAll ==
  pc = "idle" /\ disk.pending = "none" =>
    /\ sent.dispatch = (IF disk.started THEN 1 ELSE 0)
    /\ disk.round = Cardinality({k \in Keys : sent.messages[k] > 0})
    /\ sent.reviews[disk.round] = (IF disk.reviewTarget = "none" THEN 0 ELSE 1)

(***************************************************************************)
(* The review is independent and of finished work: no review runs while    *)
(* the builder does.                                                       *)
(***************************************************************************)
NoReviewWhileBuilding ==
  life \in {"running", "waiting"} => \A h \in Heads : verdict[h] # "running"

(***************************************************************************)
(* A saved completion is of a head whose requested review has passed, with *)
(* the builder gone and nothing else delegated since.                      *)
(***************************************************************************)
CompleteIsReviewed ==
  disk.state = "complete" =>
    /\ disk.target # "none" /\ disk.target = disk.reviewTarget
    /\ verdict[disk.target] = "passed"
    /\ life = "ended"

(***************************************************************************)
(* A work reported cancelled has neither a builder nor a review running,   *)
(* and no lost call is still on its way to start one.                      *)
(***************************************************************************)
CancelledIsStopped ==
  disk.state = "cancelled" =>
    /\ life \in {"none", "ended"} /\ late = "none"
    /\ \A h \in Heads : verdict[h] # "running"

(***************************************************************************)
(* Once a cancellation or a revocation is saved, or the runtime that the   *)
(* claim names is gone, no decision is asked for and nothing is delegated. *)
(***************************************************************************)
Stopped == disk.cancel \/ disk.revoked \/ (disk.claim # 0 /\ disk.claim # gen)
QuietAfterStop == [][Stopped => UNCHANGED sent]_vars

(***************************************************************************)
(* What a work spends is on record before it is spent: calls charged, one  *)
(* dispatch, messages and reviews within the allowances, and a record at   *)
(* rest that tells all of it (the *_intent writes of supervisor.py).       *)
(***************************************************************************)
SpendingIsRecorded ==
  CallsAreCharged /\ OneWriter /\ MessagesAreBounded /\ RecordTellsAll

(***************************************************************************)
(* Builder and reviewer take turns to the end: a review only of finished   *)
(* work, a completion only of the head it passed, a cancellation only when *)
(* both are gone.                                                          *)
(***************************************************************************)
ReviewIsOfFinishedWork ==
  NoReviewWhileBuilding /\ CompleteIsReviewed /\ CancelledIsStopped
=============================================================================
