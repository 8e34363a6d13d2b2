--------------------------- MODULE ReleaseCampaign ---------------------------
(***************************************************************************)
(* One release campaign: its stored record, the commands that advance it,  *)
(* and the providers it dispatches (release_campaigns.py).                 *)
(*                                                                         *)
(* Every mutating command and every tick of a watch holds the lock of the  *)
(* campaign directory from its read of the record to its last save, so at  *)
(* most one command is under way; the OS drops the lock of one that dies.  *)
(* Between two saves a command calls out: it runs a local adapter, posts a *)
(* dispatch and a trigger comment, creates a Devin session.  A crash there *)
(* leaves the last saved record and whatever the call did.                 *)
(***************************************************************************)
EXTENDS Naturals, FiniteSets, CampaignStatus

CONSTANTS
    Local,          \* providers run by a local adapter
    Hosted,         \* providers dispatched by a comment on the issue
    Triggered,      \* those of them started by a second comment
    Devin,          \* providers run as sessions of the Devin API
    Informational,  \* providers whose findings do not block
    Surfaces,       \* where a hosted result may appear: the issue and the PR
    Retries,        \* bound: applied retries of a provider
    None            \* no provider

Providers == Local \cup Hosted \cup Devin
Issue     == "issue"
MaxAttempts == Retries + 1
Attempts  == 1..MaxAttempts
Outcomes  == {"pass", "fail"}

CampaignAssumption ==
    /\ Local \cap Hosted = {} /\ Local \cap Devin = {} /\ Hosted \cap Devin = {}
    /\ Triggered \subseteq Hosted
    /\ Informational \subseteq Providers
    /\ Issue \in Surfaces
    /\ Retries \in Nat
    /\ None \notin Providers

(* Evidence and the attempt it is of; a result recorded by hand is of 0.   *)
Results  == [outcome: Outcomes, of: 0..MaxAttempts]
NoResult == [outcome |-> "none", of |-> 0]

Errors == {"", "owner", "timeout", "ended", "rejected", "disposed", "other"}

(***************************************************************************)
(* attempt  numbers the attempts: 0 is an unset attempted_at, and each     *)
(*          attempt has nonces of its own                                  *)
(* ref      what dispatch_ref says: "open" a checkpointed attempt, "known" *)
(*          a confirmed comment or session id, "tagged" a session that can *)
(*          be found by its tag                                            *)
(* deadline response_deadline_at: none, ahead, or past                     *)
(***************************************************************************)
Entries == [state: ProviderStates, error: Errors, attempt: 0..MaxAttempts,
            result: Results \cup {NoResult}, ref: {"none", "open", "tagged", "known"},
            triggered: BOOLEAN, deadline: {"none", "ahead", "past"}]

Fresh == [state |-> "queued", error |-> "", attempt |-> 0, result |-> NoResult,
          ref |-> "none", triggered |-> FALSE, deadline |-> "none"]

Records == [prov: [Providers -> Entries], dry: BOOLEAN, status: Statuses]

Commands == [kind: {"advance", "watch"}, apply: BOOLEAN, retry: Providers \cup {None}]
Idle     == [kind |-> "none", apply |-> FALSE, retry |-> None]

VARIABLES
    disk,       \* the stored record
    mem,        \* the command's copy
    cmd,        \* the command under way, Idle when there is none
    todo,       \* providers the command has not come to
    at, pc,     \* the provider it is at, and its next step there
    file,       \* the local result file of each provider
    adapter,    \* adapters running, also those that outlive their command
    dispatched, \* comments posted, per provider and attempt
    started,    \* triggers posted, per provider and attempt
    answer,     \* the first valid result on each surface
    misfit,     \* providers with a trusted result that fails validation
    session,    \* Devin sessions, per provider and attempt
    asked,      \* history: applied explicit retries
    survived    \* history: adapters that outlived their command

records == <<disk, mem>>
control == <<cmd, todo, at, pc>>
github  == <<dispatched, started, answer, misfit>>
local   == <<file, adapter, survived>>
vars    == <<disk, mem, cmd, todo, at, pc, file, adapter, dispatched, started,
             answer, misfit, session, asked, survived>>

Lives  == {"none", "active", "owner", "failed", "over"}
NoSession == [life |-> "none", output |-> "none"]

TypeOK ==
    /\ disk \in Records /\ mem \in Records
    /\ cmd \in Commands \cup {Idle}
    /\ todo \subseteq Providers /\ at \in Providers \cup {None}
    /\ pc \in {"visit", "decide", "unlink", "run", "adapter", "post", "posted",
               "trigger", "retrigger", "tag", "create", "created"}
    /\ file \in [Providers -> Results \cup {NoResult}]
    /\ adapter \in [Providers -> SUBSET Attempts]
    /\ survived \in [Providers -> SUBSET Attempts]
    /\ dispatched \in [Providers -> [Attempts -> Nat]]
    /\ started \in [Providers -> [Attempts -> Nat]]
    /\ answer \in [Providers -> [Surfaces -> Results \cup {NoResult}]]
    /\ misfit \subseteq Providers
    /\ session \in [Providers -> [Attempts ->
                      [life: Lives, output: Outcomes \cup {"none", "odd"}]]]
    /\ asked \in [Providers -> Nat]

(***************************************************************************)
(* Helpers                                                                 *)
(***************************************************************************)
StateOf(prov) == [p \in Providers |-> prov[p].state]

(* _save_campaign_progress recomputes the headline before it publishes.    *)
Headed(c) == [c EXCEPT !.status = Aggregate(StateOf(c.prov), Informational, c.dry)]

With(c, p, e) == [c EXCEPT !.prov[p] = e]

AcceptRaw(e, r) == [e EXCEPT !.result = r, !.state = r.outcome]
AcceptAny(e, r) == [e EXCEPT !.result = r, !.error = "", !.state = "complete"]

(* A result decides the state: only a passing one completes.               *)
Accept(e, r) ==
    [e EXCEPT !.result = r, !.error = "",
              !.state  = IF r.outcome = "pass" THEN "complete" ELSE "blocked"]

(* A new attempt drops the evidence of the one before it.                  *)
NextAttempt(e) ==
    [e EXCEPT !.state = "running", !.error = "", !.result = NoResult,
              !.attempt = e.attempt + 1, !.ref = "open"]

Retry(p)    == cmd.retry = p
PollOnly    == cmd.kind = "watch"
Attempted(e) == e.attempt > 0

(* Go on to the next provider, or to another step at this one.             *)
Leave   == at' = None /\ pc' = "visit"
Goto(s) == at' = at /\ pc' = s
SaveLate(c) == mem' = Headed(c) /\ disk' = disk
Save(c) == mem' = Headed(c) /\ disk' = Headed(c)
Hold(c) == mem' = c /\ disk' = disk

(***************************************************************************)
(* Commands.  applied is monotonic: a run without --apply never turns an   *)
(* applied campaign back into a preview, and a watch does not touch it.    *)
(***************************************************************************)
Applied(c) == ~c.dry

(* Retries is a bound of the model, not of the code: nothing is retried    *)
(* once a provider was retried so often.                                   *)
Asks(c) == c.apply /\ c.retry # None
Affordable(c) == Asks(c) => \A p \in Providers : asked[p] < Retries

Begin ==
    /\ cmd = Idle
    /\ \E c \in Commands :
         /\ c.kind = "watch" => ~c.apply /\ c.retry = None
         /\ Affordable(c)
         /\ cmd' = c
         /\ mem' = [disk EXCEPT !.dry = IF c.kind = "watch" THEN disk.dry
                                        ELSE ~(c.apply \/ Applied(disk))]
         /\ asked' = IF Asks(c) THEN [asked EXCEPT ![c.retry] = @ + 1] ELSE asked
    /\ todo' = Providers /\ at' = None /\ pc' = "visit"
    /\ UNCHANGED <<disk, local, github, session>>

Skips     == PollOnly
Unchanged == PollOnly /\ mem = disk

(* The last save; a watch saves only what changed.                         *)
Finish ==
    /\ cmd # Idle /\ at = None /\ todo = {}
    /\ IF Unchanged THEN UNCHANGED records ELSE Save(mem)
    /\ cmd' = Idle
    /\ UNCHANGED <<todo, at, pc, local, github, session, asked>>

(* The command dies; the adapter it was running may go on without it.      *)
Crash ==
    /\ cmd # Idle
    /\ cmd' = Idle /\ at' = None /\ pc' = "visit" /\ todo' = {}
    /\ mem' = disk
    /\ survived' = IF pc = "adapter"
                   THEN [survived EXCEPT ![at] = @ \cup adapter[at]] ELSE survived
    /\ UNCHANGED <<disk, file, adapter, github, session, asked>>

(***************************************************************************)
(* Visiting a provider, in the order of the checks                         *)
(***************************************************************************)
(* The providers come in the order of the record, whatever that is.        *)
First == CHOOSE p \in todo : TRUE
Visiting(p) == cmd # Idle /\ at = None /\ todo # {} /\ p = First
Visited(p)  == todo' = todo \ {p}
Stay        == UNCHANGED <<local, github, session, asked, cmd>>

Frozen(p) == cmd.retry \notin {None, p}

DropIn(p) == file[p] # NoResult /\ ~Retry(p)

(* The retry of one provider leaves every other one as it is.              *)
VisitFrozen(p) ==
    /\ Visiting(p) /\ Frozen(p)
    /\ Visited(p) /\ Leave
    /\ UNCHANGED records /\ Stay

(* A bound result file is evidence, except for a provider being retried.   *)
TakeFile(p) ==
    /\ Visiting(p) /\ ~Frozen(p) /\ DropIn(p)
    /\ Hold(With(mem, p, Accept(mem.prov[p], file[p])))
    /\ Visited(p) /\ Leave
    /\ Stay

(* Not decided by a file, and not settled yet.                             *)
Open(p) == Visiting(p) /\ ~Frozen(p) /\ ~DropIn(p) /\ mem.prov[p].state # "complete"

VisitComplete(p) ==
    /\ Visiting(p) /\ ~Frozen(p) /\ ~DropIn(p) /\ mem.prov[p].state = "complete"
    /\ Visited(p) /\ Leave
    /\ UNCHANGED records /\ Stay

(***************************************************************************)
(* Devin: one read of the session per visit                                *)
(***************************************************************************)
DevinPolls(e) == e.state = "running" \/ (e.state = "blocked" /\ e.error = "owner")

Silent(e) ==
    IF e.deadline = "past"
    THEN [e EXCEPT !.state = "unavailable", !.error = "timeout"]
    ELSE [e EXCEPT !.state = "running", !.error = "", !.deadline = "ahead"]

(* The session behind an entry that can be read: its id is known, or the   *)
(* tag finds it.                                                           *)
Reachable(p, e) ==
    \/ e.ref = "known"
    \/ e.ref = "tagged" /\ session[p][e.attempt].life # "none"

(* What one snapshot makes of the entry; a set, because approval may have  *)
(* to be given before an output counts.                                    *)
DevinReads(p, e) ==
    LET s == session[p][e.attempt]
        known == [e EXCEPT !.ref = "known"]
    IN (IF s.life = "failed"
        THEN {[known EXCEPT !.state = "unavailable", !.error = "ended"]} ELSE {})
       \cup
       (IF s.life # "failed" /\ s.output \in Outcomes
        THEN {Accept(known, [outcome |-> s.output, of |-> e.attempt])} ELSE {})
       \cup
       (IF s.life # "failed" /\ s.output = "odd"
        THEN {[known EXCEPT !.state = "blocked", !.error = "rejected"]} ELSE {})
       \cup
       (IF s.life = "owner"
        THEN {[known EXCEPT !.state = "blocked", !.error = "owner"]} ELSE {})
       \cup
       (IF s.life = "over" /\ s.output = "none"
        THEN {[known EXCEPT !.state = "unavailable", !.error = "rejected"]} ELSE {})
       \cup
       (IF s.life = "active" /\ s.output = "none" THEN {Silent(known)} ELSE {})

(* No credentials, no session to name, or the service does not answer.     *)
DevinUnread(e) == [e EXCEPT !.state = "running", !.error = "other"]

DevinRetryIsSafe(e) ==
    \/ e.state = "unavailable" /\ e.error \in {"timeout", "ended"}
    \/ e.state = "blocked" /\ e.error = "rejected"

PollDevin(p) ==
    /\ Open(p) /\ p \in Devin /\ DevinPolls(mem.prov[p])
    /\ LET e == mem.prov[p]
       IN \E f \in {DevinUnread(e)} \cup (IF Reachable(p, e) THEN DevinReads(p, e) ELSE {}) :
            /\ Save(With(mem, p, f))
            /\ IF Retry(p) /\ DevinRetryIsSafe(f)
               THEN at' = p /\ pc' = "decide" ELSE Leave
    /\ Visited(p) /\ Stay

(***************************************************************************)
(* Hosted: results first, then the trigger, then the deadline              *)
(***************************************************************************)
(* A read: the surfaces whose comments were seen, and whether one failed.  *)
(* A watch with no time left asks nothing and takes that for no comments.  *)
Reading(seen) == [seen |-> seen, failed |-> seen # Surfaces]
Blind         == [seen |-> {}, failed |-> FALSE]

Reads == {Reading(seen) : seen \in SUBSET Surfaces} \cup (IF PollOnly THEN {Blind} ELSE {})

Legible(r)    == FALSE
Unreadable(r) == r.failed

Sees(r, s) == s \in r.seen

(* The issue comes first, and the first valid comment on a surface wins.   *)
Found(p, r) ==
    IF Sees(r, Issue) /\ answer[p][Issue] # NoResult
    THEN answer[p][Issue]
    ELSE LET rest == {s \in Surfaces : Sees(r, s) /\ answer[p][s] # NoResult}
         IN IF rest = {} THEN NoResult ELSE answer[p][CHOOSE s \in rest : TRUE]

Marked(p, e, r) ==
    [e EXCEPT !.error = IF Unreadable(r) THEN "other"
                        ELSE IF p \in misfit /\ Sees(r, Issue) THEN "rejected" ELSE ""]

(* The marker of the trigger's own nonce proves that it was posted.        *)
DispatchSeen(p, e, r) == e.ref = "known" \/ (Sees(r, Issue) /\ dispatched[p][e.attempt] > 0)
TriggerSeen(p, e, r)  == Sees(r, Issue) /\ started[p][e.attempt] > 0

Reconcile(p, e, r) ==
    IF ~Sees(r, Issue) \/ ~DispatchSeen(p, e, r) THEN e
    ELSE [e EXCEPT !.ref = "known", !.triggered = TriggerSeen(p, e, r),
                   !.deadline = IF TriggerSeen(p, e, r) THEN "ahead" ELSE @]

NeedsTrigger(p, e) == p \in Triggered /\ ~e.triggered /\ ~Retry(p)

(* The issue was read, shows the dispatch and no trigger, and --apply is   *)
(* given: the trigger is posted again.                                     *)
PostsTrigger(p, e, r) ==
    /\ cmd.apply /\ Sees(r, Issue)
    /\ DispatchSeen(p, e, r) /\ ~TriggerSeen(p, e, r)

(* Silence counts only when every surface was read.                        *)
NoDeadline(e, r) == FALSE
Enforces(e, r) == ~Unreadable(r) /\ e.deadline = "past"

Deadline(p, e, r) ==
    IF e.deadline = "none" THEN [e EXCEPT !.deadline = "ahead"]
    ELSE IF ~Enforces(e, r) \/ Retry(p) THEN e
    ELSE IF e.error = "rejected" THEN [e EXCEPT !.state = "blocked"]
    ELSE [e EXCEPT !.state = "unavailable", !.error = "timeout"]

Awaited(p, e) == p \notin Triggered \/ e.triggered

HostedPolls(p) == Open(p) /\ p \in Hosted /\ mem.prov[p].state = "running"

PollFinds(p, r) ==
    /\ HostedPolls(p) /\ Found(p, r) # NoResult
    /\ Hold(With(mem, p, Accept(mem.prov[p], Found(p, r))))
    /\ Visited(p) /\ Leave /\ Stay

PollReconciles(p, r) ==
    LET e == Marked(p, mem.prov[p], r)
    IN /\ HostedPolls(p) /\ Found(p, r) = NoResult /\ NeedsTrigger(p, e)
       /\ IF PollOnly \/ PostsTrigger(p, e, r)
          THEN Hold(With(mem, p, Reconcile(p, e, r)))
          ELSE Save(With(mem, p, Reconcile(p, e, r)))
       /\ IF PostsTrigger(p, e, r) THEN at' = p /\ pc' = "retrigger" ELSE Leave
       /\ Visited(p) /\ Stay

PollWaits(p, r) ==
    LET e == Marked(p, mem.prov[p], r)
        f == IF Awaited(p, e) THEN Deadline(p, e, r) ELSE e
    IN /\ HostedPolls(p) /\ Found(p, r) = NoResult /\ ~NeedsTrigger(p, e)
       /\ Hold(With(mem, p, f))
       /\ IF Retry(p) THEN at' = p /\ pc' = "decide" ELSE Leave
       /\ Visited(p) /\ Stay

Poll(p) == \E r \in Reads : PollFinds(p, r) \/ PollReconciles(p, r) \/ PollWaits(p, r)

(* A running local adapter is not read anywhere: only a retry goes on.     *)
AwaitLocal(p) ==
    /\ Open(p) /\ p \in Local /\ mem.prov[p].state = "running"
    /\ IF Retry(p) THEN at' = p /\ pc' = "decide" ELSE Leave
    /\ Visited(p) /\ UNCHANGED records /\ Stay

ToDecide(p) ==
    /\ Open(p) /\ mem.prov[p].state # "running"
    /\ ~(p \in Devin /\ DevinPolls(mem.prov[p]))
    /\ at' = p /\ pc' = "decide"
    /\ Visited(p) /\ UNCHANGED records /\ Stay

(***************************************************************************)
(* Deciding: nothing is dispatched without --apply, and nothing attempted  *)
(* is dispatched again without an explicit retry.                          *)
(***************************************************************************)
Deciding == cmd # Idle /\ pc = "decide"
Entry    == mem.prov[at]

Keeps(e) ==
    \/ PollOnly
    \/ Retry(at) /\ ~cmd.apply /\ Attempted(e)
    \/ ~cmd.apply /\ ~Retry(at) /\ Attempted(e) /\ e.state \in {"blocked", "unavailable"}
    \/ cmd.apply /\ Attempted(e) /\ ~Retry(at)

DecideKeep ==
    /\ Deciding /\ Keeps(Entry)
    /\ Leave /\ UNCHANGED <<records, todo>> /\ Stay

(* The preview: what --apply would need is there, or it is not.            *)
Preview ==
    /\ Deciding /\ ~Keeps(Entry) /\ ~cmd.apply
    /\ \/ Hold(With(mem, at, [Entry EXCEPT !.state = "queued", !.error = ""]))
       \/ \E e \in {Entry.error, "other"} :
            Hold(With(mem, at, [Entry EXCEPT !.state = "unavailable", !.error = e]))
    /\ Leave /\ UNCHANGED todo /\ Stay

Dispatches == Deciding /\ ~Keeps(Entry) /\ cmd.apply

(* Credentials, repository, issue or versions are missing.  A dispatch     *)
(* whose outcome is open stays pollable.                                   *)
Unmet ==
    /\ Dispatches /\ at \in Hosted \cup Devin
    /\ LET s == IF at \in Hosted /\ Entry.state = "running" THEN "running"
                ELSE "unavailable"
           c == With(mem, at, [Entry EXCEPT !.state = s, !.error = "other"])
       IN IF at \in Devin THEN Save(c) ELSE Hold(c)
    /\ Leave /\ UNCHANGED todo /\ Stay

(***************************************************************************)
(* Local: remove the old result, save the attempt, run the adapter         *)
(***************************************************************************)
Unlinked(p) == [file EXCEPT ![p] = NoResult]

DispatchLocal ==
    /\ Dispatches /\ at \in Local
    /\ file' = Unlinked(at)
    /\ Goto("run")
    /\ UNCHANGED <<records, cmd, todo, adapter, survived, github, session, asked>>

CheckpointLocal ==
    /\ cmd # Idle /\ pc = "run"
    /\ Save(With(mem, at, NextAttempt(Entry)))
    /\ adapter' = [adapter EXCEPT ![at] = @ \cup {Entry.attempt + 1}]
    /\ file' = Unlinked(at)
    /\ Goto("adapter")
    /\ UNCHANGED <<cmd, todo, survived, github, session, asked>>

(* The adapter ends well: what counts is the result file at that moment.   *)
AdapterReturns ==
    /\ cmd # Idle /\ pc = "adapter"
    /\ \/ \E o \in Outcomes :
            /\ file' = [file EXCEPT ![at] = [outcome |-> o, of |-> Entry.attempt]]
            /\ Hold(With(mem, at, Accept(Entry, file'[at])))
       \/ /\ file' = file /\ file[at] # NoResult
          /\ Hold(With(mem, at, Accept(Entry, file[at])))
    /\ adapter' = [adapter EXCEPT ![at] = @ \ {Entry.attempt}]
    /\ Leave /\ UNCHANGED <<cmd, todo, survived, github, session, asked>>

(* It cannot run, times out, fails, or leaves no valid result.             *)
AdapterFails ==
    /\ cmd # Idle /\ pc = "adapter"
    /\ \E s \in {"blocked", "unavailable"} :
         Hold(With(mem, at, [Entry EXCEPT !.state = s, !.error = "other"]))
    /\ adapter' = [adapter EXCEPT ![at] = @ \ {Entry.attempt}]
    /\ Leave /\ UNCHANGED <<cmd, todo, file, survived, github, session, asked>>

(* An adapter whose command died ends, with or without a result.           *)
AdapterOutlives(p) ==
    \E n \in survived[p] \cap adapter[p] :
        /\ adapter' = [adapter EXCEPT ![p] = @ \ {n}]
        /\ file' \in {file} \cup {[file EXCEPT ![p] = [outcome |-> o, of |-> n]] : o \in Outcomes}
        /\ UNCHANGED <<records, control, survived, github, session, asked>>

(***************************************************************************)
(* Hosted: save a pollable attempt, post the dispatch, save that it is     *)
(* there, post the trigger                                                 *)
(***************************************************************************)
CheckpointHosted ==
    /\ Dispatches /\ at \in Hosted
    /\ Save(With(mem, at, [NextAttempt(Entry) EXCEPT
            !.triggered = (at \notin Triggered),
            !.deadline  = IF at \in Triggered THEN "none" ELSE "ahead"]))
    /\ Goto("post") /\ UNCHANGED todo /\ Stay

Posts(what, p, n) == [what EXCEPT ![p][n] = @ + 1]

(* gh reports success, or a failure of a request that may have landed.     *)
PostDispatch ==
    /\ cmd # Idle /\ pc = "post"
    /\ \/ /\ dispatched' = Posts(dispatched, at, Entry.attempt)
          /\ Goto("posted") /\ UNCHANGED records
       \/ /\ dispatched' \in {dispatched, Posts(dispatched, at, Entry.attempt)}
          /\ Hold(With(mem, at, [Entry EXCEPT !.state = "unavailable", !.error = "other",
                                              !.deadline = "none"]))
          /\ Leave
    /\ UNCHANGED <<cmd, todo, local, started, answer, misfit, session, asked>>

ConfirmDispatch ==
    /\ cmd # Idle /\ pc = "posted"
    /\ Save(With(mem, at, [Entry EXCEPT !.ref = "known"]))
    /\ IF at \in Triggered THEN Goto("trigger") ELSE Leave
    /\ UNCHANGED todo /\ Stay

(* Only the repeated post is saved at once.                                *)
PostTrigger ==
    /\ cmd # Idle /\ pc \in {"trigger", "retrigger"}
    /\ \E ok \in BOOLEAN :
         /\ started' \in {Posts(started, at, Entry.attempt)} \cup (IF ok THEN {} ELSE {started})
         /\ LET c == IF ok THEN With(mem, at, [Entry EXCEPT !.triggered = TRUE, !.deadline = "ahead"])
                           ELSE mem
            IN IF pc = "retrigger" THEN Save(c) ELSE Hold(c)
    /\ Leave
    /\ UNCHANGED <<cmd, todo, local, dispatched, answer, misfit, session, asked>>

(***************************************************************************)
(* Devin: save the attempt, save the tag, create the session               *)
(***************************************************************************)
CheckpointDevin ==
    /\ Dispatches /\ at \in Devin
    /\ Save(With(mem, at, [NextAttempt(Entry) EXCEPT !.triggered = TRUE, !.deadline = "ahead"]))
    /\ Goto("tag") /\ UNCHANGED todo /\ Stay

(* The campaign cannot be described to Devin; no request is sent.          *)
PayloadInvalid ==
    /\ cmd # Idle /\ pc = "tag"
    /\ Save(With(mem, at, [Entry EXCEPT !.state = "unavailable", !.error = "other"]))
    /\ Leave /\ UNCHANGED todo /\ Stay

TagSession ==
    /\ cmd # Idle /\ pc = "tag"
    /\ Save(With(mem, at, [Entry EXCEPT !.ref = "tagged"]))
    /\ Goto("create") /\ UNCHANGED todo /\ Stay

NewSession(p, n) == [session EXCEPT ![p][n].life = "active"]

(* Created; refused; or created or not without an answer.                  *)
CreateSession ==
    /\ cmd # Idle /\ pc = "create"
    /\ \/ /\ session' = NewSession(at, Entry.attempt)
          /\ Goto("created") /\ UNCHANGED records
       \/ /\ session' = session
          /\ Save(With(mem, at, [Entry EXCEPT !.state = "unavailable", !.error = "other"]))
          /\ Leave
       \/ /\ session' \in {session, NewSession(at, Entry.attempt)}
          /\ Save(With(mem, at, [Entry EXCEPT !.state = "running", !.error = "other"]))
          /\ Leave
    /\ UNCHANGED <<cmd, todo, local, github, asked>>

SaveSession ==
    /\ cmd # Idle /\ pc = "created"
    /\ Save(With(mem, at, [Entry EXCEPT !.ref = "known", !.error = ""]))
    /\ Leave /\ UNCHANGED todo /\ Stay

(***************************************************************************)
(* The owner settles a provider by hand; each command is one read and one  *)
(* save under the lock.                                                    *)
(***************************************************************************)
Recorded(e, r) == IF e.result = r THEN e ELSE Accept(e, r)

RecordResult(p) ==
    /\ cmd = Idle
    /\ \E o \in Outcomes : Save(With(disk, p, Recorded(disk.prov[p], [outcome |-> o, of |-> 0])))
    /\ UNCHANGED <<control, local, github, session, asked>>

Disposable(p, e) == p \in Informational /\ e.state = "running" /\ Attempted(e)

Dispose(p) ==
    /\ cmd = Idle /\ Disposable(p, disk.prov[p])
    /\ Save(With(disk, p, [disk.prov[p] EXCEPT !.state = "unavailable", !.error = "disposed",
                                               !.deadline = "none"]))
    /\ UNCHANGED <<control, local, github, session, asked>>

(***************************************************************************)
(* The providers and time                                                  *)
(***************************************************************************)
Underway(p, n) == IF p \in Triggered THEN started[p][n] > 0 ELSE dispatched[p][n] > 0

(* A valid result; one on a surface that has one already is never read.    *)
Answers(p) ==
    \E s \in Surfaces, n \in Attempts, o \in Outcomes :
        /\ p \in Hosted /\ Underway(p, n) /\ answer[p][s] = NoResult
        /\ answer' = [answer EXCEPT ![p][s] = [outcome |-> o, of |-> n]]
        /\ UNCHANGED <<records, control, local, dispatched, started, misfit, session, asked>>

Misanswers(p) ==
    /\ p \in Hosted \ misfit /\ \E n \in Attempts : Underway(p, n)
    /\ misfit' = misfit \cup {p}
    /\ UNCHANGED <<records, control, local, dispatched, started, answer, session, asked>>

(* A session waits for its owner and goes on, gives an output, or ends.    *)
Working(s) == s.life \in {"active", "owner"}

Moves(s) ==
    (IF Working(s) /\ s.output = "none"
     THEN {[s EXCEPT !.output = o] : o \in Outcomes \cup {"odd"}} ELSE {})
    \cup (IF Working(s) THEN {[s EXCEPT !.life = l] : l \in {"active", "owner", "failed", "over"} \ {s.life}}
          ELSE {})

SessionMoves(p) ==
    \E n \in Attempts :
        /\ session[p][n].life # "none"
        /\ \E s \in Moves(session[p][n]) : session' = [session EXCEPT ![p][n] = s]
        /\ UNCHANGED <<records, control, local, github, asked>>

(* A command reads the clock once, when it begins: a deadline passes only  *)
(* between commands.  The record is the same; the date in it is past.      *)
Expire(p) ==
    /\ cmd = Idle /\ disk.prov[p].deadline = "ahead"
    /\ disk' = [disk EXCEPT !.prov[p].deadline = "past"] /\ mem' = disk'
    /\ UNCHANGED <<control, local, github, session, asked>>

Init ==
    /\ disk = Headed([prov |-> [p \in Providers |-> Fresh], dry |-> TRUE, status |-> "queued"])
    /\ mem = disk
    /\ cmd = Idle /\ todo = {} /\ at = None /\ pc = "visit"
    /\ file = [p \in Providers |-> NoResult]
    /\ adapter = [p \in Providers |-> {}] /\ survived = [p \in Providers |-> {}]
    /\ dispatched = [p \in Providers |-> [n \in Attempts |-> 0]]
    /\ started = [p \in Providers |-> [n \in Attempts |-> 0]]
    /\ answer = [p \in Providers |-> [s \in Surfaces |-> NoResult]]
    /\ misfit = {}
    /\ session = [p \in Providers |-> [n \in Attempts |-> NoSession]]
    /\ asked = [p \in Providers |-> 0]

Visit == \E p \in Providers :
    \/ VisitFrozen(p) \/ TakeFile(p) \/ VisitComplete(p)
    \/ PollDevin(p) \/ Poll(p) \/ AwaitLocal(p) \/ ToDecide(p)

Dispatch ==
    \/ DecideKeep \/ Preview \/ Unmet
    \/ DispatchLocal \/ CheckpointLocal \/ AdapterReturns \/ AdapterFails
    \/ CheckpointHosted \/ PostDispatch \/ ConfirmDispatch \/ PostTrigger
    \/ CheckpointDevin \/ PayloadInvalid \/ TagSession \/ CreateSession \/ SaveSession

World == \E p \in Providers :
    \/ AdapterOutlives(p) \/ Answers(p) \/ Misanswers(p) \/ SessionMoves(p) \/ Expire(p)

Owner == \E p \in Providers : RecordResult(p) \/ Dispose(p)

Next == Begin \/ Finish \/ Crash \/ Visit \/ Dispatch \/ World \/ Owner

Spec == Init /\ [][Next]_vars

(***************************************************************************)
(* Fairness: a command that is under way goes on, the campaign is polled   *)
(* again and again, now and then every surface can be read, and time goes  *)
(* on, also between commands.                                              *)
(***************************************************************************)
Polling == Begin /\ cmd'.retry = None

FullPoll(p) ==
    /\ cmd.retry = None
    /\ LET r == Reading(Surfaces) IN PollFinds(p, r) \/ PollReconciles(p, r) \/ PollWaits(p, r)

Fairness ==
    /\ WF_vars(Finish) /\ WF_vars(Visit) /\ WF_vars(Dispatch)
    /\ SF_vars(Polling)
    /\ \A p \in Hosted : SF_vars(FullPoll(p)) /\ SF_vars(Expire(p))

FairSpec == Spec /\ Fairness

(***************************************************************************)
(* Properties                                                              *)
(***************************************************************************)

(* The stored headline is the one its providers give, in every file a      *)
(* lock-free reader can see, also after a crash between two saves          *)
(* (_save_campaign_progress).                                              *)
HeadlineIsHonest == disk.status = Aggregate(StateOf(disk.prov), Informational, disk.dry)

(* A provider is complete exactly when it holds passing evidence: what an  *)
(* upload publishes as passed was passed (build_campaign_upload_events).   *)
CompleteMeansPassed ==
    \A p \in Providers :
        (disk.prov[p].state = "complete") <=> (disk.prov[p].result.outcome = "pass")

(* Nothing is attempted a second time but on an explicit applied retry,    *)
(* however often the campaign is resumed, watched, killed or started over. *)
AttemptsAreAsked == \A p \in Providers : disk.prov[p].attempt <= asked[p] + 1

Effects(p, n) == dispatched[p][n] > 0 \/ session[p][n].life # "none" \/ n \in adapter[p]

(* What leaves the machine is of an attempt that is saved; an attempt posts *)
(* one dispatch and one trigger, and the trigger after the dispatch, also  *)
(* when an answer was lost (dispatch_or_advance_campaign).                 *)
OncePerAttempt ==
    \A p \in Providers, n \in Attempts :
        /\ Effects(p, n) => n <= disk.prov[p].attempt
        /\ dispatched[p][n] <= 1
        /\ started[p][n] <= dispatched[p][n]

(* An attempted provider is not left queued: an ordinary resume neither    *)
(* polls nor dispatches a queued provider that was attempted, so a crash   *)
(* around the post would strand it.                                        *)
NeverStranded ==
    \A p \in Providers : Attempted(disk.prov[p]) => disk.prov[p].state # "queued"

(* Evidence of a local adapter or a Devin session is of the attempt the    *)
(* record holds, unless the adapter of an earlier attempt outlived the     *)
(* command that ran it.                                                    *)
EvidenceIsOfThisAttempt ==
    \A p \in Local \cup Devin :
        disk.prov[p].result.of \in {0, disk.prov[p].attempt} \cup survived[p]

(* A dry run or a watch never makes an applied campaign a preview again.   *)
AppliedForGood == ~disk.dry => ~disk'.dry

(* A command that retries one provider leaves the saved entry of every     *)
(* other one as it was.                                                    *)
RetryFreezesOthers ==
    cmd.retry # None =>
        \A p \in Providers \ {cmd.retry} : disk'.prov[p] = disk.prov[p]

(* Without the owner no new Devin session is begun while the record says   *)
(* the earlier one still runs or waits.                                    *)
SessionEndsFirst ==
    \A p \in Devin :
        disk'.prov[p].attempt > disk.prov[p].attempt => ~DevinPolls(disk.prov[p])

TimesOut(p) == mem.prov[p].state = "running" /\ mem'.prov[p].error = "timeout"
Answered(p) == \E s \in Surfaces : answer[p][s] # NoResult

(* A resume that gives up on a hosted provider has read every surface and  *)
(* found no result: a timeout is silence, not an unreadable page.          *)
TimeoutIsSilence ==
    \A p \in Hosted : TimesOut(p) /\ ~PollOnly /\ cmd # Idle => ~Answered(p)

(* A campaign whose commands are killed only finitely often and that is    *)
(* polled takes the answer of a hosted provider, or gives up on it.        *)
Quiet == <>[][~Crash]_vars

AnswerIsTaken ==
    Quiet => \A p \in Hosted :
        (disk.prov[p].state = "running" /\ Answered(p)) ~> (disk.prov[p].state # "running")

(* And an attempt whose start is confirmed does not stay running, whether  *)
(* it is answered or not: its deadline passes.                             *)
Pending(p, n) ==
    disk.prov[p].attempt = n /\ disk.prov[p].state = "running" /\ disk.prov[p].triggered

SilenceEnds ==
    Quiet => \A p \in Hosted, n \in Attempts :
        Pending(p, n) ~> (disk.prov[p].state # "running" \/ disk.prov[p].attempt # n)

(***************************************************************************)
(* Claims the code does not keep                                           *)
(***************************************************************************)

(* A stale comment can never be replayed as evidence, and a retry can only *)
(* be satisfied by fresh evidence (docs/release-qualification.md).         *)
EvidenceIsFresh ==
    \A p \in Hosted : disk.prov[p].result.of \in {0, disk.prov[p].attempt}

(* Silence is not concluded from a tick that could not read: "this tick    *)
(* cannot conclude the provider was silent" (release_campaigns.py).        *)
WatchConcludesFromReading == [][\A p \in Hosted : TimesOut(p) => ~Answered(p)]_vars

(* An active or owner-blocked Devin session is never duplicated            *)
(* (docs/release-qualification.md).                                        *)
ActiveSessionIsNotDuplicated ==
    [][\A p \in Devin :
         LET e == disk.prov[p] IN
         disk'.prov[p].attempt > e.attempt /\ e.attempt > 0 =>
             \/ e.deadline = "past"
             \/ ~Working(session[p][e.attempt])
             \/ session[p][e.attempt].output # "none"]_vars

(* A repeated --apply never discards recorded state and evidence           *)
(* (docs/release-qualification.md): only a retry starts over.              *)
RecordedEvidenceIsKept ==
    [][\A p \in Providers :
         disk.prov[p].result # NoResult /\ disk'.prov[p].result = NoResult => Retry(p)]_vars

=============================================================================
