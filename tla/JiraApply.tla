------------------------------ MODULE JiraApply ------------------------------
(***************************************************************************)
(* Applying a plan to one Jira issue: apply_mutation_plan of               *)
(* src/code_mower/jira_mutations.py, and the pull request synchronisation  *)
(* of jira_pr_sync.py that drives it.                                      *)
(*                                                                         *)
(* Runs of the command share nothing but the issue.  A run takes its       *)
(* operations in order; an operation reads the issue, decides, and makes   *)
(* zero or more writes.  Every write is preceded by a fresh read of its    *)
(* scope (Guard) and is tried once (Answered, Unanswered); a write without *)
(* an answer takes effect at once, later or never.  Runs interleave at     *)
(* every request, die anywhere, and the issue's owner and its automation   *)
(* rules move it at any time.                                              *)
(*                                                                         *)
(* Every category has a transition configured, so a milestone that has a   *)
(* category asks for all three operations.  The ledger is advisory: which  *)
(* of its entries are new is left open, and so are its contents.           *)
(***************************************************************************)
EXTENDS Naturals, Sequences, FiniteSets

CONSTANTS Runs,        \* runs of the command, one plan each
          Prs,         \* pull requests
          Events,      \* milestones that are synchronised
          Requests,    \* operations asked for without a synchronisation
          Moves        \* bound: changes made by the owner and the rules

Kinds == {"assign", "transition", "link", "comment"}
Categories == {"in_progress", "review", "blocked", "done"}
Milestones == {"opened", "ready_for_review", "updated", "blocked", "green",
               "merged", "closed_unmerged"}

ASSUME PlanAssumption ==
  /\ Events \subseteq Milestones
  /\ Requests \subseteq SUBSET Kinds
  /\ Moves \in Nat
  /\ "none" \notin Prs /\ "none" \notin Runs

\* _MILESTONE_POLICY: the category a milestone moves to, and its comment.
Target(m) == CASE m = "opened" -> "in_progress"
               [] m = "ready_for_review" -> "review"
               [] m = "blocked" -> "blocked"
               [] m = "merged" -> "done"
               [] OTHER -> "none"

Template(m) == CASE m \in {"opened", "ready_for_review"} -> "pr_opened"
                 [] m = "blocked" -> "pr_blocked"
                 [] m = "merged" -> "pr_merged"
                 [] OTHER -> "none"

\* The categories in which a milestone comes too late.
Later(m) == CASE m = "opened" -> {"review", "blocked", "done"}
              [] m = "ready_for_review" -> {"blocked", "done"}
              [] m = "blocked" -> {"done"}
              [] OTHER -> {}

Intents == [template : {"pr_opened", "pr_blocked", "pr_merged"}, pr : Prs]
NoIntent == [template |-> "none", pr |-> "none"]
Intent(t, p) == IF t = "none" THEN NoIntent ELSE [template |-> t, pr |-> p]

\* build_sync_plan: the association first, then the milestone's effects.
SyncPlan(m, p) ==
  [sync |-> TRUE, pr |-> p, target |-> Target(m), intent |-> Intent(Template(m), p),
   skip |-> Later(m),
   ops |-> IF Target(m) = "none" THEN <<"link">> ELSE <<"link", "transition", "comment">>]

\* _plan_operations: what the operator asked for, in MUTATION_ORDER.
Asking(k, ks) == IF k \in ks THEN <<k>> ELSE <<>>
RequestPlan(ks, p) ==
  [sync |-> FALSE, pr |-> p, target |-> "in_progress", intent |-> Intent("pr_opened", p),
   skip |-> {},
   ops |-> Asking("assign", ks) \o Asking("transition", ks) \o Asking("link", ks)
           \o Asking("comment", ks)]

Plans == {SyncPlan(m, p) : m \in Events, p \in Prs} \cup
         {RequestPlan(ks, p) : ks \in Requests, p \in Prs}

Writes == {"assign", "transition", "associate", "link", "claim", "comment",
           "posted", "unverified", "ledger"}
Statuses == Categories \cup {"open"}

VARIABLES
  inScope,   \* the reference still names the issue, in the configured project
  status,    \* lifecycle category of its status
  assignee,  \* "none", "self" or "other"
  links,     \* pull requests linked to it by Code Mower
  assoc,     \* its association property
  claim,     \* per comment intent: the state of its claim property
  comments,  \* per comment intent: how many were posted
  plan,      \* of each run, NoPlan before it starts
  pc,        \* "idle", "conflict", "preflight", "next", "handle",
             \* "associate", "guard", "guardPr", "guardOwn", "send", "joined",
             \* "recover" or "stopped"
  todo,      \* operations left; the first one is being applied
  write,     \* the write that is next
  seen,      \* the issue, as last read for the operation, needs no change
  outcome,   \* what the run reports of each operation
  noted,     \* the run has something for the advisory ledger
  writes,    \* write_attempts
  flight,    \* writes without an answer that may still take effect
  astray,    \* history: runs that have written without authority
  moves

issue == <<inScope, status, assignee, links, assoc, claim, comments>>
run == <<plan, pc, todo, write, seen, outcome, noted, writes>>
vars == <<issue, run, flight, astray, moves>>

NoPlan == [sync |-> FALSE, pr |-> "none", target |-> "none", intent |-> NoIntent,
           skip |-> {}, ops |-> <<>>]
Claims == {"none", "claimed", "posted", "unverified"}
Outcomes == {"planned", "applied", "already_applied", "stale", "unverified",
             "blocked", "failed"}

TypeOK ==
  /\ inScope \in BOOLEAN /\ status \in Statuses
  /\ assignee \in {"none", "self", "other"}
  /\ links \subseteq Prs /\ assoc \in Prs \cup {"none"}
  /\ claim \in [Intents -> Claims] /\ comments \in [Intents -> Nat]
  /\ plan \in [Runs -> Plans \cup {NoPlan}]
  /\ pc \in [Runs -> {"idle", "conflict", "preflight", "next", "handle", "associate",
                      "guard", "guardPr", "guardOwn", "send", "joined", "recover", "stopped"}]
  /\ todo \in [Runs -> Seq(Kinds)]
  /\ write \in [Runs -> Writes \cup {"none"}]
  /\ seen \in [Runs -> BOOLEAN]
  /\ outcome \in [Runs -> [Kinds -> Outcomes]]
  /\ noted \in [Runs -> BOOLEAN] /\ writes \in [Runs -> Nat]
  /\ flight \subseteq [run : Runs, write : Writes]
  /\ astray \subseteq Runs /\ moves \in 0 .. Moves

Init ==
  /\ inScope = TRUE /\ status = "open" /\ assignee = "none"
  /\ links = {} /\ assoc = "none"
  /\ claim = [i \in Intents |-> "none"] /\ comments = [i \in Intents |-> 0]
  /\ plan = [r \in Runs |-> NoPlan] /\ pc = [r \in Runs |-> "idle"]
  /\ todo = [r \in Runs |-> <<>>] /\ write = [r \in Runs |-> "none"]
  /\ seen = [r \in Runs |-> FALSE]
  /\ outcome = [r \in Runs |-> [k \in Kinds |-> "planned"]]
  /\ noted = [r \in Runs |-> FALSE] /\ writes = [r \in Runs |-> 0]
  /\ flight = {} /\ astray = {} /\ moves = 0
-----------------------------------------------------------------------------
Op(r) == Head(todo[r])

\* The read before every write: the issue is still the armed one in the
\* configured project, and a milestone's effect has not come too late.
TooLate(r) == /\ todo[r] # <<>> /\ Op(r) \in {"transition", "comment"}
              /\ status \in plan[r].skip
Authorized(r) == inScope /\ ~TooLate(r)

\* _require_write_scope for a synchronisation: no other pull request is
\* linked, and this one is linked or holds the association.
OtherLinked(r) == links \ {plan[r].pr} # {}
Owned(r) == plan[r].pr \in links \/ assoc = plan[r].pr

Goto(r, p) == pc' = [pc EXCEPT ![r] = p] /\ UNCHANGED write
Prepare(r, w) == pc' = [pc EXCEPT ![r] = "guard"] /\ write' = [write EXCEPT ![r] = w]
Report(r, s) == outcome' = [outcome EXCEPT ![r][Op(r)] = s]

\* The operation is over and the next one begins; or the run ends here.
Next1(r) == todo' = [todo EXCEPT ![r] = Tail(@)] /\ Goto(r, "next")
Continue(r, s) == Report(r, s) /\ Next1(r) /\ UNCHANGED noted
Stop(r, s) == Report(r, s) /\ Goto(r, "stopped") /\ UNCHANGED <<todo, noted>>

\* _record: an effect that can be read back goes to the ledger at the end.
Recorded(r, s) ==
  /\ Report(r, s) /\ Next1(r)
  /\ noted' = [noted EXCEPT ![r] = TRUE]

\* The operation's effect is there already, by the state that was read.
Satisfied(r) == CASE Op(r) = "assign" -> assignee = "self"
                  [] Op(r) = "transition" -> status = plan[r].target
                  [] OTHER -> FALSE

Reading(r) == UNCHANGED <<issue, plan, writes, flight, moves>>
-----------------------------------------------------------------------------
Start(r) ==
  /\ pc[r] = "idle"
  /\ \E p \in Plans :
       /\ p.ops # <<>>
       /\ plan' = [plan EXCEPT ![r] = p] /\ todo' = [todo EXCEPT ![r] = p.ops]
       /\ Goto(r, IF p.sync THEN "conflict" ELSE "preflight")
  /\ UNCHANGED <<issue, seen, outcome, noted, writes, flight, moves>>

\* apply_sync_plan: nothing is read or written for an issue that another
\* pull request is linked to.
CheckConflict(r) ==
  /\ pc[r] = "conflict"
  /\ IF OtherLinked(r) THEN Stop(r, "blocked")
     ELSE Goto(r, "preflight") /\ UNCHANGED <<todo, outcome, noted>>
  /\ UNCHANGED seen /\ Reading(r)

\* The scope is proved and the client armed.
Preflight(r) ==
  /\ pc[r] = "preflight"
  /\ IF ~inScope THEN Stop(r, "blocked")
     ELSE Goto(r, "next") /\ UNCHANGED <<todo, outcome, noted>>
  /\ UNCHANGED seen /\ Reading(r)

\* _apply_pending: live state is read again before each operation.
Refresh(r) ==
  /\ pc[r] = "next" /\ todo[r] # <<>>
  /\ \/ ~inScope /\ Stop(r, "blocked") /\ UNCHANGED seen
     \/ inScope /\ TooLate(r) /\ Continue(r, "stale") /\ UNCHANGED seen
     \/ /\ inScope /\ ~TooLate(r)
        /\ seen' = [seen EXCEPT ![r] = Satisfied(r)]
        /\ Goto(r, "handle") /\ UNCHANGED <<todo, outcome, noted>>
  /\ Reading(r)

\* Any read may fail in the end; the run reports it and stops.
ReadFails(r) ==
  /\ pc[r] \in {"conflict", "preflight", "handle", "associate", "joined", "recover"} \/
       (pc[r] = "next" /\ todo[r] # <<>>)
  /\ Stop(r, "failed")
  /\ UNCHANGED seen /\ Reading(r)
-----------------------------------------------------------------------------
\* The handlers, up to their first write.
HandleAssign(r) ==
  /\ pc[r] = "handle" /\ Op(r) = "assign"
  /\ \/ Stop(r, "blocked")     \* the account is not resolved
     \/ seen[r] /\ Recorded(r, "already_applied")
     \/ /\ ~seen[r]
        /\ Prepare(r, "assign") /\ UNCHANGED <<todo, outcome, noted>>
  /\ UNCHANGED seen /\ Reading(r)

\* The configured transition may be gone, or lead somewhere else.
HandleTransition(r) ==
  /\ pc[r] = "handle" /\ Op(r) = "transition"
  /\ \/ seen[r] /\ Recorded(r, "already_applied")
     \/ ~seen[r] /\ Stop(r, "blocked")
     \/ /\ ~seen[r]
        /\ Prepare(r, "transition") /\ UNCHANGED <<todo, outcome, noted>>
  /\ UNCHANGED seen /\ Reading(r)

HandleLink(r) ==
  /\ pc[r] = "handle" /\ Op(r) = "link"
  /\ \/ plan[r].pr \in links /\ Recorded(r, "already_applied")
     \/ /\ plan[r].pr \notin links
        /\ IF plan[r].sync THEN Goto(r, "associate") ELSE Prepare(r, "link")
        /\ UNCHANGED <<todo, outcome, noted>>
  /\ UNCHANGED seen /\ Reading(r)

\* acquire_code_mower_pr_association, up to the conditional write.
Associate(r) ==
  /\ pc[r] = "associate"
  /\ \/ assoc \notin {"none", plan[r].pr} /\ Stop(r, "blocked")
     \/ /\ assoc \in {"none", plan[r].pr}
        /\ Prepare(r, IF assoc = "none" THEN "associate" ELSE "link")
        /\ UNCHANGED <<todo, outcome, noted>>
  /\ UNCHANGED seen /\ Reading(r)

\* The winner is the one the property names when it is read back.
Joined(r) ==
  /\ pc[r] = "joined"
  /\ \/ assoc # plan[r].pr /\ Stop(r, "blocked")
     \/ assoc = plan[r].pr /\ Prepare(r, "link") /\ UNCHANGED <<todo, outcome, noted>>
  /\ UNCHANGED seen /\ Reading(r)

\* A claim that exists is never posted again, whatever its state.
Confirmed(c) == c = "posted"
HandleComment(r) ==
  /\ pc[r] = "handle" /\ Op(r) = "comment"
  /\ LET c == claim[plan[r].intent] IN
     \/ Confirmed(c) /\ Continue(r, "already_applied")
     \/ c # "none" /\ ~Confirmed(c) /\ Continue(r, "unverified")
     \/ c = "none" /\ Prepare(r, "claim") /\ UNCHANGED <<todo, outcome, noted>>
  /\ UNCHANGED seen /\ Reading(r)

\* _recover_comment_claim describes the claim and never unlocks the post.
Recover(r) ==
  /\ pc[r] = "recover"
  /\ IF claim[plan[r].intent] = "none" THEN Stop(r, "failed") ELSE Continue(r, "unverified")
  /\ UNCHANGED seen /\ Reading(r)

\* After the last operation the ledger is written, if it says anything new.
Finish(r) ==
  /\ pc[r] = "next" /\ todo[r] = <<>>
  /\ Goto(r, "stopped") \/ (noted[r] /\ Prepare(r, "ledger"))
  /\ UNCHANGED <<todo, outcome, noted, seen>> /\ Reading(r)
-----------------------------------------------------------------------------
\* _require_write_scope: the reads before every write, then the write.
Refused(r) ==
  /\ Goto(r, "stopped") /\ UNCHANGED <<todo, noted>>
  /\ CASE write[r] = "comment" -> Report(r, "unverified")
       [] write[r] \in {"posted", "unverified", "ledger"} -> UNCHANGED outcome
       [] OTHER -> Report(r, "blocked")

OncePerOperation(r) == Authorized(r) \/ write[r] \in {"comment", "posted", "unverified"}
MayWrite(r) == Authorized(r)

Guard(r) ==
  /\ pc[r] = "guard"
  /\ IF ~MayWrite(r) THEN Refused(r)
     ELSE /\ Goto(r, IF plan[r].sync THEN "guardPr" ELSE "send")
          /\ UNCHANGED <<todo, outcome, noted>>
  /\ UNCHANGED seen /\ Reading(r)

GuardPr(r) ==
  /\ pc[r] = "guardPr"
  /\ IF OtherLinked(r) THEN Refused(r)
     ELSE /\ Goto(r, IF write[r] = "associate" THEN "send" ELSE "guardOwn")
          /\ UNCHANGED <<todo, outcome, noted>>
  /\ UNCHANGED seen /\ Reading(r)

GuardOwn(r) ==
  /\ pc[r] = "guardOwn"
  /\ IF Owned(r) THEN Goto(r, "send") /\ UNCHANGED <<todo, outcome, noted>>
     ELSE Refused(r)
  /\ UNCHANGED seen /\ Reading(r)

\* How the run goes on when a write, or a read of its guard, has failed.
Failed(r) ==
  \/ write[r] \in {"assign", "transition", "associate", "link"} /\ Stop(r, "failed")
  \/ write[r] = "claim" /\ Goto(r, "recover") /\ UNCHANGED <<todo, outcome, noted>>
  \/ /\ write[r] = "comment"
     /\ Report(r, "unverified") /\ Prepare(r, "unverified") /\ UNCHANGED <<todo, noted>>
  \/ write[r] \in {"posted", "unverified"} /\ Next1(r) /\ UNCHANGED <<outcome, noted>>
  \/ write[r] = "ledger" /\ Goto(r, "stopped") /\ UNCHANGED <<todo, outcome, noted>>

GuardFails(r) ==
  /\ pc[r] \in {"guard", "guardPr", "guardOwn"}
  /\ Failed(r)
  /\ UNCHANGED seen /\ Reading(r)

\* What a write does when it takes effect.  The association is created only
\* where there is none; a claim replaces what was there.
Associated(p) == IF assoc = "none" THEN p ELSE assoc
ClaimWrite(w) == w
ClaimState(w) == IF w = "claim" THEN "claimed" ELSE w
Lands(r, w) ==
  /\ assignee' = IF w = "assign" THEN "self" ELSE assignee
  /\ status' = IF w = "transition" THEN plan[r].target ELSE status
  /\ assoc' = IF w = "associate" THEN Associated(plan[r].pr) ELSE assoc
  /\ links' = IF w = "link" THEN links \cup {plan[r].pr} ELSE links
  /\ claim' = IF w \in {"claim", "posted", "unverified"}
              THEN [claim EXCEPT ![plan[r].intent] = ClaimState(w)]
              ELSE claim
  /\ comments' = IF w = "comment" THEN [comments EXCEPT ![plan[r].intent] = @ + 1]
                 ELSE comments
  /\ UNCHANGED inScope

\* Creating the claim, and only that, authorizes the comment.
Unposted(r) == claim[plan[r].intent] # "posted"
MayPost(r) == claim[plan[r].intent] = "none"

Succeeded(r) ==
  \/ write[r] \in {"assign", "transition", "link"} /\ Recorded(r, "applied")
  \/ write[r] = "associate" /\ Goto(r, "joined") /\ UNCHANGED <<todo, outcome, noted>>
  \/ /\ write[r] = "claim" /\ MayPost(r)
     /\ Prepare(r, "comment") /\ UNCHANGED <<todo, outcome, noted>>
  \/ write[r] = "claim" /\ ~MayPost(r) /\ Continue(r, "unverified")
  \/ /\ write[r] = "comment"
     /\ Report(r, "applied") /\ Prepare(r, "posted") /\ UNCHANGED <<todo, noted>>
  \/ write[r] \in {"posted", "unverified"} /\ Next1(r) /\ UNCHANGED <<outcome, noted>>
  \/ write[r] = "ledger" /\ Goto(r, "stopped") /\ UNCHANGED <<todo, outcome, noted>>

\* An attempt is counted when it leaves, and is never repeated.
Attempt(r) == pc[r] = "send" /\ writes' = [writes EXCEPT ![r] = @ + 1]

Answered(r) ==
  /\ Attempt(r) /\ Lands(r, write[r]) /\ Succeeded(r)
  /\ UNCHANGED <<plan, seen, flight, moves>>

Unanswered(r) ==
  /\ Attempt(r) /\ Failed(r)
  /\ flight' \in {flight, flight \cup {[run |-> r, write |-> write[r]]}}
  /\ UNCHANGED <<issue, plan, seen, moves>>

Die(r) ==
  /\ pc[r] \notin {"idle", "stopped"}
  /\ Goto(r, "stopped")
  /\ UNCHANGED <<todo, outcome, noted, seen>> /\ Reading(r)

\* A write whose answer was lost takes effect now.
Land ==
  \E f \in flight :
    /\ Lands(f.run, f.write) /\ flight' = flight \ {f}
    /\ UNCHANGED <<run, moves>>

\* The owner and the project's automation rules.
Moved ==
  /\ moves < Moves /\ moves' = moves + 1
  /\ \/ inScope' = ~inScope /\ UNCHANGED <<status, assignee>>
     \/ \E s \in Statuses \ {status} : status' = s /\ UNCHANGED <<inScope, assignee>>
     \/ \E a \in {"none", "other"} \ {assignee} :
          assignee' = a /\ UNCHANGED <<inScope, status>>
  /\ UNCHANGED <<links, assoc, claim, comments, run, flight>>

\* A run is astray from a write it has no authority for until it has some again.
Stray(r) == writes'[r] > writes[r] /\ ~Authorized(r)
Track == astray' = {r \in Runs : (r \in astray \/ Stray(r)) /\ ~Authorized(r)'}

Step(r) ==
  \/ Start(r) \/ CheckConflict(r) \/ Preflight(r) \/ Refresh(r) \/ ReadFails(r)
  \/ HandleAssign(r) \/ HandleTransition(r) \/ HandleLink(r) \/ Associate(r)
  \/ Joined(r) \/ HandleComment(r) \/ Recover(r) \/ Finish(r)
  \/ Guard(r) \/ GuardPr(r) \/ GuardOwn(r) \/ GuardFails(r)
  \/ Answered(r) \/ Unanswered(r) \/ Die(r)

Next == ((\E r \in Runs : Step(r)) \/ Land \/ Moved) /\ Track
Spec == Init /\ [][Next]_vars
-----------------------------------------------------------------------------
\* A comment is posted at most once, ever, by however many runs, retries and
\* lost answers.
AtMostOneComment == \A i \in Intents : comments[i] <= 1

\* What says that the comment is there is right: a claim recorded as posted,
\* and a run that reports the comment as applied or as applied before.
PostedMeansPosted ==
  /\ \A i \in Intents : claim[i] = "posted" => comments[i] >= 1
  /\ \A r \in Runs : /\ plan[r].intent # NoIntent
                     /\ outcome[r]["comment"] \in {"applied", "already_applied"}
                     => comments[plan[r].intent] >= 1

\* Synchronisation links one pull request: when two are linked, an operator
\* has asked for one of them.
OnePullRequest ==
  \A p, q \in links :
    p # q => \E r \in Runs : ~plan[r].sync /\ plan[r].pr \in {p, q}

\* A synchronisation changes the issue only for the pull request that is
\* linked or holds the association, other than to acquire it.
ChangesOnlyWhatItOwns ==
  [][\A r \in Runs : /\ plan[r].sync /\ writes'[r] > writes[r]
                     /\ write[r] # "associate"
                     => Owned(r)]_vars

\* An issue that leaves its project, or moves past the milestone, costs a run
\* one more write at most: the one already authorized.
OneStrayWrite == [][\A r \in Runs : Stray(r) => r \notin astray]_vars

\* A claim the code does not keep.  JiraMutationClient: an issue that leaves the
\* configured project costs zero further writes.
NoFurtherWrite == [][\A r \in Runs : writes'[r] > writes[r] => inScope]_vars

\* One comment per intent, recorded as posted only when it is there, and one
\* pull request linked, whatever runs overlap.
WrittenOnce == AtMostOneComment /\ PostedMeansPosted /\ OnePullRequest

\* An issue is changed only for the pull request that owns it, and after it
\* has left the scope only by a write already authorized.
WritesAreOwned == ChangesOnlyWhatItOwns /\ OneStrayWrite
=============================================================================
