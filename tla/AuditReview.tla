------------------------------ MODULE AuditReview ------------------------------
(***************************************************************************)
(* One audit of a pull request by a reviewer on this machine: audit_pr of  *)
(* codex_audit_pr.py with the helpers it shares with the other reviewers   *)
(* (provider_runners) and the private context of a review                  *)
(* (context_audit.py).  Meanwhile heads are pushed and forced away, the    *)
(* base moves, other runs fetch in the same clone, context is declared     *)
(* again or its authorization withdrawn, calls fail and runs are killed.   *)
(* Publication through a workflow is AuditPublication; here the comment is *)
(* posted directly, or a saved one posted again.                           *)
(***************************************************************************)
EXTENDS Naturals

CONSTANTS Required,   \* base revisions whose policy requires context
          Revs,       \* revisions of private context
          MaxHead, MaxBase, MaxRuns, MaxMishaps,   \* bounds of the model
          Nothing

ReviewAssumption ==
    /\ \A n \in {MaxHead, MaxBase, MaxRuns, MaxMishaps} : n \in Nat
    /\ Required \subseteq 0..MaxBase /\ Nothing \notin Revs

VARIABLES
    prhead,     \* the head of the pull request
    base,       \* the base branch on GitHub
    input,      \* the latest trusted declaration of context
    granted,    \* revisions of context the reviewer may read
    have,       \* heads the clone has
    tracking,   \* the base as the clone last fetched it
    run, runs,  \* the latest run and the number of runs
    saved,      \* verdict artifacts
    comments,   \* audit comments of this lane
    mishaps     \* faults so far

prworld == <<prhead, base, input, granted>>
reviewVars == <<prworld, have, tracking, run, runs, saved, comments, mishaps>>

Pushed == 0..MaxHead
Bases == 0..MaxBase
Input == {i \in [rev : Revs, head : Pushed,
                 kind : {"full", "optional_unavailable", "required_unavailable"},
                 required : BOOLEAN] :
            /\ i.kind = "required_unavailable" => i.required
            /\ i.kind = "optional_unavailable" => ~i.required}
Terminal == {"PASS", "BLOCKED"}
Verdicts == Terminal \cup {"UNKNOWN", "STALE"}
Modes == {"post", "dry", "test"}   \* posting, --dry-run, under pytest
Over == {"idle", "done"}

FreshRun ==
    [pc |-> "idle", n |-> 0, mode |-> "post", want |-> Nothing, head |-> 0, since |-> 0, rev |-> 0,
     pinned |-> FALSE, seen |-> {}, asked |-> FALSE, ctx |-> "none", meta |-> Nothing,
     text |-> Nothing, held |-> FALSE, fixture |-> FALSE, verdict |-> "UNKNOWN", end |-> 0,
     exit |-> 3]

ReviewTypeOK ==
    /\ prhead \in Pushed /\ base \in Bases /\ tracking \in 0..base /\ have \subseteq Pushed
    /\ granted \subseteq Revs /\ input \in Input \cup {Nothing} /\ runs \in 0..MaxRuns
    /\ run.verdict \in Verdicts /\ run.rev \in Bases /\ run.exit \in 0..3
    /\ run.ctx \in {"none", "ready", "unready"} /\ mishaps \in 0..MaxMishaps

(* Heads are only told apart: the first run begins with head 0.            *)
ReviewInit ==
    /\ prhead = 0 /\ base \in Bases /\ input = Nothing /\ granted = Revs /\ have = {} /\ tracking = 0
    /\ run = FreshRun /\ runs = 0 /\ saved = {} /\ comments = {} /\ mishaps = 0

Fails == mishaps < MaxMishaps /\ mishaps' = mishaps + 1
Fine == UNCHANGED mishaps
Becomes(r) == run' = r /\ UNCHANGED runs
Goes(pc) == Becomes([run EXCEPT !.pc = pc])
Exits(exit) ==
    Becomes([FreshRun EXCEPT !.pc = "done", !.n = run.n, !.mode = run.mode, !.head = run.head,
                             !.exit = exit])
RunAt(pc) == run.pc = pc /\ UNCHANGED prworld
Quietly == UNCHANGED <<have, tracking, saved, comments>>
(* An exception no handler of audit_pr takes: main prints it and returns 1. *)
Raises == Quietly /\ Exits(1) /\ Fails

Begin ==
    /\ run.pc \in Over /\ runs < MaxRuns /\ runs' = runs + 1
    /\ \E mode \in Modes, want \in Revs \cup {Nothing} :
         run' = [FreshRun EXCEPT !.pc = "fetch", !.n = runs + 1, !.mode = mode, !.want = want,
                                 !.head = prhead, !.since = base]
    /\ UNCHANGED <<prworld, have, tracking, saved, comments, mishaps>>

(***************************************************************************)
(* The heads and the base.  A fetch brings the pull request's head of that *)
(* moment, and the one the run began with only when that is an ancestor; a *)
(* checkout of that one is not fetched for.                                *)
(***************************************************************************)
FetchHead ==
    \/ /\ RunAt("fetch") /\ UNCHANGED <<tracking, saved, comments>> /\ Goes("base") /\ Fine
       /\ \/ \E older \in SUBSET {run.head} : have' = have \cup {prhead} \cup older
          \/ run.head \in have /\ UNCHANGED have
    \/ RunAt("fetch") /\ Raises
FetchBase ==
    \/ /\ RunAt("base") /\ UNCHANGED <<have, saved, comments>>
       /\ tracking' = base /\ Goes("pin") /\ Fine
    \/ RunAt("base") /\ Raises

(* The commit is pinned; one that cannot be resolved leaves the name, and  *)
(* each later read of the base would resolve that anew.                    *)
Pin ==
    /\ RunAt("pin") /\ Quietly
    /\ \/ Becomes([run EXCEPT !.pc = "authority", !.rev = tracking, !.pinned = TRUE]) /\ Fine
       \/ Goes("authority") /\ Fails
ByName == tracking
Base == IF run.pinned THEN run.rev ELSE tracking
Read(r) == [r EXCEPT !.seen = @ \cup {Base}]
Authority == RunAt("authority") /\ Quietly /\ Becomes([Read(run) EXCEPT !.pc = "lineage"]) /\ Fine
(* The policy of builder lineage accepts an immutable revision only, and   *)
(* may refuse the reviewer.                                                *)
Lineage ==
    \/ RunAt("lineage") /\ Quietly /\ run.pinned /\ Becomes([Read(run) EXCEPT !.pc = "context"]) /\ Fine
    \/ RunAt("lineage") /\ Quietly /\ Exits(1) /\ Fine

(***************************************************************************)
(* Private context: found, delivered, and confirmed before the verdict.    *)
(* A policy that cannot be read asks for none.                             *)
(***************************************************************************)
Delivered(asks) ==
    /\ asks => input.required
    /\ run.want \in {Nothing, input.rev}
    /\ input.head = run.head
    /\ input.kind = "optional_unavailable" \/ (input.kind = "full" /\ input.rev \in granted)
Prepared(asks) ==
    LET r == [Read(run) EXCEPT !.pc = "tree", !.asked = asks] IN
    IF input = Nothing
    THEN [r EXCEPT !.ctx = IF asks \/ run.want # Nothing THEN "unready" ELSE "none"]
    ELSE IF Delivered(asks)
         THEN [r EXCEPT !.ctx = "ready", !.meta = input,
                        !.text = IF input.kind = "full" THEN input.rev ELSE Nothing]
         ELSE [r EXCEPT !.ctx = "unready", !.meta = input]
Unreadable(asks) == [Read(run) EXCEPT !.pc = "tree", !.asked = asks, !.ctx = "unready"]
Prepare ==
    /\ RunAt("context") /\ Quietly
    /\ \/ Becomes(Prepared(Base \in Required)) /\ Fine
       \/ Becomes(Prepared(FALSE)) /\ Fails
       \/ Becomes(Unreadable(Base \in Required)) /\ Fails

Confirmed ==
    /\ run.ctx = "ready" /\ run.end = run.head
    /\ input = run.meta /\ (run.text # Nothing => run.text \in granted)

(***************************************************************************)
(* The review                                                              *)
(***************************************************************************)
Tree ==
    \/ RunAt("tree") /\ Quietly /\ run.head \in have /\ Goes("review") /\ Fine
    \/ RunAt("tree") /\ Quietly /\ run.head \notin have /\ Goes("lost") /\ Fine
    \/ RunAt("tree") /\ Quietly /\ Goes("lost") /\ Fails
(* Without a worktree of the head, the head has moved or the run fails.    *)
Lost ==
    \/ /\ RunAt("lost") /\ Quietly /\ prhead # run.head /\ Fine
       /\ Becomes([run EXCEPT !.pc = "save", !.verdict = "STALE", !.end = prhead,
                              !.meta = Nothing, !.text = Nothing])
    \/ RunAt("lost") /\ Quietly /\ prhead = run.head /\ Exits(1) /\ Fine
    \/ RunAt("lost") /\ Raises
(* A diff too large leaves the context out: with private evidence the      *)
(* review is not held at all.                                              *)
HeldRun(r) == [Read(r) EXCEPT !.pc = "structure", !.held = TRUE]
Review ==
    \/ RunAt("review") /\ Quietly /\ run.ctx # "unready" /\ Becomes(HeldRun(run)) /\ Fine
    \/ /\ RunAt("review") /\ Quietly /\ (run.ctx = "unready" \/ run.text # Nothing) /\ Fine
       /\ Becomes([run EXCEPT !.pc = "recheck", !.ctx = "unready"])
    \/ RunAt("review") /\ run.ctx # "unready" /\ Raises
Structure ==
    \/ /\ RunAt("structure") /\ Quietly /\ Fine
       /\ \E v \in Terminal \cup {"UNKNOWN"}, fixture \in BOOLEAN :
            /\ fixture => v = "UNKNOWN"
            /\ Becomes([run EXCEPT !.pc = "recheck", !.verdict = v, !.fixture = fixture])
    \/ RunAt("structure") /\ Raises
Recheck ==
    \/ RunAt("recheck") /\ Quietly /\ Becomes([run EXCEPT !.pc = "finish", !.end = prhead]) /\ Fine
    \/ RunAt("recheck") /\ Raises

Concluded(ok) ==
    IF run.end # run.head THEN "STALE" ELSE IF run.ctx # "none" /\ ~ok THEN "UNKNOWN" ELSE run.verdict
Closes(ok) ==
    Becomes([run EXCEPT !.pc = IF run.mode = "dry" THEN "close" ELSE "save",
                        !.verdict = Concluded(ok), !.fixture = @ /\ (run.ctx = "none" \/ ok)])
Finish ==
    \/ RunAt("finish") /\ Quietly /\ Closes(Confirmed) /\ Fine
    \/ RunAt("finish") /\ Quietly /\ run.ctx = "ready" /\ Closes(FALSE) /\ Fails

(***************************************************************************)
(* The artifact is saved before the comment is posted, in two calls.  One  *)
(* that a test or a fixture made is quarantined; a comment is posted for a *)
(* fixture, as an unknown verdict, and none for a test.                    *)
(***************************************************************************)
Quarantined == run.mode = "test" \/ run.fixture
Silent == run.mode = "test" /\ ~run.fixture
Final == IF Quarantined THEN "UNKNOWN" ELSE run.verdict
Code(v) == IF v = "UNKNOWN" THEN 2 ELSE 0
Body(v) ==
    [by |-> run.n, head |-> run.head, end |-> run.end, verdict |-> v,
     since |-> run.since, seen |-> run.seen, asked |-> run.asked, want |-> run.want,
     meta |-> run.meta, text |-> run.text,
     prose |-> run.held /\ run.text = Nothing, clean |-> ~Quarantined, bound |-> FALSE]
Save ==
    /\ RunAt("save") /\ UNCHANGED <<have, tracking, comments>>
    /\ Goes(IF Silent THEN "close" ELSE "post")
    /\ \/ saved' = saved \cup {Body(run.verdict)} /\ Fine
       \/ UNCHANGED saved /\ Fails
PostFails ==
    \/ RunAt("post") /\ Raises
    \/ /\ RunAt("post") /\ UNCHANGED <<have, tracking, saved>>   \* posted, the answer lost
       /\ comments' = comments \cup {Body(Final)} /\ Exits(1) /\ Fails
Post ==
    /\ RunAt("post") /\ UNCHANGED <<have, tracking, saved>>
    /\ comments' = comments \cup {Body(Final)} /\ Fine
    /\ Becomes([run EXCEPT !.pc = "bind", !.verdict = Final])
(* The comment is edited to name itself, which binds its digest.           *)
Bound(c) == [c EXCEPT !.bound = TRUE]
Bind ==
    \/ /\ RunAt("bind") /\ UNCHANGED <<have, tracking, saved>>
       /\ comments' = {IF c.by = run.n THEN Bound(c) ELSE c : c \in comments}
       /\ Goes("close") /\ Fine
    \/ RunAt("bind") /\ Raises
Close == RunAt("close") /\ Quietly /\ Exits(Code(run.verdict)) /\ Fine
(* A saved verdict is posted again as it stands, by a command of its own.  *)
Repostable(a) == a.clean /\ a.meta = Nothing
Repost ==
    /\ run.pc \in Over
    /\ \E a \in saved : Repostable(a) /\ comments' = comments \cup {Bound(a)}
    /\ UNCHANGED <<prworld, have, tracking, run, runs, saved, mishaps>>

(***************************************************************************)
(* The world                                                               *)
(***************************************************************************)
(* Its moves come before a step that reads what they move, or between two  *)
(* runs: one before a step that does not could as well come after it.      *)
AtBase == {"base", "pin", "authority", "lineage", "context"}
AtHead == {"fetch", "context", "lost", "recheck", "finish"}
AtContext == {"context", "finish"}
Aside(steps) ==
    /\ run.pc \in steps \/ (run.pc \in Over /\ 0 < runs /\ runs < MaxRuns)
    /\ UNCHANGED <<have, run, runs, saved, comments, mishaps>>
PushHead ==
    prhead' \in Pushed \ {prhead} /\ UNCHANGED <<base, input, granted, tracking>> /\ Aside(AtHead)
Merge ==
    /\ base < MaxBase /\ base' = base + 1
    /\ UNCHANGED <<prhead, input, granted, tracking>> /\ Aside(AtBase)
FetchElsewhere == tracking' = base /\ UNCHANGED prworld /\ Aside(AtBase)
Declare ==
    /\ \E i \in Input : i.head = prhead /\ input' = i
    /\ UNCHANGED <<prhead, base, granted, tracking>> /\ Aside(AtContext)
RevokeContext ==
    /\ \E r \in granted : granted' = granted \ {r}
    /\ UNCHANGED <<prhead, base, input, tracking>> /\ Aside(AtContext)
Killed ==
    /\ run.pc \notin Over /\ run' = FreshRun /\ Fails
    /\ UNCHANGED <<prworld, have, tracking, runs, saved, comments>>

Audit ==
    \/ FetchHead \/ FetchBase \/ Pin \/ Authority \/ Lineage \/ Prepare \/ Tree \/ Lost
    \/ Review \/ Structure \/ Recheck \/ Finish \/ Save \/ Post \/ PostFails \/ Bind \/ Close
ReviewNext ==
    \/ Begin \/ Audit \/ Repost \/ PushHead \/ Merge \/ FetchElsewhere \/ Declare
    \/ RevokeContext \/ Killed
ReviewSpec == ReviewInit /\ [][ReviewNext]_reviewVars

(***************************************************************************)
(* What an audit promises                                                  *)
(***************************************************************************)
(* All that a comment rests on was read at one revision of the base, no    *)
(* older than the base was when the run began.                             *)
OneRevision == \A c \in comments \cup saved : \E rev \in c.since..base : c.seen = {rev}
(* A terminal verdict is of the head that was the pull request's at its    *)
(* end, was no test's or fixture's, and used the context that the policy   *)
(* and the operator asked for.                                             *)
VerdictIsGrounded ==
    \A c \in comments : c.verdict \in Terminal =>
        /\ c.head = c.end /\ c.clean
        /\ c.asked => c.meta # Nothing /\ c.meta.required
        /\ c.want # Nothing => c.meta # Nothing /\ c.meta.rev = c.want
        /\ c.meta # Nothing => c.meta.head = c.head /\ c.meta.kind # "required_unavailable"
        /\ (c.meta # Nothing /\ c.meta.kind = "full") => c.text = c.meta.rev
(* No prose of a model that was given private text is published or saved,  *)
(* and a verdict that rests on context is posted by its own run only.      *)
PrivateStaysPrivate == \A c \in comments \cup saved : c.text # Nothing => ~c.prose
(* A run that reports success has its comment on the pull request.         *)
FailsLoudly ==
    (run.pc = "done" /\ run.exit = 0 /\ run.mode = "post") =>
        \E c \in comments : c.by = run.n /\ c.verdict # "UNKNOWN" /\ c.head = run.head
(* Confirmed when it was concluded: when a run passes to saving a terminal *)
(* verdict, the context it used stands as declared and may still be read.  *)
ConcludesOnStanding ==
    (run.pc = "finish" /\ run'.pc = "save" /\ run'.verdict \in Terminal /\ run.meta # Nothing) =>
        /\ input = run.meta
        /\ run.text # Nothing => run.text \in granted

(* While heads are pushed, the base moves and context is declared again or *)
(* withdrawn: an audit reads one revision of the base, concludes on its    *)
(* own head and on the context that still stands, keeps private text out   *)
(* of what it publishes and reports no success without its comment.        *)
ReviewsAreGrounded ==
    /\ [](ReviewTypeOK /\ OneRevision /\ VerdictIsGrounded /\ PrivateStaysPrivate /\ FailsLoudly)
    /\ [][ConcludesOnStanding]_reviewVars
===============================================================================
