--------------------------- MODULE AuditPublication ----------------------------
(***************************************************************************)
(* How the verdict of a local audit becomes a comment that counts          *)
(* (audit_publication.py and the workflows that call it).  A reviewer's    *)
(* job stages metadata, seals it in the record of its own run, and asks    *)
(* for its publication.  A publication run, one at a time, reserves a      *)
(* comment, writes the verdict into it, looks again, and leaves a receipt. *)
(* Nothing else makes a comment count: readers check run, receipt and body.*)
(***************************************************************************)
EXTENDS Naturals, FiniteSets

CONSTANTS Jobs,      \* reviewer jobs, each of one source run
          MaxPush,   \* pushes, a bound of the model
          MaxRuns,   \* publication runs, a bound of the model
          MaxFaults, \* lost calls, kills and deletions, a bound of the model
          NoJob

PublicationAssumption ==
    /\ MaxPush \in Nat /\ MaxRuns \in Nat /\ MaxFaults \in Nat /\ NoJob \notin Jobs

Runs == 1..MaxRuns
Commits == 0..MaxPush
Active == {"verify", "look", "reserve", "check", "write", "recheck", "cleanup", "receipt", "notify"}

VARIABLES
    branch,      \* head of the pull request
    job,       \* the reviewer jobs
    aged,      \* jobs whose artifact is older than a day
    run,       \* the publication runs
    comment,   \* what the comment of each run says
    notice,   \* the labelers' work on each run's notification
    confirmed, \* runs that saw the head after writing the verdict
    labelled,  \* runs whose verdict reached the labels
    faults

publicationVars == <<branch, job, aged, run, comment, notice, confirmed, labelled, faults>>
recorded == <<confirmed, labelled>>

NewJob == [pc |-> "idle", head |-> 0, last |-> 0, verdict |-> "none", sealed |-> FALSE]
NewRun == [pc |-> "none", job |-> NoJob, receipt |-> FALSE]

PublicationTypeOK ==
    /\ branch \in Commits /\ aged \subseteq Jobs /\ faults \in 0..MaxFaults
    /\ \A j \in Jobs : job[j].head \in Commits /\ job[j].last \in Commits /\ job[j].sealed \in BOOLEAN
    /\ \A r \in Runs : /\ run[r].job = NoJob <=> run[r].pc = "none"
                       /\ comment[r] \in {"none", "pending", "full", "closed", "deleted"}
                       /\ notice[r] \in {"none", "told", "read", "ended"}
    /\ Cardinality({r \in Runs : run[r].pc \in Active}) <= 1

PublicationInit ==
    /\ branch = 0 /\ job = [j \in Jobs |-> NewJob] /\ aged = {}
    /\ run = [r \in Runs |-> NewRun] /\ comment = [r \in Runs |-> "none"]
    /\ notice = [r \in Runs |-> "none"] /\ confirmed = {} /\ labelled = {} /\ faults = 0

Fault == faults < MaxFaults /\ faults' = faults + 1
Fine == UNCHANGED faults

(***************************************************************************)
(* What every step asks again                                              *)
(***************************************************************************)
(* validate: one unchanged head, a verdict, at most a day old.             *)
Valid(j) ==
    /\ job[j].verdict \in {"PASS", "BLOCKED"} /\ job[j].head = job[j].last /\ j \notin aged
CurrentPr(j) == branch = job[j].head
VerifySource(j) == job[j].sealed
Says(r) == comment[r] \in {"pending", "full", "closed"}
Reservations(j) == {r \in Runs : run[r].job = j /\ Says(r)}
Succeeded(j) == {r \in Runs : run[r].job = j /\ run[r].pc = "success" /\ run[r].receipt}

(* attested: the run ended well with one receipt, and the body is still    *)
(* exactly what that run writes for this comment.                          *)
Attested(r, h) ==
    /\ run[r].pc = "success" /\ run[r].receipt /\ comment[r] = "full"
    /\ job[run[r].job].head = h

(***************************************************************************)
(* The reviewer's job                                                      *)
(***************************************************************************)
Goes(j, pc) == job' = [job EXCEPT ![j].pc = pc]
Local == UNCHANGED <<branch, aged, run, comment, notice, recorded>>
Refuses(j) == Goes(j, "failed") /\ Local /\ Fine

PrepareReview(j) ==
    /\ job[j].pc = "idle" /\ job' = [job EXCEPT ![j].pc = "prepared", ![j].head = branch]
    /\ Local /\ Fine
(* The checkout is compared with the head once more, when GitHub answers.  *)
VerifyCheckout(j) ==
    /\ job[j].pc = "prepared"
    /\ \/ CurrentPr(j) /\ Goes(j, "review") /\ Fine
       \/ ~CurrentPr(j) /\ Goes(j, "failed") /\ Fine
       \/ Goes(j, "review") /\ Fault
    /\ Local
Review(j) ==
    /\ job[j].pc = "review"
    /\ \E v \in {"PASS", "BLOCKED", "UNKNOWN"} :
         job' = [job EXCEPT ![j].pc = "stage", ![j].verdict = v, ![j].last = branch]
    /\ Local /\ Fine
Stage(j) ==
    /\ job[j].pc = "stage"
    /\ IF Valid(j) /\ CurrentPr(j) THEN Goes(j, "seal") ELSE Goes(j, "failed")
    /\ Local /\ Fine
PrepareSeal(j) ==
    /\ job[j].pc = "seal"
    /\ IF Valid(j) /\ CurrentPr(j)
       THEN job' = [job EXCEPT ![j].pc = "submit", ![j].sealed = TRUE] ELSE Goes(j, "failed")
    /\ Local /\ Fine

(* submit_value: the request for publication may be lost, or its answer.   *)
(* A queued run takes the place of one queued before it.                   *)
Queued(j) ==
    /\ \E r \in Runs :
         /\ run[r].pc = "none" /\ \A s \in Runs : s < r => run[s].pc # "none"
         /\ run' = [s \in Runs |-> CASE s = r -> [NewRun EXCEPT !.pc = "queued", !.job = j]
                                     [] run[s].pc = "queued" -> [run[s] EXCEPT !.pc = "failure"]
                                     [] OTHER -> run[s]]
MaySubmit(j) == Valid(j) /\ VerifySource(j) /\ CurrentPr(j) /\ Reservations(j) = {}
Submit(j) ==
    /\ job[j].pc = "submit"
    /\ \/ ~MaySubmit(j) /\ Goes(j, "failed") /\ UNCHANGED run /\ Fine
       \/ MaySubmit(j) /\ Queued(j) /\ Goes(j, "waiting") /\ Fine
       \/ MaySubmit(j) /\ Queued(j) /\ Goes(j, "failed") /\ Fault
       \/ MaySubmit(j) /\ UNCHANGED run /\ Goes(j, "failed") /\ Fault
    /\ UNCHANGED <<branch, aged, comment, notice, recorded>>

(* The same request may be made again, by hand or by a retry.              *)
Redispatch(j) ==
    /\ job[j].sealed /\ Queued(j) /\ Fault
    /\ UNCHANGED <<branch, job, aged, comment, notice, recorded>>

(* Each poll of the wait reads the head, the comments and then the run.    *)
HasEnded(r) == run[r].pc \in {"success", "failure"}
Await(j) ==
    /\ job[j].pc = "waiting"
    /\ \/ ~CurrentPr(j) /\ Goes(j, "failed")
       \/ CurrentPr(j) /\ Cardinality(Reservations(j)) > 1 /\ Goes(j, "failed")
       \/ /\ CurrentPr(j) /\ Cardinality(Reservations(j)) = 1
          /\ \E r \in Reservations(j) :
               /\ HasEnded(r) /\ Goes(j, IF Attested(r, job[j].head) THEN "published" ELSE "failed")
       \/ Goes(j, "failed")
    /\ Local /\ Fine

(***************************************************************************)
(* The publication run                                                     *)
(***************************************************************************)
Becomes(r, pc) == run' = [run EXCEPT ![r].pc = pc]
Remote == UNCHANGED <<branch, job, aged, notice, labelled>>
Quiet == UNCHANGED <<comment, confirmed>>
Of(r) == run[r].job

(* The concurrency group lets one run work at a time.                      *)
Crowded == TRUE
Vacant == \A r \in Runs : run[r].pc \notin Active
Start(r) ==
    /\ run[r].pc = "queued" /\ Vacant
    /\ Becomes(r, "verify") /\ Remote /\ Quiet /\ Fine
Unseen(r) == FALSE
Replayed(r) == Succeeded(Of(r)) # {}
VerifyRun(r) ==
    /\ run[r].pc = "verify"
    /\ Becomes(r, IF Valid(Of(r)) /\ VerifySource(Of(r)) /\ ~Replayed(r) /\ CurrentPr(Of(r))
                  THEN "look" ELSE "failure")
    /\ Remote /\ Quiet /\ Fine
Look(r) ==
    /\ run[r].pc = "look" /\ Becomes(r, IF Reservations(Of(r)) = {} THEN "reserve" ELSE "failure")
    /\ Remote /\ Quiet /\ Fine
(* A reservation whose answer is lost stays and the run fails.             *)
Reserve(r) ==
    /\ run[r].pc = "reserve" /\ comment' = [comment EXCEPT ![r] = "pending"]
    /\ \/ Becomes(r, "check") /\ Fine
       \/ Becomes(r, "failure") /\ Fault
    /\ Remote /\ UNCHANGED confirmed
Check(r) ==
    /\ run[r].pc = "check"
    /\ Becomes(r, IF CurrentPr(Of(r)) /\ VerifySource(Of(r)) THEN "write" ELSE "cleanup")
    /\ Remote /\ Quiet /\ Fine
Patches(r, body) ==
    comment' = IF comment[r] = "deleted" THEN comment ELSE [comment EXCEPT ![r] = body]
Write(r) ==
    /\ run[r].pc = "write"
    /\ \/ Patches(r, "full") /\ Becomes(r, IF comment[r] = "deleted" THEN "cleanup" ELSE "recheck") /\ Fine
       \/ Patches(r, "full") /\ Becomes(r, "cleanup") /\ Fault
       \/ UNCHANGED comment /\ Becomes(r, "cleanup") /\ Fault
    /\ Remote /\ UNCHANGED confirmed
Recheck(r) ==
    /\ run[r].pc = "recheck"
    /\ \/ /\ CurrentPr(Of(r)) /\ VerifySource(Of(r))
          /\ Becomes(r, "receipt") /\ confirmed' = confirmed \cup {r} /\ Fine
       \/ ~CurrentPr(Of(r)) /\ Becomes(r, "cleanup") /\ UNCHANGED confirmed /\ Fine
       \/ Becomes(r, "cleanup") /\ UNCHANGED confirmed /\ Fault
    /\ Remote /\ UNCHANGED comment
Cleanup(r) ==
    /\ run[r].pc = "cleanup" /\ Becomes(r, "failure")
    /\ \/ Patches(r, "closed") /\ Fine
       \/ UNCHANGED comment /\ Fault
    /\ Remote /\ UNCHANGED confirmed
Receipt(r) ==
    /\ run[r].pc = "receipt" /\ run' = [run EXCEPT ![r].pc = "notify", ![r].receipt = TRUE]
    /\ Remote /\ Quiet /\ Fine
(* The reconcile job notifies the labelers, or gives up and still ends     *)
(* well; it does not wait for them.                                        *)
Notify(r) ==
    /\ run[r].pc = "notify" /\ Becomes(r, "success")
    /\ \/ notice' = [notice EXCEPT ![r] = "told"] /\ Fine
       \/ UNCHANGED notice /\ Fault
    /\ UNCHANGED <<branch, job, aged, labelled>> /\ Quiet
(* The notice is out before the run has ended.                             *)
NotifyEarly(r) ==
    /\ run[r].pc = "notify" /\ notice[r] = "none" /\ notice' = [notice EXCEPT ![r] = "told"]
    /\ UNCHANGED <<branch, job, aged, run, labelled>> /\ Quiet /\ Fine
(* A run killed, or a job of it lost, fails where it stands.               *)
Killed(r) ==
    /\ run[r].pc \in Active /\ Becomes(r, "failure") /\ Fault /\ Remote /\ Quiet

(***************************************************************************)
(* The labelers: prepare_label_event                                       *)
(***************************************************************************)
Told(r, to) == notice' = [notice EXCEPT ![r] = to]
Elsewhere == UNCHANGED <<branch, job, aged, run, comment, confirmed>>
LabelReads(r) ==
    /\ notice[r] = "told"
    /\ \/ HasEnded(r) /\ run[r].pc = "success" /\ run[r].receipt /\ comment[r] = "full" /\ Told(r, "read")
       \/ HasEnded(r) /\ (run[r].pc # "success" \/ comment[r] # "full") /\ Told(r, "ended")
       \/ ~HasEnded(r) /\ Told(r, "ended")
    /\ Elsewhere /\ UNCHANGED labelled /\ Fine
LabelAccepts(r) ==
    /\ notice[r] = "read" /\ Told(r, "ended")
    /\ labelled' = IF CurrentPr(Of(r)) THEN labelled \cup {r} ELSE labelled
    /\ Elsewhere /\ Fine

(***************************************************************************)
(* Everything else                                                         *)
(***************************************************************************)
PushCommit ==
    /\ branch < MaxPush /\ branch' = branch + 1
    /\ UNCHANGED <<job, aged, run, comment, notice, recorded, faults>>
Age(j) ==
    /\ j \notin aged /\ job[j].verdict # "none" /\ aged' = aged \cup {j} /\ Fault
    /\ UNCHANGED <<branch, job, run, comment, notice, recorded>>
DeleteComment(r) ==
    /\ Says(r) /\ comment' = [comment EXCEPT ![r] = "deleted"] /\ Fault
    /\ UNCHANGED <<branch, job, aged, run, notice, recorded>>

Job(j) ==
    PrepareReview(j) \/ VerifyCheckout(j) \/ Review(j) \/ Stage(j) \/ PrepareSeal(j)
    \/ Submit(j) \/ Redispatch(j) \/ Await(j)
Publish(r) ==
    Start(r) \/ VerifyRun(r) \/ Look(r) \/ Reserve(r) \/ Check(r) \/ Write(r) \/ Recheck(r)
    \/ Cleanup(r) \/ Receipt(r) \/ Notify(r) \/ NotifyEarly(r) \/ Killed(r)
PublicationNext ==
    \/ \E j \in Jobs : Job(j) \/ Age(j)
    \/ \E r \in Runs : Publish(r) \/ LabelReads(r) \/ LabelAccepts(r) \/ DeleteComment(r)
    \/ PushCommit
PublicationSpec == PublicationInit /\ [][PublicationNext]_publicationVars

(***************************************************************************)
(* Properties                                                              *)
(***************************************************************************)
(* A verdict that counts for a head, or reached the labels, was sealed by  *)
(* a job that reviewed that head from start to end, and the pull request   *)
(* was still at that head after the verdict was written: a run that failed *)
(* anywhere, its cleanup included, gives no authority (publish, attested). *)
AuthorityIsSealed ==
    \A r \in Runs : (\E h \in Commits : Attested(r, h)) \/ r \in labelled =>
        LET j == job[run[r].job] IN
        j.sealed /\ j.verdict \in {"PASS", "BLOCKED"} /\ j.head = j.last /\ r \in confirmed

(* One artifact is published at most once, however often its publication   *)
(* is requested, whatever answers are lost and whoever deletes comments    *)
(* (the reservation and the receipts in publish).                          *)
PublishedOnce == \A j \in Jobs : Cardinality(Succeeded(j)) <= 1

(* A job that reports its verdict published has one that counts, unless    *)
(* its comment was deleted since (submit_value).                           *)
SubmittedIsPublished ==
    \A j \in Jobs : job[j].pc = "published" =>
        \E r \in Succeeded(j) : comment[r] \in {"full", "deleted"} /\ r \in confirmed

(* What a verdict that was published is worth.                             *)
VerdictsAreSealed == AuthorityIsSealed /\ PublishedOnce /\ SubmittedIsPublished
===============================================================================
